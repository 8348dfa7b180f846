--------------------------- MODULE MCJobSchedule ---------------------------
(* Every job, then the jobs of the hour without Mythic+ ingestion.           *)
EXTENDS JobSchedule

MCWaitsOut == [s \in Yielding |-> YieldsTo(s)]

AllJobs == Schedulers
NoOne == {}
NoMplus == {"sweep", "enrichment", "archive", "raid"}
NoMplusPass == {"sweep", "archive", "mplusArchive"}
=============================================================================
