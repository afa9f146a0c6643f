----------------------------- MODULE MCReporter -----------------------------
(***************************************************************************)
(* Two listeners, one of them with a second frequency, and a test.         *)
(***************************************************************************)
EXTENDS Reporter

About(frequency, mode, who, enabled, test) ==
    [frequency |-> frequency, mode |-> mode, who |-> who, message |-> who,
     enabled |-> enabled, test |-> test]

SomeJobs == {About("f1", "700D", "zl2abc", TRUE, FALSE),
             About("f2", "RADEV1", "vk5dgr", TRUE, FALSE),
             About("f2", "700D", "zl2abc", FALSE, TRUE)}

\* Without the test, and no job that was not opted in.
OptedInJobs == {job \in SomeJobs : job.enabled}
==============================================================================
