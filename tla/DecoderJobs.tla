----------------------------- MODULE DecoderJobs -----------------------------
(***************************************************************************)
(* The decoder job, the one message by which the Kiwi extension tells the  *)
(* decoder what to do, and the rule by which the decoder compares a job    *)
(* with the one it holds.                                                  *)
(*                                                                         *)
(* A job keeps the fields that distinguish behaviours.  input_rate is one  *)
(* constant of a receiver here, and `reporter' stands for the Reporter     *)
(* fields: whether the job asks the sidecar to report.  Protocol and       *)
(* station_feed are the same in every job.                                 *)
(***************************************************************************)
EXTENDS Naturals

CONSTANTS Rx,     \* receiver channels of the Kiwi
          Modes,  \* FreeDV modes
          Freqs,  \* dial frequencies
          Nil     \* absent channel, mode, frequency or sample

ASSUME NilAssumption == Nil \notin Rx \cup Modes \cup Freqs \cup Nat

DecoderJob ==
    [generation : Nat, running : BOOLEAN, rx_channel : Rx \cup {Nil},
     mode : Modes \cup {Nil}, frequency_hz : Freqs \cup {Nil},
     test : BOOLEAN, test_ready : BOOLEAN, reporter : BOOLEAN]

\* A job that runs nothing: every field but the generation has its default.
IdleJob(g) ==
    [generation |-> g, running |-> FALSE, rx_channel |-> Nil, mode |-> Nil,
     frequency_hz |-> Nil, test |-> FALSE, test_ready |-> FALSE,
     reporter |-> FALSE]

classify_job(current, incoming) ==
    CASE incoming.generation < current.generation -> "stale"
      [] incoming = current                       -> "unchanged"
      [] /\ incoming.generation = current.generation
         /\ incoming # current                    -> "conflict"
      [] incoming.generation > current.generation -> "changed"

\* The one difference a same-generation job may show: the reference test that
\* waited for its camper may now decode.
TestNowReady(current, incoming) ==
    /\ current.running /\ current.test /\ ~current.test_ready
    /\ [incoming EXCEPT !.reporter = current.reporter]
          = [current EXCEPT !.test_ready = TRUE]

\* What every job of a generation agrees on: all but the test handshake, and
\* the Reporter switch, which the administrator may flip.
Essence(job) == <<job.generation, job.running, job.rx_channel, job.mode,
                  job.frequency_hz, job.test>>
==============================================================================
