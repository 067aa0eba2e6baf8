------------------------- MODULE MCArtifactReaders --------------------------
(* The readers of the two artifact formats, each beside the tracer's       *)
(* writer of its format, for TLC.  `format` says which of them a behaviour *)
(* is about; the variables of the other keep their initial values.         *)
EXTENDS MCFlightRecovery

CONSTANTS Opcodes, MaxDictionary, MaxRecords

VARIABLES format, q_stream, q_closed, q_file, q_damage, q_mode, q_cursor

qtrb_vars == <<q_stream, q_closed, q_file, q_damage, q_mode, q_cursor>>

Qtrb == INSTANCE QtrbReader WITH
            stream <- q_stream, closed <- q_closed, file <- q_file,
            damage <- q_damage, mode <- q_mode, cursor <- q_cursor

ASSUME Qtrb!QtrbAssumption

ReadersInit ==
    /\ Init /\ Qtrb!Init
    /\ \/ format = "qtrace" /\ workload = CHOOSE w \in Workloads : TRUE
       \/ format = "flight"

ReadersNext ==
    \/ format = "qtrace" /\ Qtrb!Next /\ UNCHANGED <<format, vars>>
    \/ format = "flight" /\ Next /\ UNCHANGED <<format, qtrb_vars>>

ReadersSpec == ReadersInit /\ [][ReadersNext]_<<format, vars, qtrb_vars>>
-----------------------------------------------------------------------------
(* The events the qtrace reader returns are the events written, in their   *)
(* order and up to some point, wherever a crash cut the file.              *)
ReadsAPrefix == Qtrb!ReadsAPrefix

(* A qtrace file with a terminal that is read to its end holds the whole   *)
(* trace; one without is read to its end only as partial, and the summary  *)
(* says that the terminal is missing (finish_stream).  One that a crash    *)
(* cut between two records is read to the cut when it is opened as         *)
(* partial, unless the cut is inside a group of chunks or before the first *)
(* record.                                                                 *)
EndIsTruthful ==
    Qtrb!SealedIsWhole /\ Qtrb!MissingIsReported /\ Qtrb!CutIsRecovered

(* What the Flight reader reports beside the events: every number between  *)
(* the first and the last is read, damaged or missing; an event is made of *)
(* the fragments of one call, and only what misses a fragment is damaged;  *)
(* a thread is reported as not terminated when its ThreadBegin is read and *)
(* its ThreadEnd is not, in whatever order the ring holds them.            *)
RecoveryIsTruthful == MissingIsAccounted /\ FragmentsAreWhole /\ UnterminatedIsReported
=============================================================================
