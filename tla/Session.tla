------------------------------ MODULE Session ------------------------------
(***************************************************************************)
(* What a streaming session of libairspyhf promises to the application,    *)
(* whose sample callback runs in a thread of the library: callbacks come   *)
(* one at a time, only in a session, at most one more once the session has *)
(* ended by itself and none after a callback that ended it, and            *)
(* airspyhf_stop returns when there is none and will be none.              *)
(*                                                                         *)
(* The module Streaming implements this specification, for an application  *)
(* that calls airspyhf_stop between two sessions; RxTool builds on it.     *)
(***************************************************************************)

VARIABLES
  phase,      \* "off", "on" from airspyhf_start to airspyhf_stop, "stopping"
  streaming,  \* airspyhf_is_streaming, as long as airspyhf_stop is not called
  calling,    \* the sample callback runs
  late        \* the session has ended by itself, and one callback will come

svars == <<phase, streaming, calling, late>>

Init == phase = "off" /\ streaming = FALSE /\ calling = FALSE /\ late = FALSE

(* airspyhf_start, once it has set the receiver up: from there on it may   *)
(* fail and leave everything as it is.                                     *)
Start ==
  /\ phase = "off" /\ phase' = "on"
  /\ streaming' = TRUE
  /\ UNCHANGED <<calling, late>>

CallbackBegins ==
  /\ phase # "off" /\ ~calling
  /\ streaming \/ late
  /\ calling' = TRUE
  /\ late' = FALSE
  /\ UNCHANGED <<phase, streaming>>

(* The callback returns 0, or ends the session. *)
CallbackEnds(zero) ==
  /\ calling /\ calling' = FALSE
  /\ streaming' = (streaming /\ zero)
  /\ UNCHANGED <<phase, late>>

(* The session ends by itself. *)
Fails ==
  /\ streaming /\ streaming' = FALSE
  /\ late' \in {FALSE, ~calling}
  /\ UNCHANGED <<phase, calling>>

NoneLate ==
  /\ late /\ late' = FALSE
  /\ UNCHANGED <<phase, streaming, calling>>

StopBegins ==
  /\ phase # "stopping" /\ phase' = "stopping"
  /\ UNCHANGED <<streaming, calling, late>>

StopReturns ==
  /\ phase = "stopping" /\ phase' = "off"
  /\ ~streaming /\ ~calling /\ ~late
  /\ UNCHANGED <<streaming, calling, late>>

Next ==
  \/ Start \/ CallbackBegins \/ (\E zero \in BOOLEAN : CallbackEnds(zero))
  \/ Fails \/ NoneLate \/ StopBegins \/ StopReturns

Spec == Init /\ [][Next]_svars
=============================================================================
