------------------------------- MODULE RxTool -------------------------------
(***************************************************************************)
(* The receiver tool airspyhf_rx: its main thread, which sets a device up, *)
(* waits for the end of the reception and completes the WAV header, and    *)
(* its sample callback in the library's consumer thread, which writes the  *)
(* file up to the limit of option -n.  The two share bytes_to_xfer, do_exit*)
(* and the file without a lock.                                            *)
(*                                                                         *)
(* The library's side is a Session, which the module Streaming implements: *)
(* its callbacks begin and end as that allows.  Numbers keep the program's *)
(* widths in smaller units: U64 and U32 stand for 2^64 and 2^32.           *)
(* A 32-bit build loads the two words of bytes_to_xfer one after the other.*)
(***************************************************************************)
EXTENDS Integers

CONSTANTS
  U64, U32,
  SampleBytes,    \* 8
  BlockBytes,     \* bytes of a block of samples
  Samples,        \* values of option -n
  Builds,         \* word sizes of the machine: subset of {32, 64}
  MaxBytes        \* bound: bytes received without a limit

ASSUME SizesAssumption ==
  /\ {U64, U32, SampleBytes, BlockBytes} \subseteq Nat \ {0}
  /\ Samples \subseteq Nat /\ MaxBytes \in Nat
  /\ BlockBytes < U32 /\ Builds \subseteq {32, 64}

VARIABLES
  options,        \* the command line
  build,          \* the machine's word size
  main,           \* where the main thread is
  low,            \* the word of bytes_to_xfer that main has loaded
  do_exit, bytes_to_xfer,
  phase, streaming, late,   \* of the Session
  consumer,       \* where the consumer thread is in rx_callback, or "idle"
  bytes_to_write, \* its local variable
  written,        \* bytes of samples in the file
  (* Ghost variables *)
  broken,         \* the device or a write has failed
  interrupted     \* Ctrl-C was pressed

fixed == <<options, build>>
session == <<phase, streaming, late>>
library == <<session, consumer>>
file == <<bytes_to_write, written>>
ghosts == <<broken, interrupted>>
vars == <<fixed, main, low, do_exit, bytes_to_xfer, library, file, ghosts>>

Options == [limit : BOOLEAN, samples : Samples, manual : BOOLEAN, agc : BOOLEAN]
Over == {"done", "failed", "usage"}

(* The calls of main, in order.  The manual commands depend on options.    *)
Follows ==
  {<<"open", "rates">>, <<"rates", "samplerate">>, <<"samplerate", "serial">>}
  \union (IF options.manual
            THEN {<<"serial", "agc">>, <<"agc", IF options.agc THEN "threshold" ELSE "att">>,
                  <<"threshold", "lna">>, <<"att", "lna">>, <<"lna", "file">>}
            ELSE {<<"serial", "file">>})
  \union {<<"file", "start">>, <<"freq", "streaming?">>}
Guarded == {"start", "freq", "streaming?", "exit?", "limit?", "high?", "stop", "join",
            "header", "failure", "failure join"}
Places == Guarded \union Over
          \union {"options", "open", "rates", "samplerate", "serial", "agc", "threshold",
                  "att", "lna", "file"}

Init ==
  /\ options \in Options
  /\ build \in Builds
  /\ main = "options"
  /\ low = 0
  /\ do_exit = FALSE
  /\ bytes_to_xfer = 0
  /\ phase = "off" /\ streaming = FALSE /\ late = FALSE
  /\ consumer = "idle"
  /\ bytes_to_write = 0
  /\ written = 0
  /\ broken = FALSE /\ interrupted = FALSE
-----------------------------------------------------------------------------
Library == INSTANCE Session WITH calling <- consumer # "idle"

Goes(from, to) == main = from /\ main' = to

(* SAMPLES_TO_XFER_MAX_U64 *)
Asked == (options.samples * SampleBytes) % U64
ParseOptions ==
  /\ Goes("options", IF options.samples >= U64 \div 2 THEN "usage" ELSE "open")
  /\ bytes_to_xfer' = Asked
  /\ UNCHANGED <<fixed, low, do_exit, library, file, ghosts>>

(* Each call may fail. *)
SetUp ==
  /\ \E step \in Follows : Goes(step[1], step[2]) \/ Goes(step[1], "failure")
  /\ UNCHANGED <<fixed, low, do_exit, bytes_to_xfer, library, file, ghosts>>

(* airspyhf_start; when it fails there may be a session all the same.      *)
Start ==
  /\ UNCHANGED <<fixed, low, do_exit, bytes_to_xfer, consumer, file, ghosts>>
  /\ \/ \E to \in {"freq", "failure"} :
          /\ Goes("start", to)
          /\ Library!Start
     \/ Goes("start", "failure") /\ UNCHANGED session

(* Mutant: the loop does not look at airspyhf_is_streaming. *)
StillStreamingBlind ==
  /\ Goes("streaming?", "exit?")
  /\ UNCHANGED <<fixed, low, do_exit, bytes_to_xfer, library, file, ghosts>>

StillStreaming ==
  /\ Goes("streaming?", IF streaming THEN "exit?" ELSE "stop")
  /\ UNCHANGED <<fixed, low, do_exit, bytes_to_xfer, library, file, ghosts>>

StillWanted ==
  /\ Goes("exit?", IF do_exit THEN "stop"
                   ELSE IF options.limit THEN "limit?" ELSE "streaming?")
  /\ UNCHANGED <<fixed, low, do_exit, bytes_to_xfer, library, file, ghosts>>

LimitSeen(zero) ==
  /\ do_exit' = (do_exit \/ zero)
  /\ UNCHANGED <<fixed, bytes_to_xfer, library, file, ghosts>>

(* Mutant: the last block counts as received already. *)
TestLimitEarly ==
  /\ Goes("limit?", "streaming?") /\ build = 64
  /\ UNCHANGED low
  /\ LimitSeen(bytes_to_xfer < BlockBytes)
TestLimit ==
  /\ Goes("limit?", "streaming?") /\ build = 64
  /\ UNCHANGED low
  /\ LimitSeen(bytes_to_xfer = 0)
TestLow ==
  /\ Goes("limit?", "high?") /\ build = 32
  /\ low' = bytes_to_xfer % U32
  /\ UNCHANGED <<fixed, do_exit, bytes_to_xfer, library, file, ghosts>>
TestHigh ==
  /\ Goes("high?", "streaming?")
  /\ low' = 0
  /\ LimitSeen(low = 0 /\ bytes_to_xfer \div U32 = 0)

(* Ctrl-C, for which main has a handler once it has the file. *)
Interrupt ==
  /\ main \in Guarded /\ ~do_exit
  /\ do_exit' = TRUE
  /\ interrupted' = TRUE
  /\ UNCHANGED <<fixed, main, low, bytes_to_xfer, library, file, broken>>

(* airspyhf_stop, or the one in airspyhf_close, which ends the session and *)
(* joins the consumer.                                                     *)
Stop ==
  /\ Goes("stop", "join") \/ Goes("failure", "failure join")
  /\ UNCHANGED <<fixed, low, do_exit, bytes_to_xfer, consumer, file, ghosts>>
  /\ Library!StopBegins

EndSession ==
  /\ phase = "stopping"
  /\ UNCHANGED <<fixed, main, low, do_exit, bytes_to_xfer, consumer, file, ghosts>>
  /\ Library!Fails

(* Mutant: airspyhf_stop does not wait for the consumer. *)
JoinNot ==
  /\ Goes("join", "header") \/ Goes("failure join", "failed")
  /\ UNCHANGED <<fixed, low, do_exit, bytes_to_xfer, library, file, ghosts>>

Join ==
  /\ Goes("join", "header") \/ Goes("failure join", "failed")
  /\ UNCHANGED <<fixed, low, do_exit, bytes_to_xfer, consumer, file, ghosts>>
  /\ Library!StopReturns

(* The WAV header is completed at the file's start, the file closed.       *)
WriteHeader ==
  /\ Goes("header", "done")
  /\ UNCHANGED <<fixed, low, do_exit, bytes_to_xfer, library, file, ghosts>>
-----------------------------------------------------------------------------
(* rx_callback: a block is handed over.  The limit is applied, which main  *)
(* may see before the block is written.                                    *)
Receive ==
  /\ ~options.limit => written < MaxBytes
  /\ consumer' = "limit"
  /\ Library!CallbackBegins
  /\ bytes_to_write' = BlockBytes
  /\ UNCHANGED <<fixed, main, low, do_exit, bytes_to_xfer, written, ghosts>>

Lower(a, b) == IF a < b THEN a ELSE b

(* Mutant: the last block is not cut. *)
ApplyLimitUncut ==
  /\ consumer = "limit" /\ consumer' = "write"
  /\ bytes_to_xfer' = IF options.limit THEN (bytes_to_xfer - bytes_to_write) % U64
                      ELSE bytes_to_xfer
  /\ UNCHANGED <<fixed, main, low, do_exit, session, file, ghosts>>

ApplyLimit ==
  /\ consumer = "limit" /\ consumer' = "write"
  /\ IF options.limit
       THEN /\ bytes_to_write' = Lower(bytes_to_write, bytes_to_xfer)
            /\ bytes_to_xfer' = bytes_to_xfer - bytes_to_write'
       ELSE UNCHANGED <<bytes_to_write, bytes_to_xfer>>
  /\ UNCHANGED <<fixed, main, low, do_exit, session, written, ghosts>>

(* fwrite, and the callback's result: any but 0 ends the session.          *)
Write ==
  /\ consumer = "write" /\ consumer' = "idle"
  /\ \/ /\ written' = written + bytes_to_write
        /\ Library!CallbackEnds(~(options.limit /\ bytes_to_xfer = 0))
        /\ UNCHANGED broken
     \/ /\ bytes_to_write > 0
        /\ written' = written + bytes_to_write \div 2
        /\ Library!CallbackEnds(FALSE)
        /\ broken' = TRUE
  /\ UNCHANGED <<fixed, main, low, do_exit, bytes_to_xfer, bytes_to_write, interrupted>>

(* The device fails, and the session ends by itself. *)
DeviceFails ==
  /\ phase = "on"
  /\ UNCHANGED <<fixed, main, low, do_exit, bytes_to_xfer, consumer, file, interrupted>>
  /\ Library!Fails
  /\ broken' = TRUE

NoneLate ==
  /\ UNCHANGED <<fixed, main, low, do_exit, bytes_to_xfer, consumer, file, ghosts>>
  /\ Library!NoneLate

Loop == StillStreaming \/ StillWanted \/ TestLimit \/ TestLow \/ TestHigh
Main == ParseOptions \/ SetUp \/ Start \/ Loop \/ Stop \/ EndSession \/ Join
        \/ WriteHeader
Callback == ApplyLimit \/ Write \/ NoneLate
Ended == main \in Over /\ UNCHANGED vars

Next == Main \/ Callback \/ Receive \/ Interrupt \/ DeviceFails \/ Ended

(* Threads run; the device goes on sending. *)
Fairness == WF_vars(Main) /\ WF_vars(Callback) /\ WF_vars(Receive)

Spec == Init /\ [][Next]_vars /\ Fairness
-----------------------------------------------------------------------------
(* Types. *)
TypeOK ==
  /\ options \in Options
  /\ build \in Builds
  /\ main \in Places
  /\ low \in 0 .. U32 - 1
  /\ {do_exit, streaming, late, broken, interrupted} \subseteq BOOLEAN
  /\ phase \in {"off", "on", "stopping"}
  /\ bytes_to_xfer \in 0 .. U64 - 1
  /\ consumer \in {"idle", "limit", "write"}
  /\ bytes_to_write \in 0 .. BlockBytes
  /\ written \in Nat

(* What is written, being written and left to write is at every moment     *)
(* what -n asked for, as long as the file takes it: never more samples,    *)
(* and none is counted twice.                                              *)
LimitConserved ==
  (options.limit /\ main \notin {"options", "usage"} /\ ~broken) =>
    written + (IF consumer = "write" THEN bytes_to_write ELSE 0) + bytes_to_xfer = Asked

(* airspyhf_rx ends without a signal or a failure only when -n was given,  *)
(* and in a 64-bit build only with all the bytes of -n written, though     *)
(* main may see the limit reached while the last block is still to be      *)
(* written, or the session ended before it sees the limit.                 *)
AllWritten ==
  (main = "done" /\ ~broken /\ ~interrupted) =>
    /\ options.limit
    /\ build = 64 => written = Asked

(* No callback writes while main completes the header and closes the file, *)
(* nor once the tool has ended.                                            *)
FileQuiet ==
  main \in {"header"} \union Over => consumer = "idle" /\ phase = "off"

(* With -n, or after Ctrl-C, the tool ends, whatever fails. *)
ToolEnds == ((options.limit \/ do_exit) ~> main \in Over)
=============================================================================
