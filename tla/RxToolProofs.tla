---------------------------- MODULE RxToolProofs ----------------------------
(***************************************************************************)
(* airspyhf_rx for every word size, block size and limit: what option -n   *)
(* asked for is neither exceeded nor lost, and no callback touches the     *)
(* file once it is completed.  RxInv relates the main thread's place to    *)
(* the library's session: where there is one, where there is none, and     *)
(* why main left its loop.                                                 *)
(***************************************************************************)
EXTENDS RxTool, TLAPS

InLoop == {"streaming?", "exit?", "limit?", "high?"}
BeforeSession ==
  {"options", "open", "rates", "samplerate", "serial", "agc", "threshold", "att",
   "lna", "file", "start"}

(* Where there is a session, and where none. *)
SessionInv ==
  /\ phase = "off" => ~streaming /\ ~late /\ consumer = "idle"
  /\ main \in BeforeSession \union {"header"} \union Over => phase = "off"
  /\ main \in InLoop \union {"freq", "stop"} => phase = "on"

(* Nothing was received before the options are parsed. *)
StartInv ==
  /\ main = "options" => written = 0 /\ ~do_exit
  /\ main \in {"limit?", "high?"} => options.limit
  /\ main = "high?" => build # 64

(* Main leaves its loop for a reason. *)
Reached == options.limit /\ (build = 64 => bytes_to_xfer = 0)
ReasonInv ==
  /\ (do_exit /\ ~interrupted) => Reached
  /\ (phase = "on" /\ ~streaming /\ ~broken) => Reached
  /\ (main \in {"stop", "join", "header", "done"} /\ ~broken /\ ~interrupted) => Reached

RxInv == TypeOK /\ SessionInv /\ StartInv /\ ReasonInv /\ LimitConserved

LEMMA Remainder ==
  ASSUME NEW a \in Nat, NEW b \in Nat \ {0} PROVE a % b \in 0 .. b - 1
  OBVIOUS

LEMMA Sizes ==
  /\ U64 \in Nat \ {0} /\ U32 \in Nat \ {0} /\ SampleBytes \in Nat
  /\ BlockBytes \in Nat /\ Samples \subseteq Nat
  BY SizesAssumption

LEMMA AskedFits ==
  ASSUME options \in Options PROVE Asked \in 0 .. U64 - 1
<1>1. options.samples \in Nat
  BY Sizes DEF Options
<1>2. options.samples * SampleBytes \in Nat
  BY <1>1, Sizes
<1> QED
  BY <1>2, Remainder, Sizes DEF Asked

LEMMA RxInit == Init => RxInv
<1> SUFFICES ASSUME Init PROVE RxInv
  OBVIOUS
<1>1. TypeOK
  <2>1. 0 \in 0 .. U32 - 1 /\ 0 \in 0 .. U64 - 1 /\ 0 \in 0 .. BlockBytes
    BY Sizes
  <2> QED
    BY <2>1 DEF Init, TypeOK, Places
<1>2. SessionInv
  BY DEF Init, SessionInv, Over, BeforeSession, InLoop
<1>3. StartInv /\ ReasonInv /\ LimitConserved
  BY DEF Init, StartInv, ReasonInv, LimitConserved
<1> QED
  BY <1>1, <1>2, <1>3 DEF RxInv
-----------------------------------------------------------------------------
(* Where main's next step leads. *)
LEMMA SetUpGoes ==
  ASSUME SetUp
  PROVE  /\ main \in (BeforeSession \ {"options", "start"}) \union {"freq"}
         /\ main' \in (BeforeSession \ {"options"}) \union {"streaming?", "failure"}
         /\ main = "freq" => main' \in {"streaming?", "failure"}
         /\ main' = "streaming?" => main = "freq"
<1>1. PICK step \in Follows : main = step[1] /\ main' \in {step[2], "failure"}
  BY DEF SetUp, Goes
<1>2. step \in {<<"open", "rates">>, <<"rates", "samplerate">>, <<"samplerate", "serial">>,
                 <<"serial", "agc">>, <<"agc", "threshold">>, <<"agc", "att">>,
                 <<"threshold", "lna">>, <<"att", "lna">>, <<"lna", "file">>,
                 <<"serial", "file">>, <<"file", "start">>, <<"freq", "streaming?">>}
  BY DEF Follows
<1>3. \/ step[1] \in {"open", "rates", "samplerate", "serial", "agc", "threshold", "att",
                      "lna", "file"} /\ step[2] \in BeforeSession \ {"options"}
      \/ step[1] = "freq" /\ step[2] = "streaming?"
  BY <1>2 DEF BeforeSession
<1> QED
  BY <1>1, <1>3 DEF BeforeSession

(* Types. *)
LEMMA TypeStep == TypeOK /\ [Next]_vars => TypeOK'
<1> SUFFICES ASSUME TypeOK, [Next]_vars PROVE TypeOK'
  OBVIOUS
<1> USE DEF TypeOK, fixed, session, library, file, ghosts, Goes
<1>1. CASE ParseOptions
  BY <1>1, AskedFits DEF ParseOptions, Places, Over
<1>2. CASE SetUp
  BY <1>2, SetUpGoes DEF SetUp, Places, Guarded, BeforeSession
<1>3. CASE Start
  BY <1>3 DEF Start, Library!Start, Places, Guarded
<1>4. CASE StillStreaming \/ StillWanted
  BY <1>4 DEF StillStreaming, StillWanted, Places, Guarded
<1>5. CASE TestLimit
  BY <1>5 DEF TestLimit, LimitSeen, Places, Guarded
<1>6. CASE TestLow
  <2>1. bytes_to_xfer % U32 \in 0 .. U32 - 1
    BY Remainder, SizesAssumption
  <2> QED
    BY <1>6, <2>1 DEF TestLow, Places, Guarded
<1>7. CASE TestHigh
  BY <1>7, SizesAssumption DEF TestHigh, LimitSeen, Places, Guarded
<1>8. CASE Stop \/ EndSession \/ Join
  BY <1>8 DEF Stop, EndSession, Join, Library!StopBegins, Library!Fails,
     Library!StopReturns, Places, Guarded, Over
<1>9. CASE WriteHeader
  BY <1>9 DEF WriteHeader, Places, Over
<1>10. CASE ApplyLimit
  BY <1>10, Sizes DEF ApplyLimit, Lower
<1>11. CASE Write
  <2>1. bytes_to_write \in Nat /\ bytes_to_write \div 2 \in Nat
    <3>1. bytes_to_write \in Nat
      BY Sizes
    <3> QED
      BY <3>1 DEF TypeOK
  <2>2. streaming' \in BOOLEAN /\ UNCHANGED <<phase, late>>
    BY <1>11, Zenon DEF Write, Library!CallbackEnds
  <2>3. written' \in {written + bytes_to_write, written + bytes_to_write \div 2}
    BY <1>11 DEF Write
  <2>4. written' \in Nat
    BY <2>1, <2>3
  <2>5. /\ consumer' = "idle" /\ broken' \in BOOLEAN
        /\ UNCHANGED <<fixed, main, low, do_exit, bytes_to_xfer, bytes_to_write, interrupted>>
    BY <1>11 DEF Write
  <2> QED
    BY <2>2, <2>4, <2>5
<1>12. CASE Receive
  <2>1. /\ consumer' = "limit" /\ late' = FALSE /\ bytes_to_write' = BlockBytes
        /\ UNCHANGED <<phase, streaming, fixed, main, low, do_exit, bytes_to_xfer, written, ghosts>>
    BY <1>12 DEF Receive, Library!CallbackBegins
  <2>2. BlockBytes \in 0 .. BlockBytes
    BY Sizes
  <2> QED
    BY <2>1, <2>2
<1>13. CASE NoneLate \/ Interrupt \/ DeviceFails
  BY <1>13 DEF NoneLate, Interrupt, DeviceFails, Library!NoneLate, Library!Fails
<1>14. CASE Ended \/ UNCHANGED vars
  BY <1>14 DEF Ended, vars
<1> QED
  BY <1>1, <1>2, <1>3, <1>4, <1>5, <1>6, <1>7, <1>8, <1>9, <1>10, <1>11, <1>12, <1>13,
     <1>14 DEF Next, Main, Loop, Callback

(* The session begins and ends where main says. *)
LEMMA SessionStep == RxInv /\ [Next]_vars => SessionInv'
<1> SUFFICES ASSUME RxInv, [Next]_vars PROVE SessionInv'
  OBVIOUS
<1> USE DEF RxInv, SessionInv, InLoop, BeforeSession, Over, fixed, session, library,
            file, ghosts, Goes
<1>1. CASE ParseOptions \/ WriteHeader
  BY <1>1 DEF ParseOptions, WriteHeader
<1>2. CASE SetUp
  BY <1>2, SetUpGoes DEF SetUp
<1>3. CASE Start
  BY <1>3 DEF Start, Library!Start
<1>4. CASE StillStreaming \/ StillWanted
  BY <1>4 DEF StillStreaming, StillWanted
<1>5. CASE TestLimit \/ TestLow \/ TestHigh
  BY <1>5 DEF TestLimit, TestLow, TestHigh, LimitSeen
<1>6. CASE Stop
  BY <1>6 DEF Stop, Library!StopBegins
<1>7. CASE EndSession
  BY <1>7 DEF EndSession, Library!Fails
<1>8. CASE Join
  BY <1>8 DEF Join, Library!StopReturns
<1>9. CASE ApplyLimit
  BY <1>9 DEF ApplyLimit
<1>10. CASE Write
  BY <1>10 DEF Write, Library!CallbackEnds
<1>11. CASE Receive
  BY <1>11 DEF Receive, Library!CallbackBegins
<1>12. CASE NoneLate \/ Interrupt
  BY <1>12 DEF NoneLate, Interrupt, Library!NoneLate
<1>13. CASE DeviceFails
  BY <1>13 DEF DeviceFails, Library!Fails
<1>14. CASE Ended \/ UNCHANGED vars
  BY <1>14 DEF Ended, vars
<1> QED
  BY <1>1, <1>2, <1>3, <1>4, <1>5, <1>6, <1>7, <1>8, <1>9, <1>10, <1>11, <1>12, <1>13,
     <1>14 DEF Next, Main, Loop, Callback

LEMMA StartStep == RxInv /\ [Next]_vars => StartInv'
<1> SUFFICES ASSUME RxInv, [Next]_vars PROVE StartInv'
  OBVIOUS
<1> USE DEF RxInv, SessionInv, StartInv, BeforeSession, fixed, session, library, file,
            ghosts, Goes
<1>1. CASE ParseOptions \/ WriteHeader
  BY <1>1 DEF ParseOptions, WriteHeader
<1>2. CASE SetUp
  BY <1>2, SetUpGoes DEF SetUp
<1>3. CASE Start
  BY <1>3 DEF Start
<1>4. CASE StillStreaming \/ StillWanted
  BY <1>4 DEF StillStreaming, StillWanted
<1>5. CASE TestLimit \/ TestLow \/ TestHigh
  BY <1>5 DEF TestLimit, TestLow, TestHigh, LimitSeen
<1>6. CASE Stop \/ EndSession \/ Join
  BY <1>6 DEF Stop, EndSession, Join
<1>7. CASE ApplyLimit
  BY <1>7 DEF ApplyLimit
<1>8. CASE Write
  BY <1>8 DEF Write
<1>9. CASE Receive \/ NoneLate \/ DeviceFails
  BY <1>9 DEF Receive, NoneLate, DeviceFails
<1>10. CASE Interrupt
  BY <1>10 DEF Interrupt, Guarded
<1>11. CASE Ended \/ UNCHANGED vars
  BY <1>11 DEF Ended, vars
<1> QED
  BY <1>1, <1>2, <1>3, <1>4, <1>5, <1>6, <1>7, <1>8, <1>9, <1>10, <1>11
     DEF Next, Main, Loop, Callback

(* Once reached, the limit stays reached. *)
LEMMA ReachedStays ==
  ASSUME RxInv, [Next]_vars, Reached, main # "options" PROVE Reached'
<1> USE DEF Reached, fixed, library, file, ghosts, session
<1>1. CASE ApplyLimit
  BY <1>1 DEF ApplyLimit, Lower, RxInv, TypeOK
<1>2. CASE ParseOptions
  BY <1>2 DEF ParseOptions, Goes
<1>3. CASE ~ApplyLimit /\ ~ParseOptions
  BY <1>3 DEF Next, Main, Loop, Callback, SetUp, Start, StillStreaming, StillWanted,
     TestLimit, TestLow, TestHigh, LimitSeen, Stop, EndSession, Join, WriteHeader,
     Write, NoneLate, Receive, Interrupt, DeviceFails, Ended, vars
<1> QED
  BY <1>1, <1>2, <1>3

LEMMA ReasonStep == RxInv /\ [Next]_vars => ReasonInv'
<1> SUFFICES ASSUME RxInv, [Next]_vars PROVE ReasonInv'
  OBVIOUS
<1> USE DEF RxInv, SessionInv, StartInv, ReasonInv, BeforeSession, InLoop, fixed, session,
            library, file, ghosts, Goes
<1>0. main # "options" /\ Reached => Reached'
  BY ReachedStays
<1>1. CASE ParseOptions
  BY <1>1 DEF ParseOptions
<1>2. CASE SetUp
  BY <1>0, <1>2, SetUpGoes DEF SetUp
<1>3. CASE Start
  BY <1>0, <1>3 DEF Start, Library!Start
<1>4. CASE StillStreaming \/ StillWanted
  BY <1>0, <1>4 DEF StillStreaming, StillWanted
<1>5. CASE TestLimit
  BY <1>0, <1>5 DEF TestLimit, LimitSeen, Reached
<1>6. CASE TestLow
  BY <1>0, <1>6 DEF TestLow
<1>7. CASE TestHigh
  BY <1>0, <1>7 DEF TestHigh, LimitSeen, Reached
<1>8. CASE Stop
  BY <1>0, <1>8 DEF Stop, Library!StopBegins
<1>9. CASE EndSession
  BY <1>0, <1>9 DEF EndSession, Library!Fails
<1>10. CASE Join
  BY <1>0, <1>10 DEF Join, Library!StopReturns
<1>11. CASE WriteHeader
  BY <1>0, <1>11 DEF WriteHeader
<1>12. CASE ApplyLimit
  BY <1>0, <1>12 DEF ApplyLimit
<1>13. CASE Write
  BY <1>0, <1>13 DEF Write, Library!CallbackEnds, Reached
<1>14. CASE Receive
  BY <1>0, <1>14 DEF Receive, Library!CallbackBegins
<1>15. CASE NoneLate \/ Interrupt
  BY <1>0, <1>15 DEF NoneLate, Interrupt, Library!NoneLate
<1>16. CASE DeviceFails
  BY <1>0, <1>16 DEF DeviceFails, Library!Fails
<1>17. CASE Ended \/ UNCHANGED vars
  BY <1>17 DEF Ended, vars, Reached
<1> QED
  BY <1>1, <1>2, <1>3, <1>4, <1>5, <1>6, <1>7, <1>8, <1>9, <1>10, <1>11, <1>12, <1>13,
     <1>14, <1>15, <1>16, <1>17 DEF Next, Main, Loop, Callback

(* No sample is counted twice, and none is lost. *)
LEMMA LimitStep == RxInv /\ [Next]_vars => LimitConserved'
<1> SUFFICES ASSUME RxInv, [Next]_vars PROVE LimitConserved'
  OBVIOUS
<1> USE DEF RxInv, LimitConserved, fixed, session, library, file, ghosts, Goes
<1>0. Asked' = Asked /\ Asked \in Nat /\ options' = options
  <2>1. options' = options
    BY DEF Next, Main, Loop, Callback, ParseOptions, SetUp, Start, StillStreaming,
       StillWanted, TestLimit, TestLow, TestHigh, LimitSeen, Stop, EndSession, Join,
       WriteHeader, ApplyLimit, Write, NoneLate, Receive, Interrupt, DeviceFails, Ended, vars
  <2> QED
    BY <2>1, AskedFits DEF Asked, TypeOK
<1>1. CASE ParseOptions
  BY <1>0, <1>1 DEF ParseOptions, StartInv, SessionInv, BeforeSession
<1>2. CASE SetUp
  BY <1>0, <1>2, SetUpGoes DEF SetUp, BeforeSession
<1>3. CASE Start \/ StillStreaming \/ StillWanted \/ TestLow
  BY <1>0, <1>3 DEF Start, StillStreaming, StillWanted, TestLow
<1>4. CASE TestLimit \/ TestHigh
  BY <1>0, <1>4 DEF TestLimit, TestHigh, LimitSeen
<1>5. CASE Stop \/ EndSession \/ Join \/ WriteHeader
  BY <1>0, <1>5 DEF Stop, EndSession, Join, WriteHeader
<1>6. CASE ApplyLimit
  BY <1>0, <1>6 DEF ApplyLimit, Lower, TypeOK
<1>7. CASE Write
  <2>1. CASE broken'
    BY <2>1
  <2>2. CASE ~broken'
    <3>1. /\ consumer = "write" /\ consumer' = "idle"
          /\ written' = written + bytes_to_write
          /\ UNCHANGED <<main, bytes_to_xfer, broken>>
      BY <1>7, <2>2 DEF Write
    <3> QED
      BY <1>0, <2>2, <3>1, Sizes DEF TypeOK
  <2> QED
    BY <2>1, <2>2
<1>8. CASE Receive
  BY <1>0, <1>8 DEF Receive, Library!CallbackBegins
<1>9. CASE NoneLate \/ Interrupt \/ DeviceFails
  BY <1>0, <1>9 DEF NoneLate, Interrupt, DeviceFails
<1>10. CASE Ended \/ UNCHANGED vars
  BY <1>0, <1>10 DEF Ended, vars
<1> QED
  BY <1>1, <1>2, <1>3, <1>4, <1>5, <1>6, <1>7, <1>8, <1>9, <1>10
     DEF Next, Main, Loop, Callback
-----------------------------------------------------------------------------
(* The invariant of main, the callback and the library's session.          *)
THEOREM RxInvariant == Spec => []RxInv
<1>1. Init => RxInv
  BY RxInit
<1>2. RxInv /\ [Next]_vars => RxInv'
  BY TypeStep, SessionStep, StartStep, ReasonStep, LimitStep DEF RxInv
<1> QED
  BY <1>1, <1>2, PTL DEF Spec

(* At every moment the bytes written, being written and left to write are  *)
(* those that -n asked for.                                                *)
THEOREM LimitIsConserved == Spec => []LimitConserved
<1>1. RxInv => LimitConserved
  BY DEF RxInv
<1> QED
  BY <1>1, RxInvariant, PTL

(* The tool ends by itself only with -n, and in a 64-bit build only with   *)
(* all the bytes written.                                                  *)
THEOREM LimitIsWritten == Spec => []AllWritten
<1>1. RxInv => AllWritten
  <2> SUFFICES ASSUME RxInv, main = "done", ~broken, ~interrupted
               PROVE options.limit /\ (build = 64 => written = Asked)
    BY DEF AllWritten
  <2>1. Reached /\ consumer = "idle"
    BY DEF RxInv, ReasonInv, SessionInv, Over
  <2>2. written + 0 + bytes_to_xfer = Asked
    BY <2>1 DEF RxInv, LimitConserved, Reached
  <2> QED
    BY <2>1, <2>2 DEF Reached, RxInv, TypeOK
<1> QED
  BY <1>1, RxInvariant, PTL

(* No callback writes while the file is completed and closed, or after.    *)
THEOREM FileIsQuiet == Spec => []FileQuiet
<1>1. RxInv => FileQuiet
  BY DEF RxInv, SessionInv, FileQuiet
<1> QED
  BY <1>1, RxInvariant, PTL
=============================================================================
