-------------------------- MODULE Collector_proofs --------------------------
(***************************************************************************)
(* Theorems about the collector's process, for every set of command lines, *)
(* every number of senders and rings of any capacity.  Each step of it is  *)
(* a step of the packet loop P4Int, of the exporter IntExporter, of both   *)
(* or of neither: the process implements the two, and what is proved of    *)
(* each alone holds of the process.  On that rest its own invariants: the  *)
(* options main goes on with, the way of a report from its frame to its    *)
(* sender, and what is lost when the process ends.                         *)
(***************************************************************************)
EXTENDS Collector, NumberTheorems, SequenceTheorems, TLAPS

\* The computation on a frame is the same in the two instances of P4Int.
LEMMA SameReport ==
    ASSUME NEW f, NEW meta, NEW previous, NEW tstmp
    PROVE  Loop!Report(f, meta, previous, tstmp) = LoopAlone!Report(f, meta, previous, tstmp)
BY DEF Loop!Report, Loop!get_int_header_data, Loop!get_int_node_data, Loop!Minus, Loop!Entered,
       Loop!LeftBefore, Loop!Shown, Loop!Max, LoopAlone!Report, LoopAlone!get_int_header_data,
       LoopAlone!get_int_node_data, LoopAlone!Minus, LoopAlone!Entered, LoopAlone!LeftBefore,
       LoopAlone!Shown, LoopAlone!Max

\* While the options are those of the command line, so is what the loop does.
LEMMA SameLoop ==
    ASSUME phase # "parse_arguments", phase' # "parse_arguments"
    PROVE  /\ \A f \in Frames : Loop!Arrive(f) => LoopAlone!Arrive(f)
           /\ Loop!setup_stop => LoopAlone!setup_stop
           /\ Loop!CheckStop => LoopAlone!CheckStop
           /\ Loop!Receive => LoopAlone!Receive
           /\ Loop!ReceiveFails => LoopAlone!ReceiveFails
           /\ Loop!DivideByZero => LoopAlone!DivideByZero
<1>1. OptAhead = opt /\ OptAhead' = opt'
    BY DEF OptAhead
<1> QED
    BY <1>1 DEF Loop!Arrive, Loop!setup_stop, Loop!CheckStop, Loop!Receive, Loop!ReceiveFails,
          Loop!DivideByZero, Loop!Divides0, Loop!environment, Loop!memory,
          LoopAlone!Arrive, LoopAlone!setup_stop, LoopAlone!CheckStop, LoopAlone!Receive,
          LoopAlone!ReceiveFails, LoopAlone!DivideByZero, LoopAlone!Divides0,
          LoopAlone!environment, LoopAlone!memory

LEMMA SameProcess ==
    ASSUME phase # "parse_arguments", phase' # "parse_arguments", NEW f, NEW outcome,
           Loop!process_packet(f, outcome)
    PROVE  LoopAlone!process_packet(f, outcome)
<1>1. OptAhead = opt /\ OptAhead' = opt'
    BY DEF OptAhead
<1>2. Loop!ReportOf(f) = LoopAlone!ReportOf(f)
    BY <1>1, SameReport DEF Loop!ReportOf, LoopAlone!ReportOf
<1>3. \A i : Loop!Entered(f, i) = LoopAlone!Entered(f, i)
    BY DEF Loop!Entered, LoopAlone!Entered
<1>4. Loop!Sampled = LoopAlone!Sampled /\ Loop!Divides0 = LoopAlone!Divides0
    BY <1>1 DEF Loop!Sampled, LoopAlone!Sampled, Loop!Divides0, LoopAlone!Divides0
<1> QED
    BY <1>1, <1>2, <1>3, <1>4 DEF Loop!process_packet, LoopAlone!process_packet,
          Loop!environment, LoopAlone!environment

-----------------------------------------------------------------------------
\* Before main runs the exporter nothing else runs, and a loop that is terminated
\* takes the process with it.
IInv ==
    /\ (process = "up" /\ phase = "parse_arguments") => opt = stale
    /\ phase # "run" =>
          /\ sending = NoReport /\ pcLoop = "check"
          /\ pcSender = [s \in Exporter!Senders |-> "none"]
          /\ rings = [s \in Exporter!Senders |-> Exporter!EmptyQueue]
    /\ process = "up" => pcLoop # "terminated"
    /\ socket \in Seq(Frames) /\ buffer \in Frames \cup {NoFrame}
    /\ pkt_drop \in Nat

LEMMA Initially == Init => IInv
BY DEF Init, IInv, Loop!Init, Exporter!Init

\* The steps of a sender and of the stores it makes visible.
LEMMA SenderStepKeeps ==
    ASSUME SenderStep
    PROVE  UNCHANGED <<mainVars, loopVars, opt, pkt_drop, sending>>
BY DEF SenderStep, Exporter!Sender, Exporter!Visible, Exporter!Connected, Exporter!ConnectFailed,
       Exporter!PollEmpty, Exporter!PollReport, Exporter!Sent, Exporter!PushBecomesVisible,
       Exporter!PopBecomesVisible, Exporter!mainVars

\* No sender thread runs yet.
LEMMA NoSenderYet ==
    ASSUME IInv, process = "up", phase # "run"
    PROVE  ~SenderStep
<1>1. ASSUME NEW s \in Exporter!Senders
      PROVE  pcSender[s] = "none" /\ rings[s] = Exporter!EmptyQueue
    BY DEF IInv
<1>2. Exporter!EmptyQueue.unseenPushes = 0 /\ Exporter!EmptyQueue.unseenPops = 0
    BY DEF Exporter!EmptyQueue
<1>3. ASSUME NEW s \in Exporter!Senders PROVE ~Exporter!Sender(s)
    BY <1>1 DEF Exporter!Sender, Exporter!Connected, Exporter!ConnectFailed,
       Exporter!PollEmpty, Exporter!PollReport, Exporter!Sent
<1>4. ASSUME NEW s \in Exporter!Senders PROVE ~Exporter!Visible(s)
    BY <1>1, <1>2 DEF Exporter!Visible, Exporter!PushBecomesVisible, Exporter!PopBecomesVisible
<1> QED
    BY <1>3, <1>4 DEF SenderStep

\* The steps of the main thread and of the environment after the parsing that
\* are steps of the loop.
LoopSteps ==
    \/ LoopStep \/ ReceiveFails \/ DivideByZero \/ SkipReport \/ ReportAccepted \/ ReportDropped
    \/ Arrive \/ (Interrupt /\ phase = "run")

LEMMA PhaseOfLoop ==
    ASSUME IInv, process = "up", LoopSteps
    PROVE  /\ phase # "parse_arguments" /\ phase' = phase
           /\ ~Arrive => phase = "run"
           /\ opt' = opt
<1>1. /\ LoopStep \/ ReceiveFails \/ (Interrupt /\ phase = "run") => phase = "run"
      /\ Arrive => phase \in {"signal", "run"}
    BY DEF LoopStep, ReceiveFails, Arrive
<1>2. DivideByZero \/ SkipReport => pcLoop = "process"
    BY DEF DivideByZero, SkipReport, Loop!DivideByZero, Loop!Process, Loop!ProcessBuffer,
          Loop!ProcessUninitialised, Loop!process_packet
<1>3. ReportAccepted \/ ReportDropped => sending # NoReport
    BY DEF ReportAccepted, ReportDropped, Exporter!PushReport, Exporter!GiveUp
<1>4. phase' = phase
    BY DEF LoopSteps, LoopStep, ReceiveFails, DivideByZero, SkipReport, ReportAccepted,
          ReportDropped, Arrive, Interrupt, mainVars
<1>5. opt' = opt
  <2>1. \/ LoopStep \/ ReceiveFails \/ Arrive \/ DivideByZero
        \/ Interrupt /\ phase = "run"
        => opt' = opt
      BY DEF LoopStep, ReceiveFails, Arrive, DivideByZero, Interrupt, Loop!CheckStop, Loop!Receive,
            Loop!ReceiveFails, Loop!Arrive, Loop!DivideByZero, Loop!setup_stop
  <2>2. SkipReport => opt' = opt
      BY DEF SkipReport, Loop!Process, Loop!ProcessBuffer, Loop!ProcessUninitialised,
            Loop!process_packet
  <2>3. ReportAccepted \/ ReportDropped => opt' = opt
      BY DEF ReportAccepted, ReportDropped, Exporter!PushReport, Exporter!GiveUp
  <2> QED
      BY <2>1, <2>2, <2>3 DEF LoopSteps
<1> QED
    BY <1>1, <1>2, <1>3, <1>4, <1>5 DEF LoopSteps, IInv

\* They are steps that the loop alone takes too.
LEMMA LoopStepsMap ==
    ASSUME IInv, process = "up", LoopSteps
    PROVE  LoopAlone!Next
<1>0. phase # "parse_arguments" /\ phase' # "parse_arguments" /\ pcLoop # "terminated"
    BY PhaseOfLoop DEF IInv
<1>1. CASE LoopStep
    BY <1>0, <1>1, SameLoop DEF LoopStep, LoopAlone!Next, LoopAlone!Loop
<1>2. CASE ReceiveFails
    BY <1>0, <1>2, SameLoop DEF ReceiveFails, LoopAlone!Next
<1>3. CASE DivideByZero
    BY <1>0, <1>3, SameLoop DEF DivideByZero, LoopAlone!Next, LoopAlone!Loop
<1>4. CASE Arrive
    BY <1>0, <1>4, SameLoop DEF Arrive, LoopAlone!Next
<1>5. CASE Interrupt /\ phase = "run"
    BY <1>0, <1>5, SameLoop DEF Interrupt, LoopAlone!Next
<1>6. ASSUME NEW f \in InBuffer, NEW outcome \in {"accepted", "dropped", "skipped"},
             Loop!process_packet(f, outcome)
      PROVE  LoopAlone!Next
  <2>1. LoopAlone!process_packet(f, outcome)
      BY <1>0, <1>6, SameProcess
  <2>2. LoopAlone!Process(outcome)
      BY <2>1 DEF InBuffer, LoopAlone!Process, LoopAlone!ProcessBuffer,
             LoopAlone!ProcessUninitialised
  <2> QED
      BY <1>0, <2>2 DEF LoopAlone!Next, LoopAlone!Loop, LoopAlone!Outcomes
<1>7. CASE SkipReport
    BY <1>6, <1>7 DEF SkipReport, Loop!Process, Loop!ProcessBuffer,
           Loop!ProcessUninitialised, InBuffer
<1>8. CASE ReportAccepted
    BY <1>6, <1>8 DEF ReportAccepted, ProcessSending
<1>9. CASE ReportDropped
    BY <1>6, <1>9 DEF ReportDropped, ProcessSending
<1> QED
    BY <1>1, <1>2, <1>3, <1>4, <1>5, <1>7, <1>8, <1>9 DEF LoopSteps

\* The other steps.
HiddenSteps ==
    \/ ParseArguments \/ PrepareSocket \/ RegisterHandler \/ Construct
    \/ OfferReport \/ RingRefuses \/ Return \/ SenderStep
    \/ (Interrupt /\ phase # "run")

LEMMA HiddenStepsKeepOptions ==
    ASSUME HiddenSteps, ~ParseArguments
    PROVE  UNCHANGED <<argv, stale, opt, pkt_drop, loopVars>>
<1>1. PrepareSocket \/ RegisterHandler \/ (Interrupt /\ phase # "run")
          => UNCHANGED <<argv, stale, opt, pkt_drop, loopVars>>
    BY DEF PrepareSocket, RegisterHandler, Interrupt
<1>2. Construct \/ OfferReport \/ RingRefuses \/ Return
          => UNCHANGED <<argv, stale, opt, pkt_drop, loopVars>>
    BY DEF Construct, OfferReport, RingRefuses, Return, mainVars, Exporter!Construct,
          Exporter!StartSender, Exporter!UnknownProtocol, Exporter!SendData,
          Exporter!PushRefused, Exporter!Exit, Exporter!mainVars
<1> QED
    BY <1>1, <1>2, SenderStepKeeps DEF HiddenSteps, mainVars

LEMMA HiddenStepsStutter ==
    ASSUME IInv, process = "up", HiddenSteps
    PROVE  /\ UNCHANGED LoopAlone!vars
           /\ phase' # "run" => phase # "run" /\ UNCHANGED <<sending, pcSender, rings>>
           /\ (process' = "up" /\ phase' = "parse_arguments") => UNCHANGED <<phase, opt, stale>>
<1>1. CASE ParseArguments
  <2> DEFINE parsed == parse_arguments(stale, argv)
  <2>1. /\ phase = "parse_arguments" /\ opt = stale /\ opt' = parsed.opt
        /\ argv' = argv /\ stale' = stale
        /\ UNCHANGED <<pkt_drop, loopVars>>
        /\ UNCHANGED <<sending, pcSender, rings>>
      BY <1>1 DEF ParseArguments, End, exporterVars, IInv
  <2>2. \/ phase' = "prepare_socket"
        \/ phase' = "parse_arguments" /\ process' = "exited"
      BY <1>1 DEF ParseArguments, End
  <2>3. OptAhead = parsed.opt /\ OptAhead' = parsed.opt
      BY <2>1, <2>2 DEF OptAhead
  <2> QED
      BY <2>1, <2>2, <2>3 DEF LoopAlone!vars, LoopAlone!environment, LoopAlone!memory, loopVars
<1>2. CASE HiddenSteps /\ ~ParseArguments
  <2>1. UNCHANGED <<argv, stale, opt, pkt_drop, loopVars>>
      BY <1>2, HiddenStepsKeepOptions
  <2>2. phase # "parse_arguments" => phase' # "parse_arguments"
      BY <1>2 DEF HiddenSteps, PrepareSocket, RegisterHandler, Construct, OfferReport,
            RingRefuses, Return, SenderStep, Interrupt, mainVars
  <2>3. phase = "parse_arguments" => phase' = "parse_arguments"
      BY <1>2 DEF HiddenSteps, PrepareSocket, RegisterHandler, Construct, OfferReport,
            RingRefuses, Return, SenderStep, Interrupt, mainVars
  <2>4. OptAhead' = OptAhead
      BY <2>1, <2>2, <2>3 DEF OptAhead
  <2>5. phase = "run" => phase' = "run"
      BY <1>2 DEF HiddenSteps, PrepareSocket, RegisterHandler, Construct, OfferReport,
            RingRefuses, Return, SenderStep, Interrupt, mainVars
  <2>6. phase # "run" => UNCHANGED <<sending, pcSender, rings>>
      BY <1>2, NoSenderYet DEF IInv, HiddenSteps, PrepareSocket, RegisterHandler, Construct,
            OfferReport, RingRefuses, Return, Interrupt, End, exporterVars, Exporter!PushRefused
  <2> QED
      BY <2>1, <2>2, <2>3, <2>4, <2>5, <2>6 DEF LoopAlone!vars, LoopAlone!environment,
            LoopAlone!memory, loopVars
<1> QED
    BY <1>1, <1>2 DEF HiddenSteps

LEMMA StepsAreAll ==
    ASSUME Next
    PROVE  process = "up" /\ (LoopSteps \/ HiddenSteps)
BY DEF Next, Main, LoopSteps, HiddenSteps

LEMMA LoopStepsKeep ==
    ASSUME IInv, process = "up", LoopSteps
    PROVE  /\ pcLoop' = "terminated" => process' # "up"
           /\ phase' # "run" => UNCHANGED <<sending, pcLoop, pcSender, rings>>
           /\ socket' \in Seq(Frames) /\ buffer' \in Frames \cup {NoFrame}
           /\ pkt_drop' \in Nat
<1>1. CASE Arrive
    BY <1>1 DEF Arrive, Loop!Arrive, Loop!memory, exporterVars, IInv
<1>2. CASE ~Arrive
  <2>1. phase' = "run"
      BY <1>2, PhaseOfLoop
  <2>2. ASSUME NEW f, NEW outcome, Loop!process_packet(f, outcome)
        PROVE  /\ pcLoop' # "terminated"
               /\ socket' = socket /\ buffer' = buffer
               /\ pkt_drop' \in Nat
      BY <2>2 DEF Loop!process_packet, Loop!environment, IInv
  <2>3. CASE SkipReport \/ ReportAccepted \/ ReportDropped
      BY <2>1, <2>2, <2>3 DEF IInv, SkipReport, ReportAccepted, ReportDropped, ProcessSending,
            Loop!Process, Loop!ProcessBuffer, Loop!ProcessUninitialised
  <2>4. CASE DivideByZero
      BY <2>1, <2>4 DEF IInv, DivideByZero, Loop!DivideByZero, Loop!environment, Loop!memory
  <2>5. CASE LoopStep \/ ReceiveFails \/ (Interrupt /\ phase = "run")
      BY <2>1, <2>5 DEF IInv, LoopStep, ReceiveFails, Interrupt, Loop!CheckStop, Loop!Receive,
            Loop!ReceiveFails, Loop!setup_stop, Loop!environment, Loop!memory
  <2> QED
      BY <1>2, <2>3, <2>4, <2>5 DEF LoopSteps
<1> QED
    BY <1>1, <1>2

LEMMA Inductive == IInv /\ [Next]_vars => IInv'
<1> SUFFICES ASSUME IInv, [Next]_vars PROVE IInv'
    OBVIOUS
<1>1. CASE UNCHANGED vars
    BY <1>1 DEF vars, mainVars, loopVars, exporterVars, IInv
<1>2. CASE Next /\ LoopSteps
  <2>1. process = "up" /\ phase' # "parse_arguments" /\ phase' = phase
      BY <1>2, PhaseOfLoop, StepsAreAll
  <2> QED
      BY <1>2, <2>1, LoopStepsKeep DEF IInv
<1>3. CASE Next /\ HiddenSteps
  <2>1. /\ process = "up"
        /\ UNCHANGED <<pcLoop, socket, buffer, pkt_drop>>
        /\ phase' # "run" => phase # "run" /\ UNCHANGED <<sending, pcSender, rings>>
        /\ (process' = "up" /\ phase' = "parse_arguments") => UNCHANGED <<phase, opt, stale>>
      BY <1>3, StepsAreAll, HiddenStepsStutter DEF LoopAlone!vars, LoopAlone!memory,
            LoopAlone!environment
  <2> QED
      BY <1>3, <2>1 DEF IInv
<1> QED
    BY <1>1, <1>2, <1>3, StepsAreAll

LEMMA InitMaps == Init => LoopAlone!Init
<1> SUFFICES ASSUME Init PROVE LoopAlone!Init
    OBVIOUS
<1>1. OptAhead \in Opts
    BY ProcessAssumption DEF Init, OptAhead
<1> QED
    BY <1>1 DEF Init, Loop!Init, LoopAlone!Init, Loop!Keys, LoopAlone!Keys

\* The process, with the exporter and its senders hidden, is the packet loop
\* that module P4Int checks alone: for the loop sendData is a call that answers
\* yes or no, whatever the rings and the database do.
THEOREM ProcessImplementsLoop == Spec => ImplementsLoop
<1>1. IInv /\ [Next]_vars => [LoopAlone!Next]_(LoopAlone!vars)
  <2> SUFFICES ASSUME IInv, [Next]_vars PROVE [LoopAlone!Next]_(LoopAlone!vars)
      OBVIOUS
  <2>1. CASE Next
      BY <2>1, StepsAreAll, LoopStepsMap, HiddenStepsStutter
  <2>2. CASE UNCHANGED vars
      BY <2>2 DEF vars, mainVars, loopVars, OptAhead, LoopAlone!vars, LoopAlone!environment,
            LoopAlone!memory
  <2> QED
      BY <2>1, <2>2
<1>2. Init /\ [][Next]_vars => []IInv
    BY Initially, Inductive, PTL
<1> QED
    BY <1>1, <1>2, InitMaps, PTL DEF Spec, ImplementsLoop, LoopAlone!Spec

-----------------------------------------------------------------------------
(* The exporter's part. *)

\* While the options are those of the command line and the process has not ended
\* elsewhere, so is what the exporter does.
LEMMA SameExporter ==
    ASSUME phase # "parse_arguments", phase' # "parse_arguments", ~EndsOutside, ~EndsOutside'
    PROVE  /\ Exporter!Construct => ExporterAlone!Construct
           /\ \A h : Exporter!SendData(h) => ExporterAlone!SendData(h)
           /\ Exporter!PushReport => ExporterAlone!PushReport
           /\ Exporter!PushRefused => ExporterAlone!PushRefused
           /\ Exporter!GiveUp => ExporterAlone!GiveUp
           /\ Exporter!Exit => ExporterAlone!Exit
           /\ \A s : Exporter!Sender(s) => ExporterAlone!Sender(s)
           /\ \A s : Exporter!Visible(s) => ExporterAlone!Visible(s)
<1>0. /\ OptAhead = opt /\ OptAhead' = opt'
      /\ (IF EndsOutside THEN "up" ELSE process) = process
      /\ (IF EndsOutside THEN "up" ELSE process)' = process'
    BY DEF OptAhead
<1>1. Exporter!StartSender => ExporterAlone!StartSender
    BY <1>0 DEF Exporter!StartSender, Exporter!IsUdp, Exporter!IsHttp, Exporter!m_th_num,
       ExporterAlone!StartSender, ExporterAlone!IsUdp, ExporterAlone!IsHttp,
       ExporterAlone!m_th_num
<1>2. Exporter!UnknownProtocol => ExporterAlone!UnknownProtocol
    BY <1>0 DEF Exporter!UnknownProtocol, Exporter!IsUdp, Exporter!IsHttp, Exporter!m_th_num,
       Exporter!mainVars, Exporter!senderVars, ExporterAlone!UnknownProtocol,
       ExporterAlone!IsUdp, ExporterAlone!IsHttp, ExporterAlone!m_th_num,
       ExporterAlone!mainVars, ExporterAlone!senderVars
<1>3. Exporter!PushReport => ExporterAlone!PushReport
    BY <1>0 DEF Exporter!PushReport, Exporter!m_th_num, Exporter!NextRing, Exporter!HasRoom,
       Exporter!Pushed, Exporter!senderVars, ExporterAlone!PushReport,
       ExporterAlone!m_th_num, ExporterAlone!NextRing, ExporterAlone!HasRoom,
       ExporterAlone!Pushed, ExporterAlone!senderVars
<1>4. Exporter!PushRefused => ExporterAlone!PushRefused
    BY <1>0 DEF Exporter!PushRefused, Exporter!m_th_num, Exporter!NextRing, Exporter!HasRoom,
       Exporter!senderVars, ExporterAlone!PushRefused, ExporterAlone!m_th_num,
       ExporterAlone!NextRing, ExporterAlone!HasRoom, ExporterAlone!senderVars
<1>5. Exporter!GiveUp => ExporterAlone!GiveUp
    BY <1>0 DEF Exporter!GiveUp, Exporter!m_th_num, Exporter!senderVars,
       ExporterAlone!GiveUp, ExporterAlone!m_th_num, ExporterAlone!senderVars
<1>6. Exporter!Exit => ExporterAlone!Exit
    BY <1>0 DEF Exporter!Exit, Exporter!m_th_num, Exporter!mainVars, Exporter!senderVars,
       ExporterAlone!Exit, ExporterAlone!m_th_num, ExporterAlone!mainVars,
       ExporterAlone!senderVars
<1>7. ASSUME NEW h, Exporter!SendData(h) PROVE ExporterAlone!SendData(h)
    BY <1>0, <1>7 DEF Exporter!SendData, Exporter!m_th_num, Exporter!senderVars,
       ExporterAlone!SendData, ExporterAlone!m_th_num, ExporterAlone!senderVars
<1>8. ASSUME NEW s, Exporter!Connected(s) PROVE ExporterAlone!Connected(s)
    BY <1>0, <1>8 DEF Exporter!Connected, Exporter!mainVars, ExporterAlone!Connected,
       ExporterAlone!mainVars
<1>9. ASSUME NEW s, Exporter!ConnectFailed(s) PROVE ExporterAlone!ConnectFailed(s)
    BY <1>0, <1>9 DEF Exporter!ConnectFailed, Exporter!mainVars, Exporter!senderVars,
       ExporterAlone!ConnectFailed, ExporterAlone!mainVars,
       ExporterAlone!senderVars
<1>10. ASSUME NEW s, Exporter!PollEmpty(s) PROVE ExporterAlone!PollEmpty(s)
    BY <1>0, <1>10 DEF Exporter!PollEmpty, Exporter!IsHttp, Exporter!HasItem, Exporter!mainVars,
       ExporterAlone!PollEmpty, ExporterAlone!IsHttp, ExporterAlone!HasItem,
       ExporterAlone!mainVars
<1>11. ASSUME NEW s, Exporter!PollReport(s) PROVE ExporterAlone!PollReport(s)
    BY <1>0, <1>11 DEF Exporter!PollReport, Exporter!HasItem, Exporter!Popped, Exporter!add_report,
       Exporter!BatchFull, Exporter!HttpBatchFull, Exporter!UdpBatchFull,
       Exporter!IsUdp, Exporter!mainVars, ExporterAlone!PollReport,
       ExporterAlone!HasItem, ExporterAlone!Popped, ExporterAlone!add_report,
       ExporterAlone!BatchFull, ExporterAlone!HttpBatchFull,
       ExporterAlone!UdpBatchFull, ExporterAlone!IsUdp, ExporterAlone!mainVars
<1>12. ASSUME NEW s, Exporter!Sent(s) PROVE ExporterAlone!Sent(s)
    BY <1>0, <1>12 DEF Exporter!Sent, Exporter!Outcomes, Exporter!IsUdp, Exporter!DatagramTooLong,
       Exporter!HttpAnswers, Exporter!treatCurlResponse, Exporter!Ids,
       Exporter!mainVars, ExporterAlone!Sent, ExporterAlone!Outcomes,
       ExporterAlone!IsUdp, ExporterAlone!DatagramTooLong, ExporterAlone!HttpAnswers,
       ExporterAlone!treatCurlResponse, ExporterAlone!Ids, ExporterAlone!mainVars
<1>13. ASSUME NEW s, Exporter!PushBecomesVisible(s) PROVE ExporterAlone!PushBecomesVisible(s)
    BY <1>0, <1>13 DEF Exporter!PushBecomesVisible, Exporter!PushShown, Exporter!mainVars,
       Exporter!senderVars, ExporterAlone!PushBecomesVisible,
       ExporterAlone!PushShown, ExporterAlone!mainVars, ExporterAlone!senderVars
<1>14. ASSUME NEW s, Exporter!PopBecomesVisible(s) PROVE ExporterAlone!PopBecomesVisible(s)
    BY <1>0, <1>14 DEF Exporter!PopBecomesVisible, Exporter!PopShown, Exporter!mainVars,
       Exporter!senderVars, ExporterAlone!PopBecomesVisible, ExporterAlone!PopShown,
       ExporterAlone!mainVars, ExporterAlone!senderVars
<1> QED
    BY <1>1, <1>2, <1>3, <1>4, <1>5, <1>6, <1>7, <1>8, <1>9, <1>10, <1>11, <1>12, <1>13, <1>14
       DEF Exporter!Construct, Exporter!Sender, Exporter!Visible, ExporterAlone!Construct,
          ExporterAlone!Sender, ExporterAlone!Visible

\* The steps that are steps of the exporter.
ExporterSteps ==
    \/ Construct \/ OfferReport \/ RingRefuses \/ ReportAccepted \/ ReportDropped
    \/ Return \/ SenderStep

LEMMA ExporterRuns ==
    ASSUME IInv, process = "up", ExporterSteps
    PROVE  /\ phase = "run" /\ phase' = "run"
           /\ ~EndsOutside /\ ~EndsOutside'
<1>1. phase = "run" /\ phase' = phase
  <2>1. phase = "run"
    BY NoSenderYet DEF ExporterSteps, IInv, Construct, OfferReport, RingRefuses, ReportAccepted,
       ReportDropped, Return, Exporter!PushReport, Exporter!PushRefused, Exporter!GiveUp
  <2> QED
    BY <2>1 DEF ExporterSteps, Construct, OfferReport, RingRefuses, ReportAccepted,
       ReportDropped, Return, SenderStep, mainVars
<1>2. pcLoop # "terminated" /\ pcLoop' # "terminated"
  <2>1. ReportAccepted \/ ReportDropped => pcLoop' = "check"
    BY DEF ReportAccepted, ReportDropped, ProcessSending, Loop!process_packet
  <2>2. Construct \/ OfferReport \/ RingRefuses \/ Return \/ SenderStep => pcLoop' = pcLoop
    BY DEF Construct, OfferReport, RingRefuses, Return, SenderStep, loopVars
  <2> QED
    BY <2>1, <2>2 DEF ExporterSteps, IInv
<1> QED
    BY <1>1, <1>2 DEF EndsOutside

LEMMA ExporterStepsMap ==
    ASSUME IInv, process = "up", ExporterSteps
    PROVE  ExporterAlone!Next
<1>1. /\ phase # "parse_arguments" /\ phase' # "parse_arguments"
      /\ ~EndsOutside /\ ~EndsOutside'
      /\ (IF EndsOutside THEN "up" ELSE process) = "up"
    BY ExporterRuns
<1>2. CASE Construct
    BY <1>1, <1>2, SameExporter DEF Construct, ExporterAlone!Next, ExporterAlone!Main
<1>3. CASE OfferReport
  <2>1. PICK f \in InBuffer : Exporter!SendData(f.meta_cnt)
    BY <1>3 DEF OfferReport
  <2>2. f \in Frames
    BY <2>1 DEF InBuffer, IInv
  <2> QED
    BY <1>1, <2>1, <2>2, SameExporter DEF ExporterAlone!Next, ExporterAlone!Main
<1>4. CASE RingRefuses
    BY <1>1, <1>4, SameExporter
       DEF RingRefuses, ExporterAlone!Next, ExporterAlone!Main, ExporterAlone!SendDataStep
<1>5. CASE ReportAccepted
    BY <1>1, <1>5, SameExporter
       DEF ReportAccepted, ExporterAlone!Next, ExporterAlone!Main, ExporterAlone!SendDataStep
<1>6. CASE ReportDropped
    BY <1>1, <1>6, SameExporter
       DEF ReportDropped, ExporterAlone!Next, ExporterAlone!Main, ExporterAlone!SendDataStep
<1>7. CASE Return
    BY <1>1, <1>7, SameExporter DEF Return, ExporterAlone!Next, ExporterAlone!Main
<1>8. CASE SenderStep
  <2>1. PICK s \in Exporter!Senders : Exporter!Sender(s) \/ Exporter!Visible(s)
    BY <1>8 DEF SenderStep
  <2>2. s \in ExporterAlone!Senders
    BY DEF Exporter!Senders, ExporterAlone!Senders
  <2> QED
    BY <1>1, <2>1, <2>2, SameExporter DEF ExporterAlone!Next
<1> QED
    BY <1>2, <1>3, <1>4, <1>5, <1>6, <1>7, <1>8 DEF ExporterSteps

\* What happens elsewhere changes nothing of the exporter: the ends of the
\* process are hidden, and an accepted report adds nothing to pkt_drop.
OtherSteps ==
    \/ ParseArguments \/ PrepareSocket \/ RegisterHandler
    \/ LoopStep \/ DivideByZero \/ SkipReport \/ ReceiveFails \/ Arrive \/ Interrupt

LEMMA OtherStepsStutter ==
    ASSUME IInv, process = "up", OtherSteps
    PROVE  UNCHANGED ExporterAlone!vars
<1> DEFINE seen == IF EndsOutside THEN "up" ELSE process
<1>1. seen = "up"
    OBVIOUS
<1>2. seen' = "up"
  <2>1. DivideByZero => EndsOutside'
    BY DEF DivideByZero, Loop!DivideByZero, EndsOutside
  <2>2. ParseArguments \/ PrepareSocket => EndsOutside'
    BY DEF ParseArguments, PrepareSocket, EndsOutside
  <2>3. LoopStep \/ SkipReport \/ ReceiveFails \/ Arrive => process' = "up"
    BY DEF LoopStep, SkipReport, ReceiveFails, Arrive, exporterVars
  <2>4. RegisterHandler \/ Interrupt => process' = "up" \/ EndsOutside'
    BY DEF RegisterHandler, Interrupt, End, exporterVars, EndsOutside
  <2> QED
    BY <2>1, <2>2, <2>3, <2>4 DEF OtherSteps
<1>3. UNCHANGED <<started, nextId, m_rr_index, sending, attempt, rings, pcSender, data, it,
                  flush, refused, sent, unnoticed>>
    BY DEF OtherSteps, ParseArguments, PrepareSocket, RegisterHandler, LoopStep, DivideByZero,
       SkipReport, ReceiveFails, Arrive, Interrupt, End, exporterVars
<1>4. OptAhead' = OptAhead /\ pkt_drop' = pkt_drop
  <2>1. CASE ParseArguments \/ PrepareSocket \/ RegisterHandler \/ (Interrupt /\ phase # "run")
    BY <2>1, HiddenStepsStutter DEF HiddenSteps, LoopAlone!vars, LoopAlone!memory
  <2>2. CASE LoopStep \/ DivideByZero \/ SkipReport \/ ReceiveFails \/ Arrive
             \/ (Interrupt /\ phase = "run")
    <3>1. OptAhead' = OptAhead
      BY <2>2, PhaseOfLoop DEF LoopSteps, OptAhead
    <3>2. ASSUME NEW f, Loop!process_packet(f, "skipped") PROVE pkt_drop' = pkt_drop
      BY <3>2 DEF Loop!process_packet, IInv
    <3>3. SkipReport => pkt_drop' = pkt_drop
      BY <3>2 DEF SkipReport, Loop!Process, Loop!ProcessBuffer, Loop!ProcessUninitialised
    <3>4. ~SkipReport => pkt_drop' = pkt_drop
      BY <2>2 DEF LoopStep, DivideByZero, ReceiveFails, Arrive, Interrupt, Loop!CheckStop,
         Loop!Receive, Loop!DivideByZero, Loop!ReceiveFails, Loop!Arrive, Loop!setup_stop,
         Loop!memory
    <3> QED
      BY <3>1, <3>3, <3>4
  <2> QED
    BY <2>1, <2>2 DEF OtherSteps
<1> QED
    BY <1>1, <1>2, <1>3, <1>4 DEF ExporterAlone!vars, ExporterAlone!mainVars,
       ExporterAlone!senderVars

LEMMA InitMapsExporter == Init => ExporterAlone!Init
<1> SUFFICES ASSUME Init PROVE ExporterAlone!Init
    OBVIOUS
<1>1. OptAhead \in Opts /\ EndsOutside
    BY ProcessAssumption DEF Init, OptAhead, EndsOutside
<1>2. Exporter!Senders = ExporterAlone!Senders /\ Exporter!EmptyQueue = ExporterAlone!EmptyQueue
    BY DEF Exporter!Senders, ExporterAlone!Senders, Exporter!EmptyQueue, ExporterAlone!EmptyQueue
<1> QED
    BY <1>1, <1>2 DEF Init, Exporter!Init, ExporterAlone!Init

\* The process, with the command line, the socket and the memory of the loop
\* hidden, is the exporter that module IntExporter checks alone: whatever frames
\* come and signals are sent, its senders see a thread that constructs them and
\* calls sendData for one report after another.
THEOREM ProcessImplementsExporter == Spec => ImplementsExporter
<1>1. IInv /\ [Next]_vars => [ExporterAlone!Next]_(ExporterAlone!vars)
  <2> SUFFICES ASSUME IInv, [Next]_vars PROVE [ExporterAlone!Next]_(ExporterAlone!vars)
      OBVIOUS
  <2>1. CASE Next
    <3>1. process = "up" /\ (ExporterSteps \/ OtherSteps)
      BY <2>1 DEF Next, Main, ExporterSteps, OtherSteps
    <3> QED
      BY <3>1, ExporterStepsMap, OtherStepsStutter
  <2>2. CASE UNCHANGED vars
      BY <2>2 DEF vars, mainVars, loopVars, exporterVars, OptAhead, EndsOutside,
            ExporterAlone!vars, ExporterAlone!mainVars, ExporterAlone!senderVars
  <2> QED
      BY <2>1, <2>2
<1>2. Init /\ [][Next]_vars => []IInv
    BY Initially, Inductive, PTL
<1> QED
    BY <1>1, <1>2, InitMapsExporter, PTL DEF Spec, ImplementsExporter, ExporterAlone!Spec

-----------------------------------------------------------------------------
(* What is proved of the packet loop alone holds of the loop of the process. *)

LP == INSTANCE P4Int_proofs WITH Options <- Opts, pc <- pcLoop, opt <- OptAhead

LEMMA LoopAssumptions ==
    LP!TelemetryAssumption /\ LP!OptionAssumption /\ LP!CollectorAssumption
<1>1. LP!TelemetryAssumption /\ LP!CollectorAssumption
    BY InstanceAssumption
       DEF LP!TelemetryAssumption, LP!CollectorAssumption, LP!FramesOf, LP!Keys, LP!Ports,
           LP!Timestamps, LP!Max, Loop!TelemetryAssumption, Loop!CollectorAssumption,
           Loop!FramesOf, Loop!Keys, Loop!Ports, Loop!Timestamps, Loop!Max
<1>2. LP!OptionAssumption
    BY DEF LP!OptionAssumption, Opts
<1> QED
    BY <1>1, <1>2

LEMMA LoopAloneStep ==
    ASSUME LoopAlone!Next
    PROVE  LP!Next
<1>1. ASSUME NEW f \in Frames, LoopAlone!Arrive(f)
      PROVE  LP!Arrive(f)
    BY <1>1 DEF LoopAlone!Arrive, LoopAlone!memory, LP!Arrive, LP!memory
<1>2. LoopAlone!setup_stop => LP!setup_stop
    BY DEF LoopAlone!setup_stop, LoopAlone!environment, LoopAlone!memory,
       LP!setup_stop, LP!environment, LP!memory
<1>3. LoopAlone!CheckStop => LP!CheckStop
    BY DEF LoopAlone!CheckStop, LoopAlone!environment, LoopAlone!memory,
       LP!CheckStop, LP!environment, LP!memory
<1>4. LoopAlone!Receive => LP!Receive
    BY DEF LoopAlone!Receive, LoopAlone!memory, LP!Receive, LP!memory
<1>5. LoopAlone!ReceiveFails => LP!ReceiveFails
    BY DEF LoopAlone!ReceiveFails, LoopAlone!memory, LP!ReceiveFails, LP!memory
<1>6. LoopAlone!DivideByZero => LP!DivideByZero
    BY DEF LoopAlone!DivideByZero, LoopAlone!Divides0, LoopAlone!environment, LoopAlone!memory,
       LP!DivideByZero, LP!Divides0, LP!environment, LP!memory
<1>7. ASSUME NEW f, NEW outcome, LoopAlone!process_packet(f, outcome)
      PROVE  LP!process_packet(f, outcome)
  <2>1. LoopAlone!ReportOf(f) = LP!ReportOf(f)
    BY DEF LoopAlone!ReportOf, LoopAlone!Report, LoopAlone!get_int_header_data,
       LoopAlone!get_int_node_data, LoopAlone!Minus, LoopAlone!Entered,
       LoopAlone!LeftBefore, LoopAlone!Shown, LoopAlone!Max,
       LP!ReportOf, LP!Report, LP!get_int_header_data, LP!get_int_node_data, LP!Minus,
       LP!Entered, LP!LeftBefore, LP!Shown, LP!Max
  <2>2. \A i : LoopAlone!Entered(f, i) = LP!Entered(f, i)
    BY DEF LoopAlone!Entered, LP!Entered
  <2>3. LoopAlone!Sampled = LP!Sampled /\ LoopAlone!Divides0 = LP!Divides0
    BY DEF LoopAlone!Sampled, LP!Sampled, LoopAlone!Divides0, LP!Divides0
  <2> QED
    BY <1>7, <2>1, <2>2, <2>3 DEF LoopAlone!process_packet, LoopAlone!environment,
       LP!process_packet, LP!environment
<1> QED
    BY <1>1, <1>2, <1>3, <1>4, <1>5, <1>6, <1>7
       DEF LoopAlone!Next, LoopAlone!Loop, LoopAlone!Outcomes, LoopAlone!Process,
           LoopAlone!ProcessBuffer, LoopAlone!ProcessUninitialised,
           LP!Next, LP!Loop, LP!Outcomes, LP!Process, LP!ProcessBuffer, LP!ProcessUninitialised

LEMMA LoopIsProved == LoopAlone!Spec => LP!Spec
<1>1. LoopAlone!Init => LP!Init
    BY DEF LoopAlone!Init, LoopAlone!Keys, LP!Init, LP!Keys
<1>2. LoopAlone!vars = LP!vars
    BY DEF LoopAlone!vars, LoopAlone!environment, LoopAlone!memory, LP!vars, LP!environment,
       LP!memory
<1>3. [LoopAlone!Next]_(LoopAlone!vars) => [LP!Next]_(LP!vars)
    BY LoopAloneStep DEF LoopAlone!vars, LoopAlone!environment, LoopAlone!memory, LP!vars,
       LP!environment, LP!memory
<1> QED
    BY <1>1, <1>3, PTL DEF LoopAlone!Spec, LP!Spec

LEMMA LoopInvariance == Spec => []LP!IInv
<1>1. LP!Spec => []LP!IInv
    BY LP!Invariance, LoopAssumptions
<1> QED
    BY <1>1, LoopIsProved, ProcessImplementsLoop, PTL DEF ImplementsLoop

LEMMA LoopTypes == LP!IInv => LoopAlone!TypeOK
BY DEF LP!IInv, LP!TypeOK, LP!Keys, LP!Timestamps, LoopAlone!TypeOK, LoopAlone!Keys,
       LoopAlone!Timestamps

-----------------------------------------------------------------------------
(* And what is proved of the exporter alone holds of the exporter's part. *)

EP == INSTANCE IntExporter_proofs
    WITH Options <- Opts, pc <- pcSender, HopCounts <- {f.meta_cnt : f \in Frames},
         opt <- OptAhead, process <- IF EndsOutside THEN "up" ELSE process

LEMMA ExporterAssumptions ==
    EP!CapacityAssumption /\ EP!OptionAssumption /\ EP!ExporterAssumption
<1>1. EP!CapacityAssumption /\ EP!ExporterAssumption
    BY InstanceAssumption DEF EP!CapacityAssumption, EP!ExporterAssumption, EP!Reports,
       Exporter!CapacityAssumption, Exporter!ExporterAssumption, Exporter!Reports
<1>2. EP!OptionAssumption
    BY DEF EP!OptionAssumption, Opts
<1> QED
    BY <1>1, <1>2

LEMMA ExporterPushes ==
    ASSUME ExporterAlone!PushReport
    PROVE  EP!PushReport
BY DEF ExporterAlone!PushReport, ExporterAlone!m_th_num, ExporterAlone!NextRing,
       ExporterAlone!HasRoom, ExporterAlone!Pushed, ExporterAlone!senderVars,
       EP!PushReport, EP!m_th_num, EP!NextRing, EP!HasRoom, EP!Pushed, EP!senderVars

LEMMA SendersStep ==
    ASSUME NEW s, ExporterAlone!Sender(s) \/ ExporterAlone!Visible(s)
    PROVE  EP!Sender(s) \/ EP!Visible(s)
<1>1. ExporterAlone!Connected(s) => EP!Connected(s)
    BY DEF ExporterAlone!Connected, ExporterAlone!mainVars, EP!Connected, EP!mainVars
<1>2. ExporterAlone!ConnectFailed(s) => EP!ConnectFailed(s)
    BY DEF ExporterAlone!ConnectFailed, ExporterAlone!mainVars, ExporterAlone!senderVars,
           EP!ConnectFailed, EP!mainVars, EP!senderVars
<1>3. ExporterAlone!PollEmpty(s) => EP!PollEmpty(s)
    BY DEF ExporterAlone!PollEmpty, ExporterAlone!IsHttp, ExporterAlone!HasItem,
           ExporterAlone!mainVars, EP!PollEmpty, EP!IsHttp, EP!HasItem, EP!mainVars
<1>4. ExporterAlone!PollReport(s) => EP!PollReport(s)
    BY DEF ExporterAlone!PollReport, ExporterAlone!HasItem, ExporterAlone!Popped,
           ExporterAlone!add_report, ExporterAlone!BatchFull, ExporterAlone!HttpBatchFull,
           ExporterAlone!UdpBatchFull, ExporterAlone!IsUdp, ExporterAlone!mainVars,
           EP!PollReport, EP!HasItem, EP!Popped, EP!add_report, EP!BatchFull,
           EP!HttpBatchFull, EP!UdpBatchFull, EP!IsUdp, EP!mainVars
<1>5. ExporterAlone!Sent(s) => EP!Sent(s)
    BY DEF ExporterAlone!Sent, ExporterAlone!Outcomes, ExporterAlone!IsUdp,
           ExporterAlone!DatagramTooLong, ExporterAlone!HttpAnswers,
           ExporterAlone!treatCurlResponse, ExporterAlone!Ids, ExporterAlone!mainVars,
           EP!Sent, EP!Outcomes, EP!IsUdp, EP!DatagramTooLong, EP!HttpAnswers,
           EP!treatCurlResponse, EP!Ids, EP!mainVars
<1>6. ExporterAlone!PushBecomesVisible(s) => EP!PushBecomesVisible(s)
    BY DEF ExporterAlone!PushBecomesVisible, ExporterAlone!PushShown,
           ExporterAlone!mainVars, ExporterAlone!senderVars, EP!PushBecomesVisible,
           EP!PushShown, EP!mainVars, EP!senderVars
<1>7. ExporterAlone!PopBecomesVisible(s) => EP!PopBecomesVisible(s)
    BY DEF ExporterAlone!PopBecomesVisible, ExporterAlone!PopShown, ExporterAlone!mainVars,
           ExporterAlone!senderVars, EP!PopBecomesVisible, EP!PopShown, EP!mainVars,
           EP!senderVars
<1> QED
    BY <1>1, <1>2, <1>3, <1>4, <1>5, <1>6, <1>7
       DEF ExporterAlone!Sender, ExporterAlone!Visible, EP!Sender, EP!Visible

LEMMA ExporterAloneStep ==
    ASSUME ExporterAlone!Next
    PROVE  EP!Next
<1>1. ExporterAlone!StartSender => EP!StartSender
    BY DEF ExporterAlone!StartSender, ExporterAlone!m_th_num, ExporterAlone!IsUdp,
           ExporterAlone!IsHttp, EP!StartSender, EP!m_th_num, EP!IsUdp, EP!IsHttp
<1>2. ExporterAlone!UnknownProtocol => EP!UnknownProtocol
    BY DEF ExporterAlone!UnknownProtocol, ExporterAlone!m_th_num, ExporterAlone!IsUdp,
           ExporterAlone!IsHttp, ExporterAlone!mainVars, ExporterAlone!senderVars,
           EP!UnknownProtocol, EP!m_th_num, EP!IsUdp, EP!IsHttp, EP!mainVars, EP!senderVars
<1>3. ExporterAlone!PushRefused => EP!PushRefused
    BY DEF ExporterAlone!PushRefused, ExporterAlone!m_th_num, ExporterAlone!NextRing,
           ExporterAlone!HasRoom, ExporterAlone!senderVars, EP!PushRefused, EP!m_th_num,
           EP!NextRing, EP!HasRoom, EP!senderVars
<1>4. ExporterAlone!GiveUp => EP!GiveUp
    BY DEF ExporterAlone!GiveUp, ExporterAlone!m_th_num, ExporterAlone!senderVars,
           EP!GiveUp, EP!m_th_num, EP!senderVars
<1>5. ExporterAlone!Exit => EP!Exit
    BY DEF ExporterAlone!Exit, ExporterAlone!m_th_num, ExporterAlone!mainVars,
           ExporterAlone!senderVars, EP!Exit, EP!m_th_num, EP!mainVars, EP!senderVars
<1>6. ASSUME NEW hops, ExporterAlone!SendData(hops) PROVE EP!SendData(hops)
    BY <1>6
       DEF ExporterAlone!SendData, ExporterAlone!m_th_num, ExporterAlone!senderVars,
           EP!SendData, EP!m_th_num, EP!senderVars
<1> QED
    BY <1>1, <1>2, <1>3, <1>4, <1>5, <1>6, ExporterPushes, SendersStep
       DEF ExporterAlone!Next, ExporterAlone!Main, ExporterAlone!Construct,
           ExporterAlone!SendDataStep, ExporterAlone!Senders, EP!Next, EP!Main,
           EP!Construct, EP!SendDataStep, EP!Senders

LEMMA ExporterIsProved == ExporterAlone!Spec => EP!Spec
<1>1. ExporterAlone!Init => EP!Init
    BY DEF ExporterAlone!Init, ExporterAlone!Senders, ExporterAlone!EmptyQueue,
       EP!Init, EP!Senders, EP!EmptyQueue
<1>2. [ExporterAlone!Next]_(ExporterAlone!vars) => [EP!Next]_(EP!vars)
    BY ExporterAloneStep DEF ExporterAlone!vars, ExporterAlone!mainVars,
       ExporterAlone!senderVars, EP!vars, EP!mainVars, EP!senderVars
<1> QED
    BY <1>1, <1>2, PTL DEF ExporterAlone!Spec, EP!Spec

LEMMA ExporterInvariance == Spec => []EP!IInv
<1>1. EP!Spec => []EP!IInv
    BY EP!Invariance, ExporterAssumptions
<1> QED
    BY <1>1, ExporterIsProved, ProcessImplementsExporter, PTL DEF ImplementsExporter

-----------------------------------------------------------------------------
(* The command line. *)

ParseStart(o) == [opt |-> Defaults(o), erange |-> FALSE, ret |-> "RET_OK"]

\* iter gives for every set of positions what parsing the arguments there, one
\* after the other, comes to.
Parses(o, args, iter) ==
    iter = [s \in SUBSET DOMAIN args |->
              IF s = {} THEN ParseStart(o) ELSE Parse(iter[s \ {Max(s)}], args[Max(s)])]

LEMMA MaxIsElement ==
    ASSUME NEW S \in SUBSET Nat, IsFiniteSet(S), S # {}
    PROVE  Max(S) \in S /\ \A x \in S : Max(S) >= x
<1> DEFINE HasMax(T) == \E x \in T : \A y \in T : x >= y
           lacking == {T \in SUBSET S : T # {} /\ ~HasMax(T)}
<1>1. lacking = {}
  <2> SUFFICES ASSUME lacking # {} PROVE FALSE
      OBVIOUS
  <2>1. PICK T \in lacking : \A x \in T : T \ {x} \notin lacking
      BY FS_Subset, SmallestSet
  <2>2. PICK x \in T : TRUE
      BY <2>1
  <2>3. T \ {x} = {} \/ HasMax(T \ {x})
      BY <2>1, <2>2
  <2>4. HasMax(T)
    <3>1. CASE T \ {x} = {}
      <4>1. \A y \in T : y = x
          BY <3>1
      <4> QED
          BY <2>2, <4>1
    <3>2. CASE HasMax(T \ {x})
      <4>1. PICK m \in T \ {x} : \A y \in T \ {x} : m >= y
          BY <3>2
      <4>2. m \in Nat /\ x \in Nat /\ \A y \in T : y \in Nat /\ (y = x \/ y \in T \ {x})
          BY <4>1, <2>1
      <4>3. CASE m >= x
          BY <4>1, <4>2, <4>3
      <4>4. CASE ~(m >= x)
        <5>1. \A y \in T : x >= y
            BY <4>1, <4>2, <4>4
        <5> QED
            BY <2>2, <5>1
      <4> QED
          BY <4>3, <4>4
    <3> QED
        BY <2>3, <3>1, <3>2
  <2> QED
      BY <2>1, <2>4
<1>2. HasMax(S)
    BY <1>1
<1> QED
    BY <1>2 DEF Max

LEMMA ParsesExist ==
    ASSUME NEW o, NEW args, DOMAIN args \in SUBSET Nat, IsFiniteSet(DOMAIN args)
    PROVE  \E iter : Parses(o, args, iter)
<1> DEFINE S == DOMAIN args
           Value(s, before) == IF s = {} THEN ParseStart(o)
                               ELSE Parse(before[s \ {Max(s)}], args[Max(s)])
           Small(n) == {s \in SUBSET S : Cardinality(s) <= n}
           Partial(n, g) == g = [s \in Small(n) |-> Value(s, g)]
           lacking == {n \in Nat : ~ \E g : Partial(n, g)}
<1>1. \A s \in SUBSET S :
        IsFiniteSet(s) /\ Cardinality(s) \in Nat /\ Cardinality(s) <= Cardinality(S)
    BY FS_Subset, FS_CardinalityType
<1>2. \A s \in SUBSET S : s # {} =>
          /\ s \ {Max(s)} \in SUBSET S
          /\ Cardinality(s \ {Max(s)}) = Cardinality(s) - 1
    BY <1>1, MaxIsElement, FS_RemoveElement
<1>3. 0 \notin lacking
  <2> DEFINE g == [s \in Small(0) |-> ParseStart(o)]
  <2>1. \A s \in Small(0) : s = {}
      BY <1>1, FS_EmptySet
  <2>2. g = [s \in Small(0) |-> Value(s, g)]
      BY <2>1
  <2> QED
      BY <2>2
<1>4. \A n \in Nat : n \notin lacking => n + 1 \notin lacking
  <2> SUFFICES ASSUME NEW n \in Nat, NEW g, Partial(n, g)
               PROVE  \E h : Partial(n + 1, h)
      OBVIOUS
  <2> DEFINE h == [s \in Small(n + 1) |-> Value(s, g)]
  <2>1. \A s \in Small(n) : s \in Small(n + 1) /\ h[s] = g[s]
    <3> TAKE s \in Small(n)
    <3>1. s \in Small(n + 1)
        BY <1>1
    <3>2. h[s] = Value(s, g)
        BY <3>1
    <3> HIDE DEF Small, h, Value
    <3>3. g[s] = Value(s, g)
        OBVIOUS
    <3> QED
        BY <3>1, <3>2, <3>3
  <2>2. \A s \in Small(n + 1) : s # {} => s \ {Max(s)} \in Small(n)
      BY <1>1, <1>2
  <2>3. \A s \in Small(n + 1) : s # {} => g[s \ {Max(s)}] = h[s \ {Max(s)}]
      BY <2>1, <2>2
  <2>4. \A s \in Small(n + 1) : Value(s, g) = Value(s, h)
      BY <2>3
  <2> HIDE DEF Small, Value
  <2>5. h = [s \in Small(n + 1) |-> Value(s, h)]
      BY <2>4
  <2> QED
      BY <2>5
<1>5. lacking = {}
  <2> SUFFICES ASSUME lacking # {} PROVE FALSE
      OBVIOUS
  <2>1. PICK n \in lacking : \A m \in lacking : n <= m
      BY Smallest
  <2>2. n \in Nat \ {0}
      BY <2>1, <1>3
  <2> HIDE DEF lacking
  <2>3. n - 1 \in Nat /\ n - 1 \notin lacking
      BY <2>1, <2>2
  <2> QED
      BY <1>4, <2>1, <2>2, <2>3
<1>6. Cardinality(S) \in Nat /\ Small(Cardinality(S)) = SUBSET S
    BY <1>1
<1>7. PICK g : Partial(Cardinality(S), g)
    BY <1>5, <1>6
<1> QED
    BY <1>6, <1>7 DEF Parses

LEMMA ParseArgumentsParses ==
    ASSUME NEW o, NEW args
    PROVE  parse_arguments(o, args) = (CHOOSE iter : Parses(o, args, iter))[DOMAIN args]
BY DEF parse_arguments, FoldLeft, MapThenFoldSet, Parses, ParseStart

\* The value of the last argument of T with that letter.
GivenIn(args, T, letter, without) ==
    LET given == {i \in T : args[i].letter = letter}
    IN  IF given = {} THEN without ELSE args[Max(given)].value

Has(args, T, letter) == \E i \in T : args[i].letter = letter

Fields(c, b, t, m, i, r, p) ==
    [hostValid |-> c, batch |-> b, tstmp |-> t, smpl_rate |-> m, raw_buffer |-> i,
     protocol |-> r, port |-> p]

\* The options the arguments of T give.
OptionsOf(o, args, T) ==
    Fields(Has(args, T, "c"), atoi(GivenIn(args, T, "b", 1000)), Has(args, T, "t"),
           atoi(GivenIn(args, T, "m", 1)), atoi(GivenIn(args, T, "i", 1)),
           GivenIn(args, T, "r", o.protocol), strtoumax(GivenIn(args, T, "p", o.port)) % UShort)

\* Why the arguments of T may be refused.
Refusable(args, T) == \E i \in T : args[i].letter = "?" \/ OutOfRange(args[i])

Parsed(o, args, T, s) ==
    /\ s.ret \in {"RET_OK", "exit 0", "RET_ERR"}
    /\ s.erange => Refusable(args, T)
    /\ s.ret = "RET_ERR" => Refusable(args, T)
    /\ s.ret = "RET_OK" =>
         /\ s.opt = OptionsOf(o, args, T)
         /\ \A i \in T : args[i].letter \notin {"h", "?"}

\* A number its field has room for is the number the field gets.
LEMMA NumberIsKept ==
    ASSUME NEW n \in 0 .. UInt - 1
    PROVE  atoi(n) = n
<1>1. ULong \div 2 \in Int /\ UInt \in Nat \ {0} /\ UInt <= ULong \div 2
    BY OptionsAssumption
<1>2. ~TooLong(n) /\ ~TooShort(n)
    BY <1>1 DEF TooLong, TooShort, MaxLong
<1>3. n % UInt = n
    BY <1>1, ModShort
<1> QED
    BY <1>2, <1>3, Zenon DEF atoi

LEMMA PortsAreFewer ==
    UShort \in Nat \ {0} /\ ULong \in Nat \ {0} /\ UShort <= ULong
<1>1. /\ UShort \in Nat \ {0} /\ UInt \in Nat \ {0} /\ ULong \in Nat \ {0}
      /\ UInt % UShort = 0 /\ UInt <= ULong \div 2
    BY OptionsAssumption
<1>2. UShort <= UInt
  <2>1. UInt < UShort => UInt % UShort = UInt
      BY <1>1, ModShort
  <2> QED
      BY <1>1, <2>1
<1>3. ULong \div 2 <= ULong
    BY <1>1
<1> QED
    BY <1>1, <1>2, <1>3

LEMMA PortIsKept ==
    ASSUME NEW n \in 0 .. UShort - 1
    PROVE  strtoumax(n) % UShort = n
<1>1. UShort \in Nat \ {0} /\ ULong \in Nat \ {0} /\ UShort <= ULong
    BY PortsAreFewer
<1>2. ~TooLarge(n)
    BY <1>1 DEF TooLarge
<1>3. n % ULong = n /\ n % UShort = n
    BY <1>1, ModShort
<1> QED
    BY <1>2, <1>3, Zenon DEF strtoumax

LEMMA LastGiven ==
    ASSUME NEW args, NEW T \in SUBSET Nat, IsFiniteSet(T), T # {}, NEW letter, NEW without
    PROVE  LET m == Max(T)
               before == T \ {m}
           IN  /\ args[m].letter = letter => GivenIn(args, T, letter, without) = args[m].value
               /\ args[m].letter # letter =>
                    GivenIn(args, T, letter, without) = GivenIn(args, before, letter, without)
<1> DEFINE m == Max(T)
           given(S) == {i \in S : args[i].letter = letter}
<1>1. m \in T /\ \A x \in T : m >= x
    BY MaxIsElement
<1>2. ASSUME args[m].letter = letter PROVE Max(given(T)) = m /\ given(T) # {}
  <2>1. m \in given(T) /\ given(T) \in SUBSET Nat /\ IsFiniteSet(given(T))
      BY <1>1, <1>2, FS_Subset
  <2>2. Max(given(T)) \in given(T) /\ Max(given(T)) >= m
      BY <2>1, MaxIsElement
  <2>3. Max(given(T)) \in T
      BY <2>2
  <2> HIDE DEF m, given
  <2> QED
      BY <1>1, <2>1, <2>2, <2>3
<1>3. ASSUME args[m].letter # letter PROVE given(T) = given(T \ {m})
    BY <1>3
<1> QED
    BY <1>2, <1>3 DEF GivenIn

LEMMA ParseOne ==
    ASSUME NEW o, NEW args, NEW T \in SUBSET Nat, IsFiniteSet(T), T # {}, NEW s,
           Parsed(o, args, T \ {Max(T)}, s)
    PROVE  Parsed(o, args, T, Parse(s, args[Max(T)]))
<1> DEFINE m == Max(T)
           before == T \ {m}
           a == args[m]
           next == Parse(s, a)
<1>1. m \in T /\ before \cup {m} = T
    BY MaxIsElement
<1>2. \A letter, without :
        GivenIn(args, T, letter, without)
          = IF a.letter = letter THEN a.value ELSE GivenIn(args, before, letter, without)
    BY LastGiven
<1>3. \A letter :
        Has(args, T, letter) = IF a.letter = letter THEN TRUE ELSE Has(args, before, letter)
    BY <1>1 DEF Has
<1> HIDE DEF before, m
<1>4. Parsed(o, args, before, s)
    BY DEF before, m
<1> HIDE DEF a
<1>5. next.ret \in {"RET_OK", "exit 0", "RET_ERR"}
    BY <1>4 DEF Parse, Parsed
<1>6. ASSUME next.ret = "RET_OK"
      PROVE  /\ s.ret = "RET_OK" /\ a.letter \notin {"h", "?"}
             /\ next.opt = Stored(s.opt, a)
    BY <1>6 DEF Parse
<1>9. (next.erange \/ next.ret = "RET_ERR") => Refusable(args, T)
  <2>1. next.erange = (s.erange \/ OutOfRange(a))
      BY DEF Parse
  <2>2. next.ret = "RET_ERR" => s.ret = "RET_ERR" \/ a.letter = "?" \/ (s.erange \/ OutOfRange(a))
      BY DEF Parse
  <2>3. s.erange \/ s.ret = "RET_ERR" => Refusable(args, before)
      BY <1>4 DEF Parsed
  <2>4. Refusable(args, before) \/ OutOfRange(a) \/ a.letter = "?" => Refusable(args, T)
      BY <1>1 DEF Refusable, a
  <2> HIDE DEF next
  <2> QED
      BY <2>1, <2>2, <2>3, <2>4, Zenon
<1> HIDE DEF next
<1>7. ASSUME next.ret = "RET_OK" PROVE next.opt = OptionsOf(o, args, T)
  <2>1. s.opt = OptionsOf(o, args, before)
      BY <1>4, <1>6, <1>7 DEF Parsed
  <2>2. next.opt = Stored(s.opt, a)
      BY <1>6, <1>7
  <2> DEFINE c == Has(args, before, "c")
             b == atoi(GivenIn(args, before, "b", 1000))
             t == Has(args, before, "t")
             n == atoi(GivenIn(args, before, "m", 1))
             i == atoi(GivenIn(args, before, "i", 1))
             r == GivenIn(args, before, "r", o.protocol)
             p == strtoumax(GivenIn(args, before, "p", o.port)) % UShort
             c1 == Has(args, T, "c")
             b1 == atoi(GivenIn(args, T, "b", 1000))
             t1 == Has(args, T, "t")
             n1 == atoi(GivenIn(args, T, "m", 1))
             i1 == atoi(GivenIn(args, T, "i", 1))
             r1 == GivenIn(args, T, "r", o.protocol)
             p1 == strtoumax(GivenIn(args, T, "p", o.port)) % UShort
  <2>3. /\ c1 = IF a.letter = "c" THEN TRUE ELSE c
        /\ t1 = IF a.letter = "t" THEN TRUE ELSE t
      BY <1>3
  <2>4. /\ b1 = IF a.letter = "b" THEN atoi(a.value) ELSE b
        /\ n1 = IF a.letter = "m" THEN atoi(a.value) ELSE n
        /\ i1 = IF a.letter = "i" THEN atoi(a.value) ELSE i
        /\ r1 = IF a.letter = "r" THEN a.value ELSE r
        /\ p1 = IF a.letter = "p" THEN strtoumax(a.value) % UShort ELSE p
      BY <1>2
  <2>5. s.opt = Fields(c, b, t, n, i, r, p)
      BY <2>1, Zenon DEF OptionsOf
  <2>6. OptionsOf(o, args, T) = Fields(c1, b1, t1, n1, i1, r1, p1)
      BY Zenon DEF OptionsOf
  <2> HIDE DEF c, b, t, n, i, r, p, c1, b1, t1, n1, i1, r1, p1
  <2>7. Stored(Fields(c, b, t, n, i, r, p), a) = Fields(c1, b1, t1, n1, i1, r1, p1)
      BY <2>2, <2>3, <2>4 DEF Stored, Fields
  <2> QED
      BY <2>2, <2>5, <2>6, <2>7, Zenon
<1>8. ASSUME next.ret = "RET_OK" PROVE \A i \in T : args[i].letter \notin {"h", "?"}
  <2>1. \A i \in before : args[i].letter \notin {"h", "?"}
      BY <1>4, <1>6, <1>8 DEF Parsed
  <2> QED
      BY <1>1, <1>6, <1>8, <2>1 DEF a
<1> QED
    BY <1>5, <1>7, <1>8, <1>9 DEF Parsed, a, m, next

\* What parse_arguments returns and leaves in opt, for every command line.
LEMMA ParseArgumentsIs ==
    ASSUME NEW o, o.port \in 0 .. UShort - 1, NEW args, args \in Seq(Range(args))
    PROVE  Parsed(o, args, DOMAIN args, parse_arguments(o, args))
<1>1. DOMAIN args = 1 .. Len(args) /\ Len(args) \in Nat
    OBVIOUS
<1>2. DOMAIN args \in SUBSET Nat /\ IsFiniteSet(DOMAIN args)
    BY <1>1, FS_Interval
<1>3. PICK iter : Parses(o, args, iter) /\ parse_arguments(o, args) = iter[DOMAIN args]
    BY <1>2, ParsesExist, ParseArgumentsParses
<1>4. \A T \in SUBSET DOMAIN args :
        iter[T] = IF T = {} THEN ParseStart(o) ELSE Parse(iter[T \ {Max(T)}], args[Max(T)])
    BY <1>3 DEF Parses
<1>5. Parsed(o, args, {}, ParseStart(o))
  <2>1. strtoumax(o.port) % UShort = o.port
      BY PortIsKept
  <2>2. atoi(1000) = 1000 /\ atoi(1) = 1
      BY NumberIsKept, OptionsAssumption
  <2>3. /\ Has(args, {}, "c") = FALSE /\ Has(args, {}, "t") = FALSE
        /\ \A letter, without : GivenIn(args, {}, letter, without) = without
      BY DEF Has, GivenIn
  <2>4. OptionsOf(o, args, {}) = Fields(FALSE, 1000, FALSE, 1, 1, o.protocol, o.port)
    <3> DEFINE c == Has(args, {}, "c")
               b == atoi(GivenIn(args, {}, "b", 1000))
               t == Has(args, {}, "t")
               n == atoi(GivenIn(args, {}, "m", 1))
               i == atoi(GivenIn(args, {}, "i", 1))
               r == GivenIn(args, {}, "r", o.protocol)
               p == strtoumax(GivenIn(args, {}, "p", o.port)) % UShort
    <3>1. OptionsOf(o, args, {}) = Fields(c, b, t, n, i, r, p)
        BY Zenon DEF OptionsOf
    <3>2. c = FALSE /\ t = FALSE
        BY <2>3
    <3>3. b = 1000 /\ n = 1 /\ i = 1 /\ r = o.protocol /\ p = o.port
        BY <2>1, <2>2, <2>3
    <3> HIDE DEF c, b, t, n, i, r, p
    <3> QED
        BY <3>1, <3>2, <3>3, ZenonT(60)
  <2> QED
      BY <2>4 DEF Parsed, ParseStart, Defaults, Fields
<1> DEFINE wrong == {T \in SUBSET DOMAIN args : ~Parsed(o, args, T, iter[T])}
<1>6. wrong = {}
  <2> SUFFICES ASSUME wrong # {} PROVE FALSE
      OBVIOUS
  <2>1. PICK T \in wrong : \A x \in T : T \ {x} \notin wrong
      BY <1>2, FS_Subset, SmallestSet
  <2>2. T # {}
      BY <1>4, <1>5, <2>1
  <2>3. T \in SUBSET Nat /\ IsFiniteSet(T) /\ Max(T) \in T
      BY <1>2, <2>1, <2>2, FS_Subset, MaxIsElement
  <2>4. Parsed(o, args, T \ {Max(T)}, iter[T \ {Max(T)}])
      BY <2>1, <2>3
  <2>5. iter[T] = Parse(iter[T \ {Max(T)}], args[Max(T)])
      BY <1>4, <2>1, <2>2
  <2>6. Parsed(o, args, T, Parse(iter[T \ {Max(T)}], args[Max(T)]))
      BY <2>2, <2>3, <2>4, ParseOne, Zenon
  <2> QED
      BY <2>1, <2>5, <2>6
<1> QED
    BY <1>3, <1>6

-----------------------------------------------------------------------------
(* What main goes on with. *)

Ahead == parse_arguments(stale, argv)

ProcessTypes ==
    /\ \E start \in Starts : argv = start.argv /\ stale = start.opt
    /\ phase \in {"parse_arguments", "prepare_socket", "signal", "run"}
    /\ status \in {"none", "exit 0", "RET_ERR", "RET_OK", "SIGINT"}
    /\ signalled \in BOOLEAN
    /\ process \in {"up", "exited", "terminated"}
    /\ opt \in {stale, Ahead.opt}
    /\ phase # "parse_arguments" => opt = Ahead.opt /\ Ahead.ret = "RET_OK"
    /\ (phase = "parse_arguments" /\ status = "RET_ERR") => Ahead.ret = "RET_ERR"

LEMMA AheadIs ==
    ASSUME \E start \in Starts : argv = start.argv /\ stale = start.opt
    PROVE  Parsed(stale, argv, DOMAIN argv, Ahead)
<1>1. stale.port \in 0 .. UShort - 1 /\ argv \in Seq(Range(argv))
    BY ProcessAssumption
<1> QED
    BY <1>1, ParseArgumentsIs DEF Ahead

LEMMA ProcessTypesInit == Init => ProcessTypes
BY DEF Init, Exporter!Init, ProcessTypes

LEMMA ExporterEnds ==
    ASSUME process \in {"up", "exited", "terminated"},
           \/ Construct \/ OfferReport \/ ReportAccepted \/ RingRefuses \/ ReportDropped
           \/ Return \/ SenderStep
    PROVE  process' \in {"up", "exited", "terminated"}
<1>1. Construct \/ OfferReport \/ ReportAccepted \/ RingRefuses \/ ReportDropped \/ Return
        => process' \in {process, "exited", "terminated"}
    BY DEF Construct, OfferReport, ReportAccepted, RingRefuses, ReportDropped, Return,
       Exporter!Construct, Exporter!StartSender, Exporter!UnknownProtocol, Exporter!SendData,
       Exporter!PushReport, Exporter!PushRefused, Exporter!GiveUp, Exporter!Exit
<1>2. SenderStep => process' \in {process, "exited", "terminated"}
    BY DEF SenderStep, Exporter!Sender, Exporter!Visible, Exporter!Connected,
       Exporter!ConnectFailed, Exporter!PollEmpty, Exporter!PollReport, Exporter!Sent,
       Exporter!PushBecomesVisible, Exporter!PopBecomesVisible
<1> QED
    BY <1>1, <1>2

LEMMA ProcessTypesKept == IInv /\ ProcessTypes /\ [Next]_vars => ProcessTypes'
<1> SUFFICES ASSUME IInv, ProcessTypes, [Next]_vars PROVE ProcessTypes'
    OBVIOUS
<1>1. CASE UNCHANGED vars
    BY <1>1 DEF vars, mainVars, exporterVars, ProcessTypes, Ahead
<1>2. CASE Next
  <2>1. process = "up" /\ UNCHANGED <<argv, stale>>
      BY <1>2 DEF Next, Main, ParseArguments, PrepareSocket, RegisterHandler, Construct, LoopStep,
         DivideByZero, SkipReport, OfferReport, ReportAccepted, RingRefuses, ReportDropped,
         Return, ReceiveFails, Arrive, Interrupt, SenderStep, mainVars
  <2>2. Ahead' = Ahead
      BY <2>1 DEF Ahead
  <2>3. Ahead.ret \in {"RET_OK", "exit 0", "RET_ERR"}
      BY AheadIs DEF ProcessTypes, Parsed
  <2>4. CASE ParseArguments
    <3>1. parse_arguments(opt, argv) = Ahead
        BY <2>1, <2>4 DEF ParseArguments, IInv, Ahead
    <3> QED
        BY <2>1, <2>2, <2>3, <2>4, <3>1 DEF ParseArguments, End, exporterVars, ProcessTypes
  <2>5. CASE ~ParseArguments
    <3>1. opt' = opt
        BY <1>2, <2>1, <2>5, StepsAreAll, PhaseOfLoop, HiddenStepsKeepOptions
    <3>2. /\ phase' \in {"parse_arguments", "prepare_socket", "signal", "run"}
          /\ phase' # "parse_arguments" => phase # "parse_arguments"
          /\ status' \in {status, "RET_ERR", "RET_OK", "SIGINT"}
          /\ (phase' = "parse_arguments" /\ status' = "RET_ERR") =>
               phase = "parse_arguments" /\ status = "RET_ERR"
          /\ signalled' \in {signalled, TRUE}
        BY <1>2, <2>5 DEF Next, Main, PrepareSocket, RegisterHandler, Construct, LoopStep,
           DivideByZero, SkipReport, OfferReport, ReportAccepted, RingRefuses, ReportDropped,
           Return, ReceiveFails, Arrive, Interrupt, SenderStep, End, mainVars, ProcessTypes
    <3>3. process' \in {"up", "exited", "terminated"}
      <4>1. CASE PrepareSocket \/ RegisterHandler \/ LoopStep \/ DivideByZero \/ SkipReport
                 \/ ReceiveFails \/ Arrive \/ Interrupt
          BY <4>1 DEF PrepareSocket, RegisterHandler, LoopStep, DivideByZero, SkipReport,
             ReceiveFails, Arrive, Interrupt, End, exporterVars, ProcessTypes
      <4> QED
          BY <1>2, <2>5, <4>1, ExporterEnds DEF Next, Main, ProcessTypes
    <3> QED
        BY <2>1, <2>2, <3>1, <3>2, <3>3 DEF ProcessTypes
  <2> QED
      BY <2>4, <2>5
<1> QED
    BY <1>1, <1>2

LEMMA ProcessInvariance == Spec => [](IInv /\ ProcessTypes)
<1>1. Init => IInv /\ ProcessTypes
    BY Initially, ProcessTypesInit
<1>2. IInv /\ ProcessTypes /\ [Next]_vars => (IInv /\ ProcessTypes)'
    BY Inductive, ProcessTypesKept
<1> QED
    BY <1>1, <1>2, PTL DEF Spec

\* Everything the process keeps has its type.
THEOREM ProcessHasTypes == Spec => []TypeOK
<1>1. EP!IInv => ExporterAlone!TypeOK
    BY DEF EP!IInv, EP!Types, EP!TypeOK, EP!Senders, EP!Reports, EP!m_th_num, EP!Queues,
       ExporterAlone!TypeOK, ExporterAlone!Senders, ExporterAlone!Reports,
       ExporterAlone!m_th_num, ExporterAlone!Queues
<1>2. ProcessTypes /\ LoopAlone!TypeOK /\ ExporterAlone!TypeOK => TypeOK
    BY DEF ProcessTypes, TypeOK, OptAhead, Ahead
<1> QED
    BY <1>1, <1>2, ProcessInvariance, LoopTypes, LoopInvariance, ExporterInvariance, PTL

\* For every command line main goes on with the last value given for each
\* option, as far as its field has room for it, and with nothing it did not
\* understand; and a command line without an unknown option and without a
\* number beyond 64 bits is not refused.
THEOREM OptionsAreThoseGiven == Spec => []OptionsAsGiven
<1>1. ProcessTypes => OptionsAsGiven
  <2> SUFFICES ASSUME ProcessTypes PROVE OptionsAsGiven
      OBVIOUS
  <2>1. Parsed(stale, argv, DOMAIN argv, Ahead)
      BY AheadIs DEF ProcessTypes
  <2>2. ASSUME phase = "parse_arguments", status = "RET_ERR"
        PROVE  \E i \in DOMAIN argv : argv[i].letter = "?" \/ OutOfRange(argv[i])
      BY <2>1, <2>2 DEF ProcessTypes, Parsed, Refusable
  <2>3. \A letter, without : Given(letter, without) = GivenIn(argv, DOMAIN argv, letter, without)
      BY DEF Given, GivenIn
  <2>4. ASSUME phase # "parse_arguments"
        PROVE  /\ \A i \in DOMAIN argv : argv[i].letter \notin {"h", "?"}
               /\ opt.hostValid = Has(argv, DOMAIN argv, "c")
               /\ opt.tstmp = Has(argv, DOMAIN argv, "t")
               /\ opt.protocol = Given("r", stale.protocol)
               /\ opt.batch = atoi(Given("b", 1000))
               /\ opt.smpl_rate = atoi(Given("m", 1))
               /\ opt.raw_buffer = atoi(Given("i", 1))
               /\ opt.port = strtoumax(Given("p", stale.port)) % UShort
    <3>1. /\ opt = OptionsOf(stale, argv, DOMAIN argv)
          /\ \A i \in DOMAIN argv : argv[i].letter \notin {"h", "?"}
        BY <2>1, <2>4 DEF ProcessTypes, Parsed
    <3> QED
        BY <2>3, <3>1 DEF OptionsOf, Fields
  <2>5. \A field, n : field = atoi(n) => Holds(field, n, UInt)
      BY NumberIsKept DEF Holds
  <2>6. \A field, n : field = strtoumax(n) % UShort => Holds(field, n, UShort)
      BY PortIsKept DEF Holds
  <2>7. ASSUME phase # "parse_arguments"
        PROVE  /\ Holds(opt.batch, Given("b", 1000), UInt)
               /\ Holds(opt.smpl_rate, Given("m", 1), UInt)
               /\ Holds(opt.raw_buffer, Given("i", 1), UInt)
               /\ Holds(opt.port, Given("p", stale.port), UShort)
      BY <2>4, <2>5, <2>6, <2>7
  <2> QED
      BY <2>2, <2>4, <2>7, Zenon DEF OptionsAsGiven, Has
<1> QED
    BY <1>1, ProcessInvariance, PTL

\* Of two numbers Max is the greater.
LEMMA MaxOfTwo ==
    ASSUME NEW a \in Int, NEW b \in Int
    PROVE  Max({a, b}) = IF a >= b THEN a ELSE b
<1> DEFINE m == IF a >= b THEN a ELSE b
<1>1. m \in {a, b} /\ \A y \in {a, b} : m >= y
    OBVIOUS
<1>2. ASSUME NEW x \in {a, b}, \A y \in {a, b} : x >= y PROVE x = m
    BY <1>2
<1> QED
    BY <1>1, <1>2 DEF Max

\* What is lost when the process ends is bounded, for every size of batch and ring
\* and however long the database has not answered.
THEOREM LossIsBounded == Spec => []LossAtExit
<1>1. EP!IInv => LossAtExit
  <2> SUFFICES ASSUME EP!IInv, phase = "run", Exporter!IsHttp, NEW s \in Exporter!Senders
               PROVE  Len(Exporter!Accepted(s)) - Len(sent[s])
                        <= Capacity + Max({opt.batch - 1, 0}) \div 2 + 1
      BY DEF LossAtExit
  <2>1. EP!TypeOK /\ EP!Batches /\ s \in EP!Senders
      BY DEF EP!IInv, EP!Types, Exporter!Senders, EP!Senders
  <2>2. OptAhead = opt
      BY DEF OptAhead
  <2>3. opt \in Opts
      BY <2>1, <2>2 DEF EP!TypeOK
  <2>4. EP!IsHttp
      BY <2>2 DEF EP!IsHttp, Exporter!IsHttp
  <2>5. /\ sent[s] \in Seq(EP!Reports) /\ data[s] \in Seq(EP!Reports)
        /\ rings[s] \in EP!Queues(EP!Reports)
      BY <2>1 DEF EP!TypeOK
  <2>6. Capacity \in Nat /\ opt.batch \in Nat
      BY <2>3, InstanceAssumption DEF Exporter!CapacityAssumption, Opts
  <2>7. rings[s].items \in Seq(EP!Reports) /\ Len(rings[s].items) <= Capacity
    <3>1. /\ rings[s].items \in Seq(EP!Reports) /\ rings[s].unseenPops \in Nat
          /\ Len(rings[s].items) + rings[s].unseenPops <= Capacity
        BY <2>5 DEF EP!Queues
    <3>2. Len(rings[s].items) \in Nat
        BY <3>1, LenProperties
    <3> QED
        BY <2>6, <3>1, <3>2
  <2>8. Len(data[s]) <= 1 \/ 2 * Len(data[s]) <= opt.batch + 1
      BY <2>1, <2>2, <2>4 DEF EP!Batches, EP!Limited
  <2>9. Len(Exporter!Accepted(s)) = Len(sent[s]) + Len(data[s]) + Len(rings[s].items)
      BY <2>5, <2>7, ConcatProperties DEF Exporter!Accepted
  <2>10. /\ Len(sent[s]) \in Nat /\ Len(data[s]) \in Nat /\ Len(rings[s].items) \in Nat
      BY <2>5, <2>7, LenProperties
  <2>11. Max({opt.batch - 1, 0}) = IF opt.batch >= 1 THEN opt.batch - 1 ELSE 0
      BY <2>6, MaxOfTwo
  <2>12. Len(data[s]) <= Max({opt.batch - 1, 0}) \div 2 + 1
    <3> DEFINE l == Len(data[s])
               b == opt.batch
    <3>1. l \in Nat /\ b \in Nat /\ (l <= 1 \/ 2 * l <= b + 1)
        BY <2>6, <2>8, <2>10
    <3> HIDE DEF l, b
    <3>2. l <= (IF b >= 1 THEN b - 1 ELSE 0) \div 2 + 1
        BY <3>1
    <3> QED
        BY <2>11, <3>2 DEF l, b
  <2>13. Max({opt.batch - 1, 0}) \div 2 \in Int
      BY <2>6, <2>11
  <2> DEFINE waiting == Len(rings[s].items)
             held == Len(data[s])
             gone == Len(sent[s])
             most == Max({opt.batch - 1, 0}) \div 2
  <2>14. /\ waiting \in Nat /\ held \in Nat /\ gone \in Nat /\ most \in Int /\ Capacity \in Nat
         /\ waiting <= Capacity /\ held <= most + 1
         /\ Len(Exporter!Accepted(s)) = gone + held + waiting
      BY <2>6, <2>7, <2>9, <2>10, <2>12, <2>13
  <2> HIDE DEF waiting, held, gone, most
  <2>15. Len(Exporter!Accepted(s)) - gone <= Capacity + most + 1
      BY <2>14
  <2> QED
      BY <2>15 DEF gone, most
<1> QED
    BY <1>1, ExporterInvariance, PTL

-----------------------------------------------------------------------------
(* From the frame to the sender. *)

\* All reports that a ring has accepted.
Taken == UNION {Range(Exporter!Accepted(s)) : s \in Exporter!Senders}

Offers == opt.hostValid /\ opt.smpl_rate > 0

Place(id) == (id - 1) * opt.smpl_rate + 1

\* How far the loop is with the report it offered last.
Linked ==
    /\ sending # NoReport =>
        /\ pcLoop = "process" /\ Offers
        /\ sending.id = nextId - 1
        /\ pkt_cnt = (nextId - 2) * opt.smpl_rate
    /\ (sending = NoReport /\ Offers) =>
        /\ (nextId - 2) * opt.smpl_rate < pkt_cnt
        /\ pkt_cnt <= (nextId - 1) * opt.smpl_rate

\* What was accepted is in its place among the reports the loop made.
Matched ==
    /\ \A r \in Taken :
        /\ Offers
        /\ Place(r.id) \in 1 .. Len(processed)
        /\ processed[Place(r.id)].outcome = "accepted"
        /\ DOMAIN processed[Place(r.id)].report.node_meta = 0 .. r.hops
    /\ Offers =>
        \A n \in 1 .. Len(processed) :
            processed[n].outcome = "accepted" => \E r \in Taken : n = Place(r.id)

Begun == nextId = 1 /\ pkt_cnt = 0 /\ processed = <<>> /\ Taken = {}

FromFrameToSender ==
    /\ phase # "run" => Begun
    /\ phase = "run" => Linked /\ Matched

LEMMA RangeAppended ==
    ASSUME NEW S, NEW q \in Seq(S), NEW r \in S
    PROVE  Range(Append(q, r)) = Range(q) \cup {r}
<1> DEFINE a == Append(q, r)
           n == Len(q)
<1>1. /\ n \in Nat /\ DOMAIN q = 1 .. n /\ DOMAIN a = 1 .. n + 1
      /\ \A i \in 1 .. n : a[i] = q[i]
      /\ a[n + 1] = r
    BY AppendProperties, LenProperties
<1> HIDE DEF a, n
<1>2. Range(a) = Range(q) \cup {a[n + 1]}
    BY <1>1 DEF Range
<1> QED
    BY <1>1, <1>2 DEF a

LEMMA TakenGrows ==
    ASSUME IInv, process = "up", EP!IInv, ReportAccepted
    PROVE  sending \in EP!Reports /\ Taken' = Taken \cup {sending}
<1>1. EP!PushReport
  <2>1. ~EndsOutside /\ ~EndsOutside' /\ phase = "run" /\ phase' = "run"
      BY ExporterRuns DEF ExporterSteps
  <2> QED
      BY <2>1, SameExporter, ExporterPushes DEF ReportAccepted
<1>2. /\ EP!NextRing \in EP!Senders /\ sending \in EP!Reports
      /\ \A t \in EP!Senders :
           EP!Accepted(t)' = IF t = EP!NextRing THEN Append(EP!Accepted(t), sending)
                             ELSE EP!Accepted(t)
    BY <1>1, ExporterAssumptions, EP!PushAppends DEF EP!IInv
<1>3. \A t \in EP!Senders : EP!Accepted(t) \in Seq(EP!Reports)
    BY ExporterAssumptions, EP!AcceptedIsSequence DEF EP!IInv, EP!Types
<1>4. /\ \A r : r \in Taken <=> \E t \in EP!Senders : r \in Range(EP!Accepted(t))
      /\ \A r : r \in Taken' <=> \E t \in EP!Senders : r \in Range(EP!Accepted(t)')
    BY DEF Taken, Exporter!Senders, EP!Senders, Exporter!Accepted, EP!Accepted, Range
<1>5. \A t \in EP!Senders :
        Range(EP!Accepted(t)') = IF t = EP!NextRing THEN Range(EP!Accepted(t)) \cup {sending}
                                 ELSE Range(EP!Accepted(t))
    BY <1>2, <1>3, RangeAppended, ZenonT(60)
<1>6. ASSUME NEW r
      PROVE  r \in Taken' <=> r \in Taken \/ r = sending
    BY <1>2, <1>4, <1>5, Zenon
<1> QED
    BY <1>2, <1>6

LEMMA TakenStays ==
    ASSUME IInv, process = "up", EP!IInv, [Next]_vars, ~ReportAccepted
    PROVE  Taken' = Taken
<1>1. ASSUME \A t \in Exporter!Senders : Exporter!Accepted(t)' = Exporter!Accepted(t)
      PROVE  Taken' = Taken
    BY <1>1 DEF Taken, Range
<1>2. CASE UNCHANGED <<sent, data, rings>>
    BY <1>1, <1>2 DEF Exporter!Accepted
<1>3. CASE UNCHANGED vars
    BY <1>2, <1>3 DEF vars, exporterVars
<1>4. CASE OtherSteps
    BY <1>2, <1>4, OtherStepsStutter DEF ExporterAlone!vars, ExporterAlone!senderVars
<1>5. CASE Construct \/ OfferReport \/ RingRefuses \/ ReportDropped \/ Return
    BY <1>2, <1>5 DEF Construct, OfferReport, RingRefuses, ReportDropped, Return,
       Exporter!Construct, Exporter!StartSender, Exporter!UnknownProtocol, Exporter!SendData,
       Exporter!PushRefused, Exporter!GiveUp, Exporter!Exit, Exporter!senderVars
<1>6. CASE SenderStep
  <2>1. ~EndsOutside /\ ~EndsOutside' /\ phase = "run" /\ phase' = "run"
      BY <1>6, ExporterRuns DEF ExporterSteps
  <2>2. PICK s \in Exporter!Senders : Exporter!Sender(s) \/ Exporter!Visible(s)
      BY <1>6 DEF SenderStep
  <2>3. s \in EP!Senders /\ (EP!Sender(s) \/ EP!Visible(s))
      BY <2>1, <2>2, SameExporter, SendersStep DEF Exporter!Senders, EP!Senders
  <2>4. \A t \in EP!Senders : EP!Accepted(t)' = EP!Accepted(t)
      BY <2>3, ExporterAssumptions, EP!SenderKeepsAccepted DEF EP!IInv
  <2> QED
      BY <1>1, <2>4 DEF Exporter!Accepted, EP!Accepted, Exporter!Senders, EP!Senders
<1> QED
    BY <1>3, <1>4, <1>5, <1>6 DEF Next, Main, OtherSteps

LEMMA AtEnd ==
    ASSUME NEW S, NEW q \in Seq(S), NEW e
    PROVE  /\ Len(q) \in Nat /\ Len(Append(q, e)) = Len(q) + 1
           /\ \A i \in 1 .. Len(q) : Append(q, e)[i] = q[i]
           /\ Append(q, e)[Len(q) + 1] = e
<1> DEFINE R == S \cup {e}
<1>1. q \in Seq(R) /\ e \in R
    OBVIOUS
<1> HIDE DEF R
<1> QED
    BY <1>1, AppendProperties, LenProperties

\* The packet loop makes a report of the frame in the buffer.
Made(f, outcome, e) ==
    /\ e.outcome = outcome
    /\ DOMAIN e.report.node_meta = 0 .. f.meta_cnt
    /\ processed' = Append(processed, e)
    /\ pkt_cnt' = pkt_cnt + 1
    /\ opt' = opt
    /\ pcLoop = "process"
    /\ outcome \in IF Loop!Sampled THEN {"accepted", "dropped"} ELSE {"skipped"}
    /\ ~Loop!Divides0

LEMMA PacketMakes ==
    ASSUME NEW f, NEW outcome, Loop!process_packet(f, outcome)
    PROVE  \E e : Made(f, outcome, e)
<1> DEFINE e == [report |-> Loop!ReportOf(f), outcome |-> outcome]
<1>1. DOMAIN e.report.node_meta = 0 .. f.meta_cnt /\ e.outcome = outcome
    BY DEF Loop!ReportOf, Loop!Report
<1>2. processed' = Append(processed, e)
    BY DEF Loop!process_packet
<1> HIDE DEF e
<1>3. Made(f, outcome, e)
    BY <1>1, <1>2 DEF Made, Loop!process_packet
<1> QED
    BY <1>3

\* What holds of the numbers while the exporter runs.
InRun ==
    /\ opt \in Opts /\ opt.smpl_rate \in Nat /\ opt.hostValid \in BOOLEAN
    /\ processed \in Seq(LP!Entries) /\ pkt_cnt = Len(processed) /\ pkt_cnt \in Nat
    /\ nextId \in Nat
    /\ \A r \in Taken : r.id \in Nat /\ r.id < nextId

LEMMA Running ==
    ASSUME phase # "parse_arguments", EP!IInv, LP!IInv
    PROVE  InRun
<1>1. OptAhead = opt
    BY DEF OptAhead
<1>2. opt \in Opts
    BY <1>1 DEF LP!IInv, LP!TypeOK
<1>3. processed \in Seq(LP!Entries) /\ pkt_cnt = Len(processed) /\ pkt_cnt \in Nat
    BY DEF LP!IInv, LP!TypeOK, LP!Typed
<1>4. nextId \in Nat
    BY ExporterAssumptions DEF EP!IInv, EP!Types, EP!TypeOK, EP!ExporterAssumption
<1>5. ASSUME NEW r \in Taken
      PROVE  r.id \in Nat /\ r.id < nextId
  <2>1. PICK s \in EP!Senders : r \in Range(EP!Accepted(s))
      BY DEF Taken, Exporter!Senders, EP!Senders, Exporter!Accepted, EP!Accepted
  <2>2. PICK i \in DOMAIN EP!Accepted(s) : r = EP!Accepted(s)[i]
      BY <2>1 DEF Range
  <2>3. EP!Accepted(s) \in Seq(EP!Reports)
      BY ExporterAssumptions, EP!AcceptedIsSequence DEF EP!IInv, EP!Types
  <2>4. r \in EP!Reports
      BY <2>2, <2>3, LenProperties
  <2>5. r.id \in Nat
      BY <2>4, ExporterAssumptions DEF EP!Reports, EP!ExporterAssumption
  <2> QED
      BY <2>2, <2>5 DEF EP!IInv, EP!Ordered
<1> QED
    BY <1>2, <1>3, <1>4, <1>5 DEF InRun, Opts

LEMMA RunGoesOn ==
    ASSUME IInv, phase = "run", [Next]_vars
    PROVE  phase' = "run" /\ opt' = opt
<1>1. CASE UNCHANGED vars
    BY <1>1 DEF vars, mainVars
<1>2. CASE Next /\ LoopSteps
    BY <1>2, PhaseOfLoop, StepsAreAll
<1>3. CASE Next /\ HiddenSteps
  <2>1. ~ParseArguments /\ ~PrepareSocket /\ ~RegisterHandler
      BY DEF ParseArguments, PrepareSocket, RegisterHandler
  <2>2. phase' = phase
      BY <1>3, <2>1 DEF HiddenSteps, Construct, OfferReport, RingRefuses, Return, SenderStep,
         Interrupt, mainVars
  <2> QED
      BY <1>3, <2>1, <2>2, HiddenStepsKeepOptions
<1> QED
    BY <1>1, <1>2, <1>3, StepsAreAll

\* Reports are offered, and answered, by these steps alone.
LEMMA OthersOfferNone ==
    ASSUME [Next]_vars, ~OfferReport, ~SkipReport, ~ReportAccepted, ~ReportDropped
    PROVE  /\ UNCHANGED <<nextId, sending, pkt_cnt, processed>>
           /\ pcLoop = "process" /\ sending # NoReport => pcLoop' = pcLoop
<1>1. CASE UNCHANGED vars
    BY <1>1 DEF vars, loopVars, exporterVars
<1>2. CASE ParseArguments \/ PrepareSocket \/ RegisterHandler \/ Interrupt
    BY <1>2 DEF ParseArguments, PrepareSocket, RegisterHandler, Interrupt, End, loopVars,
       exporterVars, Loop!setup_stop, Loop!memory
<1>3. CASE LoopStep \/ ReceiveFails \/ DivideByZero \/ Arrive
    BY <1>3 DEF LoopStep, ReceiveFails, DivideByZero, Arrive, exporterVars, Loop!CheckStop,
       Loop!Receive, Loop!ReceiveFails, Loop!DivideByZero, Loop!Arrive, Loop!memory
<1>4. CASE Construct \/ RingRefuses \/ Return
    BY <1>4 DEF Construct, RingRefuses, Return, loopVars, Exporter!Construct,
       Exporter!StartSender, Exporter!UnknownProtocol, Exporter!PushRefused, Exporter!Exit,
       Exporter!mainVars
<1>5. CASE SenderStep
    BY <1>5 DEF SenderStep, loopVars, Exporter!Sender, Exporter!Visible, Exporter!Connected,
       Exporter!ConnectFailed, Exporter!PollEmpty, Exporter!PollReport, Exporter!Sent,
       Exporter!PushBecomesVisible, Exporter!PopBecomesVisible, Exporter!mainVars
<1> QED
    BY <1>1, <1>2, <1>3, <1>4, <1>5 DEF Next, Main

LEMMA OfferKeepsLink ==
    ASSUME InRun, Linked, OfferReport, opt' = opt,
           sending' \in EP!Reports, NoReport \notin EP!Reports
    PROVE  Linked'
<1>1. /\ sending = NoReport /\ sending'.id = nextId /\ nextId' = nextId + 1
      /\ pkt_cnt' = pkt_cnt /\ pcLoop' = pcLoop /\ pcLoop = "process"
      /\ opt.hostValid /\ ~Loop!Divides0 /\ Loop!Sampled
    BY DEF OfferReport, Exporter!SendData, loopVars
<1> DEFINE R == opt.smpl_rate
<1>2. Offers /\ R \in Nat /\ R > 0 /\ pkt_cnt % R = 0
    BY <1>1 DEF Loop!Divides0, Loop!Sampled, InRun, Offers
<1>3. (nextId - 2) * R < pkt_cnt /\ pkt_cnt <= (nextId - 1) * R
    BY <1>1, <1>2 DEF Linked
<1>4. nextId \in Int /\ pkt_cnt \in Int
    BY DEF InRun
<1> HIDE DEF R
<1>5. pkt_cnt = (nextId - 1) * R
  <2> DEFINE k == nextId - 1
  <2>1. k \in Int /\ k - 1 = nextId - 2
      BY <1>4
  <2>2. (k - 1) * R < pkt_cnt /\ pkt_cnt <= k * R
      BY <1>3, <2>1
  <2> HIDE DEF k
  <2>3. pkt_cnt = k * R
      BY <1>2, <1>4, <2>1, <2>2, NextMultiple
  <2> QED
      BY <2>3 DEF k
<1>6. nextId' - 2 = nextId - 1 /\ sending'.id = nextId' - 1
    BY <1>1, <1>4
<1> QED
    BY <1>1, <1>2, <1>5, <1>6 DEF Linked, Offers, R

LEMMA AnswerKeepsLink ==
    ASSUME InRun, Linked, sending # NoReport, sending' = NoReport, nextId' = nextId,
           opt' = opt, pkt_cnt' = pkt_cnt + 1
    PROVE  Linked'
<1> DEFINE R == opt.smpl_rate
           k == nextId - 1
<1>1. R \in Nat /\ R > 0 /\ k \in Int /\ k - 1 = nextId - 2 /\ pkt_cnt = (nextId - 2) * R
    BY DEF Linked, InRun, Offers
<1> HIDE DEF R, k
<1>2. pkt_cnt = (k - 1) * R
    BY <1>1
<1>3. (k - 1) * R \in Int /\ k * R = (k - 1) * R + R
    BY <1>1, MoreBy
<1>4. (k - 1) * R < pkt_cnt' /\ pkt_cnt' <= k * R
    BY <1>1, <1>2, <1>3
<1> QED
    BY <1>1, <1>4 DEF Linked, R, k

LEMMA SkipKeepsLink ==
    ASSUME InRun, Linked, NEW f, NEW e, Made(f, "skipped", e), UNCHANGED <<sending, nextId>>
    PROVE  Linked'
<1> DEFINE R == opt.smpl_rate
           k == nextId - 1
<1>1. pkt_cnt' = pkt_cnt + 1 /\ opt' = opt /\ ~Loop!Sampled
    BY DEF Made
<1>2. R \in Nat /\ pkt_cnt \in Int /\ k \in Int /\ k - 1 = nextId - 2
    BY DEF InRun
<1>3. Offers => pkt_cnt % R # 0 /\ R > 0
    BY <1>1 DEF Loop!Sampled, Offers
<1> HIDE DEF R, k
<1>4. Offers => (k * R) % R = 0 /\ ((k - 1) * R) % R = 0 /\ k * R \in Int /\ (k - 1) * R \in Int
  <2>1. k - 1 \in Int
      BY <1>2
  <2> QED
      BY <1>2, <1>3, <2>1, IsMultiple, MoreBy
<1>5. sending = NoReport
    BY <1>2, <1>3, <1>4 DEF Linked, k, R
<1>6. Offers => (k - 1) * R < pkt_cnt /\ pkt_cnt <= k * R
    BY <1>2, <1>5 DEF Linked, k, R
<1>7. Offers => (k - 1) * R < pkt_cnt' /\ pkt_cnt' <= k * R
  <2> DEFINE a == (k - 1) * R
             b == k * R
  <2>1. Offers => a < pkt_cnt /\ pkt_cnt <= b /\ pkt_cnt # b /\ a \in Int /\ b \in Int
      BY <1>3, <1>4, <1>6
  <2> HIDE DEF a, b
  <2>2. Offers => a < pkt_cnt' /\ pkt_cnt' <= b
      BY <1>1, <1>2, <2>1
  <2> QED
      BY <2>2 DEF a, b
<1>8. sending' = NoReport /\ nextId' = nextId
    BY <1>5
<1> QED
    BY <1>1, <1>2, <1>7, <1>8 DEF Linked, Offers, k, R

LEMMA MatchStays ==
    ASSUME Matched, Taken' = Taken, processed' = processed, opt' = opt
    PROVE  Matched'
BY DEF Matched, Place, Offers

LEMMA OtherKeepsMatch ==
    ASSUME InRun, Matched, NEW f, NEW outcome, outcome # "accepted", NEW e, Made(f, outcome, e),
           Taken' = Taken
    PROVE  Matched'
<1>1. /\ Len(processed) \in Nat /\ Len(processed') = Len(processed) + 1
      /\ \A i \in 1 .. Len(processed) : processed'[i] = processed[i]
      /\ processed'[Len(processed) + 1].outcome # "accepted"
    BY AtEnd DEF InRun, Made
<1>2. opt' = opt
    BY DEF Made
<1> DEFINE n == Len(processed)
<1>3. ASSUME NEW i \in 1 .. n + 1, processed'[i].outcome = "accepted"
      PROVE  i \in 1 .. n /\ processed[i].outcome = "accepted"
    BY <1>1, <1>3
<1>4. \A r : Place(r.id)' = Place(r.id)
    BY <1>2 DEF Place
<1>5. ASSUME NEW r \in Taken
      PROVE  /\ Place(r.id) \in 1 .. n + 1
             /\ processed'[Place(r.id)].outcome = "accepted"
             /\ DOMAIN processed'[Place(r.id)].report.node_meta = 0 .. r.hops
  <2> DEFINE i == Place(r.id)
  <2>1. /\ i \in 1 .. n /\ processed[i].outcome = "accepted"
        /\ DOMAIN processed[i].report.node_meta = 0 .. r.hops
      BY DEF Matched
  <2> HIDE DEF i
  <2>2. i \in 1 .. n + 1 /\ processed'[i] = processed[i]
      BY <1>1, <2>1
  <2> QED
      BY <2>1, <2>2 DEF i
<1> QED
    BY <1>1, <1>2, <1>3, <1>4, <1>5 DEF Matched, Offers

LEMMA AcceptedKeepsMatch ==
    ASSUME InRun, Linked, Matched, sending # NoReport, NEW f, f.meta_cnt = sending.hops,
           NEW e, Made(f, "accepted", e), Taken' = Taken \cup {sending}
    PROVE  Matched'
<1>1. /\ Len(processed) \in Nat /\ Len(processed') = Len(processed) + 1
      /\ \A i \in 1 .. Len(processed) : processed'[i] = processed[i]
      /\ processed'[Len(processed) + 1] = e
    BY AtEnd DEF InRun, Made
<1>2. opt' = opt
    BY DEF Made
<1> DEFINE n == Len(processed)
<1>3. Offers /\ Place(sending.id) = n + 1
  <2>1. sending.id - 1 = nextId - 2 /\ pkt_cnt = (nextId - 2) * opt.smpl_rate /\ Offers
      BY DEF Linked, InRun
  <2> QED
      BY <2>1 DEF InRun, Place
<1>4. \A r : Place(r.id)' = Place(r.id)
    BY <1>2 DEF Place
<1>5. e.outcome = "accepted" /\ DOMAIN e.report.node_meta = 0 .. sending.hops
    BY DEF Made
<1>6. ASSUME NEW r \in Taken'
      PROVE  /\ Place(r.id) \in 1 .. n + 1
             /\ processed'[Place(r.id)].outcome = "accepted"
             /\ DOMAIN processed'[Place(r.id)].report.node_meta = 0 .. r.hops
  <2> DEFINE i == Place(r.id)
  <2>1. CASE r = sending
      BY <1>1, <1>3, <1>5, <2>1
  <2>2. CASE r \in Taken
    <3>1. /\ i \in 1 .. n /\ processed[i].outcome = "accepted"
          /\ DOMAIN processed[i].report.node_meta = 0 .. r.hops
        BY <2>2 DEF Matched
    <3> HIDE DEF i
    <3>2. i \in 1 .. n + 1 /\ processed'[i] = processed[i]
        BY <1>1, <3>1
    <3> QED
        BY <3>1, <3>2 DEF i
  <2> QED
      BY <2>1, <2>2
<1>7. ASSUME NEW i \in 1 .. n + 1, processed'[i].outcome = "accepted"
      PROVE  \E r \in Taken' : i = Place(r.id)
  <2>1. CASE i = n + 1
      BY <1>3, <2>1
  <2>2. CASE i \in 1 .. n
    <3>1. processed[i].outcome = "accepted"
        BY <1>1, <1>7, <2>2
    <3> QED
        BY <1>3, <2>2, <3>1 DEF Matched
  <2> QED
      BY <1>1, <2>1, <2>2
<1> QED
    BY <1>1, <1>2, <1>3, <1>4, <1>6, <1>7 DEF Matched, Offers

LEMMA BeginsMatched ==
    ASSUME Begun, InRun, sending = NoReport
    PROVE  Linked /\ Matched
<1> DEFINE R == opt.smpl_rate
<1>1. R \in Nat
    BY DEF InRun
<1>2. nextId - 2 = -1 /\ nextId - 1 = 0 /\ pkt_cnt = 0
    BY DEF Begun
<1> HIDE DEF R
<1>3. R > 0 => (-1) * R < 0 /\ 0 <= 0 * R
    BY <1>1
<1>4. Linked
    BY <1>2, <1>3 DEF Linked, Offers, R
<1>5. Len(processed) = 0
    BY DEF Begun
<1> QED
    BY <1>4, <1>5 DEF Begun, Matched

LEMMA NotYetBegun ==
    ASSUME IInv, phase # "run", [Next]_vars
    PROVE  /\ UNCHANGED <<nextId, sending, pkt_cnt, processed>>
           /\ ~OfferReport /\ ~SkipReport /\ ~ReportAccepted /\ ~ReportDropped
<1>1. pcLoop # "process" /\ sending = NoReport
    BY DEF IInv
<1>2. ~OfferReport /\ ~ReportAccepted /\ ~ReportDropped
    BY <1>1 DEF OfferReport, ReportAccepted, ReportDropped, Exporter!PushReport, Exporter!GiveUp
<1>3. ~SkipReport
    BY <1>1 DEF SkipReport, Loop!Process, Loop!ProcessBuffer, Loop!ProcessUninitialised,
       Loop!process_packet
<1> QED
    BY <1>2, <1>3, OthersOfferNone

LEMMA LinkStays ==
    ASSUME Linked, opt' = opt, UNCHANGED <<nextId, sending, pkt_cnt>>,
           pcLoop = "process" /\ sending # NoReport => pcLoop' = pcLoop
    PROVE  Linked'
BY DEF Linked, Offers

LEMMA OfferIsReport ==
    ASSUME IInv, EP!IInv, OfferReport
    PROVE  sending' \in EP!Reports
<1>1. PICK f \in InBuffer : Exporter!SendData(f.meta_cnt)
    BY DEF OfferReport
<1>2. f \in Frames
    BY <1>1 DEF InBuffer, IInv
<1>3. nextId \in 1 .. MaxReports
    BY <1>1, ExporterAssumptions DEF Exporter!SendData, EP!IInv, EP!Types, EP!TypeOK,
       EP!ExporterAssumption
<1> QED
    BY <1>1, <1>2, <1>3 DEF Exporter!SendData, EP!Reports

LEMMA RunKept ==
    ASSUME IInv, EP!IInv, LP!IInv, phase = "run", Linked, Matched, Next
    PROVE  Linked' /\ Matched'
<1>0. process = "up" /\ InRun /\ opt' = opt
    BY Running, RunGoesOn DEF Next
<1>1. CASE OfferReport
  <2>1. sending' \in EP!Reports /\ NoReport \notin EP!Reports
      BY <1>1, OfferIsReport, ExporterAssumptions DEF EP!ExporterAssumption
  <2>2. processed' = processed /\ ~ReportAccepted
      BY <1>1 DEF OfferReport, loopVars, ReportAccepted, Exporter!SendData, Exporter!PushReport
  <2>3. Taken' = Taken
      BY <1>0, <2>2, TakenStays
  <2> QED
      BY <1>0, <1>1, <2>1, <2>2, <2>3, OfferKeepsLink, MatchStays
<1>2. CASE ReportAccepted
  <2>1. PICK f \in InBuffer : f.meta_cnt = sending.hops /\ Loop!process_packet(f, "accepted")
      BY <1>2 DEF ReportAccepted, ProcessSending
  <2>2. PICK e : Made(f, "accepted", e)
      BY <2>1, PacketMakes
  <2>3. sending # NoReport /\ sending' = NoReport /\ nextId' = nextId
      BY <1>2 DEF ReportAccepted, Exporter!PushReport
  <2>4. Taken' = Taken \cup {sending}
      BY <1>0, <1>2, TakenGrows
  <2>5. Linked'
      BY <1>0, <2>2, <2>3, AnswerKeepsLink DEF Made
  <2>6. Matched'
      BY <1>0, <2>1, <2>2, <2>3, <2>4, AcceptedKeepsMatch
  <2> QED
      BY <2>5, <2>6
<1>3. CASE ReportDropped
  <2>1. PICK f \in InBuffer : Loop!process_packet(f, "dropped")
      BY <1>3 DEF ReportDropped, ProcessSending
  <2>2. PICK e : Made(f, "dropped", e)
      BY <2>1, PacketMakes
  <2>3. sending # NoReport /\ sending' = NoReport /\ nextId' = nextId
      BY <1>3 DEF ReportDropped, Exporter!GiveUp
  <2>4. Taken' = Taken
    <3>1. ~ReportAccepted
        BY <1>0, <1>3 DEF ReportAccepted, ReportDropped, Exporter!PushReport, Exporter!GiveUp,
           EP!IInv, EP!Types, EP!TypeOK
    <3> QED
        BY <1>0, <3>1, TakenStays
  <2> QED
      BY <1>0, <2>2, <2>3, <2>4, AnswerKeepsLink, OtherKeepsMatch DEF Made
<1>4. CASE SkipReport
  <2>1. PICK f : Loop!process_packet(f, "skipped")
      BY <1>4 DEF SkipReport, Loop!Process, Loop!ProcessBuffer, Loop!ProcessUninitialised
  <2>2. PICK e : Made(f, "skipped", e)
      BY <2>1, PacketMakes
  <2>3. UNCHANGED <<sending, nextId, rings, sent, data>>
      BY <1>4 DEF SkipReport, exporterVars
  <2>4. Taken' = Taken
      BY <2>3 DEF Taken, Exporter!Accepted
  <2> QED
      BY <1>0, <2>2, <2>3, <2>4, SkipKeepsLink, OtherKeepsMatch
<1>5. CASE ~OfferReport /\ ~ReportAccepted /\ ~ReportDropped /\ ~SkipReport
  <2>1. Taken' = Taken
      BY <1>0, <1>5, TakenStays
  <2> QED
      BY <1>0, <1>5, <2>1, OthersOfferNone, LinkStays, MatchStays
<1> QED
    BY <1>1, <1>2, <1>3, <1>4, <1>5

LEMMA MatchKept ==
    IInv /\ EP!IInv /\ LP!IInv /\ FromFrameToSender /\ [Next]_vars => FromFrameToSender'
<1> SUFFICES ASSUME IInv, EP!IInv, LP!IInv, FromFrameToSender, [Next]_vars
             PROVE  FromFrameToSender'
    OBVIOUS
<1>1. CASE UNCHANGED vars
  <2>1. UNCHANGED <<phase, opt, nextId, sending, pkt_cnt, processed, pcLoop, sent, data, rings>>
      BY <1>1 DEF vars, mainVars, loopVars, exporterVars
  <2>2. Taken' = Taken
      BY <2>1 DEF Taken, Exporter!Accepted
  <2>3. (Linked => Linked') /\ (Matched => Matched') /\ (Begun => Begun')
      BY <2>1, <2>2, LinkStays, MatchStays DEF Begun
  <2> QED
      BY <2>1, <2>3 DEF FromFrameToSender
<1>2. CASE Next /\ phase = "run"
    BY <1>2, RunKept, RunGoesOn DEF FromFrameToSender
<1>3. CASE Next /\ phase # "run"
  <2>1. UNCHANGED <<nextId, sending, pkt_cnt, processed>> /\ ~ReportAccepted /\ sending = NoReport
      BY <1>3, NotYetBegun DEF IInv
  <2>2. Taken' = Taken
      BY <1>3, <2>1, TakenStays DEF Next
  <2>3. Begun /\ Begun'
      BY <1>3, <2>1, <2>2 DEF FromFrameToSender, Begun
  <2>4. CASE phase' = "run"
    <3>1. RegisterHandler
        BY <1>3, <2>4, NotYetBegun DEF Next, Main, ParseArguments, PrepareSocket, Construct,
           LoopStep, DivideByZero, Return, ReceiveFails, Arrive, Interrupt, SenderStep, mainVars,
           RingRefuses
    <3>2. phase # "parse_arguments" /\ opt' = opt
        BY <3>1 DEF RegisterHandler
    <3>3. Linked /\ Matched
        BY <2>1, <2>3, <3>2, Running, BeginsMatched
    <3> QED
        BY <2>1, <2>2, <2>4, <3>2, <3>3, LinkStays, MatchStays DEF FromFrameToSender
  <2> QED
      BY <2>3, <2>4 DEF FromFrameToSender
<1> QED
    BY <1>1, <1>2, <1>3

LEMMA MatchInit == Init => FromFrameToSender
<1> SUFFICES ASSUME Init PROVE FromFrameToSender
    OBVIOUS
<1>1. \A s \in Exporter!Senders : Exporter!Accepted(s) = <<>>
  <2>1. \A s \in Exporter!Senders :
          Exporter!Accepted(s) = <<>> \o <<>> \o <<>>
      BY DEF Init, Exporter!Init, Exporter!Accepted, Exporter!EmptyQueue
  <2>2. <<>> \in Seq({}) /\ <<>> \o <<>> = <<>>
      BY EmptySeq, ConcatEmptySeq
  <2> QED
      BY <2>1, <2>2
<1>2. Taken = {}
    BY <1>1 DEF Taken, Range
<1> QED
    BY <1>2 DEF Init, Loop!Init, Exporter!Init, FromFrameToSender, Begun

\* The reports of the senders are those of the frames, in order, none twice:
\* from the socket the frames come from to the sockets the records go to.
THEOREM ReportsReachTheirSender == Spec => []EndToEnd
<1>1. EP!IInv /\ LP!IInv /\ FromFrameToSender => EndToEnd
  <2> SUFFICES ASSUME EP!IInv, LP!IInv, FromFrameToSender PROVE EndToEnd
      OBVIOUS
  <2>1. Accepted = {r.id : r \in Taken}
      BY DEF Accepted, Taken, Exporter!Ids, Range
  <2>2. ASSUME phase # "run" PROVE EndToEnd
    <3>1. Taken = {} /\ DOMAIN processed = {}
        BY <2>2 DEF FromFrameToSender, Begun
    <3>2. Accepted = {}
        BY <2>1, <3>1
    <3>3. ASSUME NEW s \in Exporter!Senders, NEW i \in DOMAIN Exporter!Accepted(s) PROVE FALSE
      <4>1. Exporter!Accepted(s)[i] \in Range(Exporter!Accepted(s))
          BY DEF Range
      <4> QED
          BY <3>1, <4>1 DEF Taken
    <3> QED
        BY <3>1, <3>2, <3>3 DEF EndToEnd
  <2>3. ASSUME phase = "run", ~Offers PROVE EndToEnd
    <3>1. Taken = {}
        BY <2>3 DEF FromFrameToSender, Matched
    <3>2. Accepted = {}
        BY <2>1, <3>1
    <3> QED
        BY <2>3, <3>2 DEF EndToEnd, Offers
  <2>4. ASSUME phase = "run", Offers PROVE EndToEnd
    <3>1. Matched /\ DOMAIN processed = 1 .. Len(processed)
        BY <2>4, Running DEF FromFrameToSender, InRun
    <3>2. {n \in DOMAIN processed : processed[n].outcome = "accepted"}
          = {Place(id) : id \in Accepted}
        BY <2>1, <2>4, <3>1 DEF Matched
    <3>3. ASSUME NEW s \in Exporter!Senders, NEW i \in DOMAIN Exporter!Accepted(s)
          PROVE  DOMAIN processed[Place(Exporter!Accepted(s)[i].id)].report.node_meta
                   = 0 .. Exporter!Accepted(s)[i].hops
      <4>1. Exporter!Accepted(s)[i] \in Taken
          BY DEF Taken, Range
      <4> QED
          BY <3>1, <4>1 DEF Matched
    <3>4. \A s \in Exporter!Senders : \A i, j \in DOMAIN Exporter!Accepted(s) :
            i < j => Exporter!Accepted(s)[i].id < Exporter!Accepted(s)[j].id
        BY DEF EP!IInv, EP!Ordered, EP!SentInOrder, EP!Senders, EP!Accepted, Exporter!Senders,
           Exporter!Accepted
    <3> QED
        BY <2>4, <3>2, <3>3, <3>4 DEF EndToEnd, Place, Offers
  <2> QED
      BY <2>2, <2>3, <2>4
<1>2. Init /\ [][Next]_vars /\ [](IInv /\ ProcessTypes) /\ []EP!IInv /\ []LP!IInv
        => []FromFrameToSender
    BY MatchInit, MatchKept, PTL
<1> QED
    BY <1>1, <1>2, ProcessInvariance, ExporterInvariance, LoopInvariance, PTL DEF Spec
=============================================================================
