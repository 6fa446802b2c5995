----------------------------- MODULE Collector ------------------------------
(***************************************************************************)
(* The collector's process: main of p4int.cc from its command line to its  *)
(* end, composed of the packet loop (P4Int) and of the exporter with its   *)
(* sender threads (IntExporter).  The two share the options and pkt_drop;  *)
(* a step of sendData that ends the call is a step of both.                *)
(***************************************************************************)
EXTENDS Options, FiniteSets

CONSTANTS
    Starts,       \* command lines, each with what the memory of opt holds then
    Wrap, Cut, Frames, MAX_NODES, SocketRoom, MaxFrames, MaxFailures, NoFrame,
    Capacity, MaxSenders, PopThreshold, DatagramRecords, MaxReports, NoReport

Opts ==
    [hostValid : BOOLEAN, batch : Nat, tstmp : BOOLEAN, smpl_rate : Nat,
     raw_buffer : 0 .. MaxSenders, protocol : STRING, port : Nat]

\* Letters and types of the arguments are those of getopt, and there are no more
\* senders than the bound; the memory of port is a uint16_t; every packet the loop
\* may process has a number for its report.
ASSUME ProcessAssumption ==
    /\ MaxFrames + MaxFailures <= MaxReports
    /\ \A start \in Starts :
        /\ start.argv \in Seq(Range(start.argv))
        /\ start.opt.port \in 0 .. UShort - 1
        /\ parse_arguments(start.opt, start.argv).opt \in Opts

VARIABLES
    argv,       \* the command line
    stale,      \* what the memory of opt held
    phase,      \* what main does next; "run" from the exporter's constructor on
    status,     \* how the process ended
    signalled,  \* history: whether a SIGINT was sent
    opt, pkt_drop,
    \* of the packet loop
    socket, arrived, failed, stop, pcLoop, buffer, flow_map, prev_timestamps,
    pkt_cnt, processed,
    \* of the exporter
    process, started, nextId, m_rr_index, sending, attempt, rings, pcSender,
    data, it, flush, refused, sent, unnoticed

mainVars == <<argv, stale, phase, status, signalled>>
loopVars ==
    <<socket, arrived, failed, stop, pcLoop, buffer, flow_map, prev_timestamps,
      pkt_cnt, processed>>
exporterVars ==
    <<process, started, nextId, m_rr_index, sending, attempt, rings, pcSender,
      data, it, flush, refused, sent, unnoticed>>
vars == <<mainVars, opt, pkt_drop, loopVars, exporterVars>>

Loop == INSTANCE P4Int WITH Options <- Opts, pc <- pcLoop

Exporter == INSTANCE IntExporter
    WITH Options <- Opts, pc <- pcSender, HopCounts <- {f.meta_cnt : f \in Frames}

\* The frames, clocks and sizes are as the two modules assume.
ASSUME InstanceAssumption ==
    /\ Loop!TelemetryAssumption /\ Loop!CollectorAssumption
    /\ Exporter!CapacityAssumption /\ Exporter!ExporterAssumption

Init ==
    /\ \E start \in Starts : argv = start.argv /\ stale = start.opt
    /\ phase = "parse_arguments"
    /\ status = "none"
    /\ signalled = FALSE
    /\ opt = stale
    /\ Loop!Init
    /\ Exporter!Init

-----------------------------------------------------------------------------
(* main, up to the constructor of the exporter. *)

End(result) ==
    /\ process' = "exited"
    /\ status' = result
    /\ UNCHANGED <<started, nextId, m_rr_index, sending, attempt, rings, pcSender,
                   data, it, flush, refused, sent, unnoticed>>

ParseArguments ==
    /\ phase = "parse_arguments"
    /\ LET parsed == parse_arguments(opt, argv)
       IN  /\ opt' = parsed.opt
           /\ IF parsed.ret = "RET_OK"
              THEN phase' = "prepare_socket" /\ UNCHANGED <<status, exporterVars>>
              ELSE End(parsed.ret) /\ UNCHANGED phase
    /\ UNCHANGED <<argv, stale, signalled, pkt_drop, loopVars>>

\* socket or bind may fail: no privilege, or no such device.
PrepareSocket ==
    /\ phase = "prepare_socket"
    /\ \/ phase' = "signal" /\ UNCHANGED <<status, exporterVars>>
       \/ End("RET_ERR") /\ UNCHANGED phase
    /\ UNCHANGED <<argv, stale, signalled, opt, pkt_drop, loopVars>>

\* From here on SIGINT is setup_stop's, unless signal answers SIG_ERR.
RegisterHandler ==
    /\ phase = "signal"
    /\ \/ phase' = "run" /\ UNCHANGED <<status, exporterVars>>
       \/ End("RET_ERR") /\ UNCHANGED phase
    /\ UNCHANGED <<argv, stale, signalled, opt, pkt_drop, loopVars>>

-----------------------------------------------------------------------------
(* The constructor and the packet loop. *)

Construct ==
    /\ phase = "run"
    /\ Exporter!Construct
    /\ UNCHANGED <<mainVars, loopVars>>

\* The steps of loop_proccess outside process_packet.
LoopStep ==
    /\ phase = "run"
    /\ started = opt.raw_buffer
    /\ Loop!CheckStop \/ Loop!Receive
    /\ UNCHANGED <<mainVars, exporterVars>>

ReceiveFails ==
    /\ phase = "run"
    /\ started = opt.raw_buffer
    /\ Loop!ReceiveFails
    /\ UNCHANGED <<mainVars, exporterVars>>

DivideByZero ==
    /\ sending = NoReport
    /\ Loop!DivideByZero
    /\ process' = "terminated"
    /\ UNCHANGED <<mainVars, started, nextId, m_rr_index, sending, attempt, rings,
                   pcSender, data, it, flush, refused, sent, unnoticed>>

\* A packet whose report is not offered to the exporter.
SkipReport ==
    /\ Loop!Process("skipped")
    /\ UNCHANGED <<mainVars, exporterVars>>

\* The frames the buffer may be taken for.
InBuffer == IF buffer = NoFrame THEN Frames ELSE {buffer}

\* report_to_influx calls sendData; nobody looks at the memory of the loop
\* before the call returns, so its update is put there.
OfferReport ==
    /\ pcLoop = "process"
    /\ ~Loop!Divides0 /\ Loop!Sampled
    /\ \E f \in InBuffer : Exporter!SendData(f.meta_cnt)
    /\ UNCHANGED <<mainVars, loopVars>>

ProcessSending(outcome) ==
    \E f \in InBuffer : f.meta_cnt = sending.hops /\ Loop!process_packet(f, outcome)

ReportAccepted ==
    /\ Exporter!PushReport
    /\ ProcessSending("accepted")
    /\ UNCHANGED mainVars

RingRefuses ==
    /\ Exporter!PushRefused
    /\ UNCHANGED <<mainVars, loopVars>>

\* Mutant: a dropped report ends the loop, as the lines commented out in
\* report_to_influx would.
ReportDroppedEnds ==
    /\ Exporter!GiveUp
    /\ pcLoop' = "exited"
    /\ UNCHANGED <<mainVars, socket, arrived, failed, stop, buffer, flow_map,
                   prev_timestamps, pkt_cnt, processed>>

ReportDropped ==
    /\ Exporter!GiveUp
    /\ ProcessSending("dropped")
    /\ UNCHANGED mainVars

\* The loop is left and main returns.
Return ==
    /\ pcLoop = "exited"
    /\ Exporter!Exit
    /\ status' = "RET_OK"
    /\ UNCHANGED <<argv, stale, phase, signalled, loopVars>>

-----------------------------------------------------------------------------
(* The environment and the other threads. *)

\* The socket takes frames from the moment it is open.
Arrive ==
    /\ phase \in {"signal", "run"}
    /\ \E f \in Frames : Loop!Arrive(f)
    /\ UNCHANGED <<mainVars, exporterVars>>

\* Mutant: the signal also ends the call of sendData that is running.
InterruptAbandons ==
    /\ phase = "run"
    /\ signalled' = TRUE
    /\ Loop!setup_stop
    /\ sending' = NoReport
    /\ UNCHANGED <<argv, stale, phase, status, process, started, nextId, m_rr_index, attempt,
                   rings, pcSender, data, it, flush, refused, sent, unnoticed>>

\* Without the handler SIGINT kills the process.
Interrupt ==
    /\ signalled' = TRUE
    /\ IF phase = "run"
       THEN Loop!setup_stop /\ UNCHANGED <<status, exporterVars>>
       ELSE /\ process' = "terminated"
            /\ status' = "SIGINT"
            /\ UNCHANGED <<opt, pkt_drop, loopVars, started, nextId, m_rr_index, sending,
                           attempt, rings, pcSender, data, it, flush, refused, sent, unnoticed>>
    /\ UNCHANGED <<argv, stale, phase>>

SenderStep ==
    /\ \E s \in Exporter!Senders : Exporter!Sender(s) \/ Exporter!Visible(s)
    /\ UNCHANGED <<mainVars, loopVars>>

-----------------------------------------------------------------------------
Main ==
    \/ ParseArguments \/ PrepareSocket \/ RegisterHandler
    \/ Construct \/ LoopStep \/ DivideByZero \/ SkipReport
    \/ OfferReport \/ ReportAccepted \/ RingRefuses \/ ReportDropped \/ Return

Next ==
    /\ process = "up"
    /\ Main \/ ReceiveFails \/ Arrive \/ Interrupt \/ SenderStep

\* The main thread runs, recvfrom returns once a frame is there.  The senders
\* owe nothing: the database may never answer.
Spec == Init /\ [][Next]_vars /\ WF_vars(process = "up" /\ Main)

-----------------------------------------------------------------------------
\* For the packet loop the exporter is what P4Int takes it for: a sendData that
\* answers yes or no.  P4Int begins with the options the command line leads to.
OptAhead == IF phase = "parse_arguments" THEN parse_arguments(stale, argv).opt ELSE opt

LoopAlone == INSTANCE P4Int WITH Options <- Opts, pc <- pcLoop, opt <- OptAhead

ImplementsLoop == LoopAlone!Spec

\* For the exporter the packet loop is what IntExporter takes it for: a thread
\* that constructs it and then calls sendData for one report after another.  An
\* end of the process that is not the exporter's looks to it like no more calls.
EndsOutside == phase # "run" \/ pcLoop = "terminated"

ExporterAlone == INSTANCE IntExporter
    WITH Options <- Opts, pc <- pcSender, HopCounts <- {f.meta_cnt : f \in Frames},
         opt <- OptAhead, process <- IF EndsOutside THEN "up" ELSE process

ImplementsExporter == ExporterAlone!Spec

TypeOK ==
    /\ \E start \in Starts : argv = start.argv /\ stale = start.opt
    /\ phase \in {"parse_arguments", "prepare_socket", "signal", "run"}
    /\ status \in {"none", "exit 0", "RET_ERR", "RET_OK", "SIGINT"}
    /\ signalled \in BOOLEAN
    /\ process \in {"up", "exited", "terminated"}
    /\ opt \in {stale, OptAhead}
    /\ LoopAlone!TypeOK
    /\ ExporterAlone!TypeOK

\* The value of the last argument with that letter, or what there is without.
Given(letter, without) ==
    LET given == {i \in DOMAIN argv : argv[i].letter = letter}
    IN  IF given = {} THEN without ELSE argv[Max(given)].value

\* A field of so many values holds the number, if it has room for it.
Holds(field, number, values) == number \in 0 .. values - 1 => field = number

\* main goes on with the numbers of the command line that the fields have room
\* for, and with its strings and flags: of an option given twice the last, of
\* one not given the default, and none changed by another.  It does not go on
\* past -h or an option it does not know, and a command line is refused for
\* nothing but such an option or a number beyond 64 bits.  (Of a port between
\* 16 and 64 bits, which is neither refused nor kept, nothing is said.)
OptionsAsGiven ==
    /\ phase # "parse_arguments" =>
        /\ opt.hostValid = (\E i \in DOMAIN argv : argv[i].letter = "c")
        /\ opt.tstmp = (\E i \in DOMAIN argv : argv[i].letter = "t")
        /\ opt.protocol = Given("r", stale.protocol)
        /\ Holds(opt.batch, Given("b", 1000), UInt)
        /\ Holds(opt.smpl_rate, Given("m", 1), UInt)
        /\ Holds(opt.raw_buffer, Given("i", 1), UInt)
        /\ Holds(opt.port, Given("p", stale.port), UShort)
        /\ \A i \in DOMAIN argv : argv[i].letter \notin {"h", "?"}
    /\ (phase = "parse_arguments" /\ status = "RET_ERR") =>
        \E i \in DOMAIN argv : argv[i].letter = "?" \/ OutOfRange(argv[i])

Accepted == UNION {Exporter!Ids(Exporter!Accepted(s)) : s \in Exporter!Senders}

\* What the senders have sent, hold or have still to pop are exactly the
\* reports whose sendData succeeded, once each, and with the hops the packet
\* loop found: the n-th report offered is that of packet (n-1) * smpl_rate.
EndToEnd ==
    IF opt.hostValid /\ opt.smpl_rate > 0
    THEN LET of(id) == processed[(id - 1) * opt.smpl_rate + 1]
         IN  /\ {n \in DOMAIN processed : processed[n].outcome = "accepted"}
                   = {(id - 1) * opt.smpl_rate + 1 : id \in Accepted}
             /\ \A s \in Exporter!Senders : \A i, j \in DOMAIN Exporter!Accepted(s) :
                  LET r == Exporter!Accepted(s)[i]
                  IN  /\ DOMAIN of(r.id).report.node_meta = 0 .. r.hops
                      /\ i < j => r.id < Exporter!Accepted(s)[j].id
    ELSE Accepted = {}

\* The detached senders end with the process, and reports that were accepted
\* and counted as such are gone.  Over HTTP these are, per sender, no more than
\* a full ring and one batch, in which each report is two records at least.
LossAtExit ==
    (phase = "run" /\ Exporter!IsHttp) => \A s \in Exporter!Senders :
        Len(Exporter!Accepted(s)) - Len(sent[s]) <= Capacity + Max({opt.batch - 1, 0}) \div 2 + 1

\* SIGINT ends the process, whenever it comes, with the next frame at the
\* latest: before the handler is registered by killing it, afterwards through
\* the flag, through the rest of the constructor and a running sendData, and
\* also when no sender thread moves because the database does not answer.
SignalEnds ==
    (signalled /\ socket # <<>>) ~> process # "up"
=============================================================================
