------------------------ MODULE BridgeSessionProofs ------------------------
(***************************************************************************)
(* Proofs about BridgeSession, for any number of sessions, messages,       *)
(* helpers and relays and any buffer size.                                 *)
(***************************************************************************)
EXTENDS BridgeSession, SequenceTheorems, FiniteSetTheorems, TLAPS

LoopPCs == {"poll", "escalate", "drain", "wait", "control", "io", "local"}

(* Where the shell stands at each point of run_session, and what the loop's
   flags know of it. *)
ChildAt ==
    /\ pc \in {"accept", "first", "exited", "abort"} => child \in {"none", "reaped"}
    /\ pc = "fork" => child = "none"
    /\ pc = "early" => child \in {"running", "zombie"}
    /\ pc \in {"fork", "early"} => ~child_reaped /\ ~session_done
    /\ pc \in LoopPCs \cup {"finish", "waitpid", "close"} =>
          child # "none" /\ (child_reaped <=> child = "reaped")
    /\ pc = "waitpid" => child # "reaped"
    /\ pc = "close" => child = "reaped"
    /\ pc \in {"poll", "escalate"} => child # "reaped"
    /\ pc \in LoopPCs /\ child = "reaped" => host_disconnected
    /\ pc \in LoopPCs => (session_done <=> child = "reaped")

(* What has been sent to the shell. *)
SignalsAt ==
    /\ pc \in {"fork", "early"} => ~host_disconnected /\ clock = "off" /\ sigs = {}
                                   /\ ~sighup_sent
    /\ host_disconnected => "HUP" \in sigs /\ clock \in {"armed", "expired"}
    /\ ~host_disconnected => clock = "off" /\ ~sighup_sent
    /\ pc \in LoopPCs /\ "KILL" \in sigs => host_disconnected /\ clock = "expired"
    /\ pc = "finish" /\ child # "reaped" => g_terminate \/ pollErr

(* No exit status has gone out. *)
ExitFree == \A i \in DOMAIN toHost : toHost[i] # "exit"

(* It has not while the shell may still be running. *)
ExitAt == pc \in LoopPCs \cup {"fork", "early"} => ExitFree

IInv == ChildAt /\ SignalsAt /\ NoStrayKill /\ HangupBeforeKill

-----------------------------------------------------------------------------

(* Every step keeps the types of the flags. *)
LEMMA FlagTypesStep ==
    ASSUME FlagTypes, [Next]_vars
    PROVE  FlagTypes'
<1> USE DEF FlagTypes, PCs, loopVars, mainVars, procVars, fdVars, hostVars
<1>1. CASE Accept \/ AcceptFail
  BY <1>1 DEF Accept, AcceptFail
<1>2. ASSUME NEW l \in BOOLEAN, NEW p \in BOOLEAN, StartSession(l, p)
      PROVE  FlagTypes'
  BY <1>2 DEF StartSession
<1>3. CASE Fork
  BY <1>3 DEF Fork
<1>4. CASE ForkFail
  BY <1>4 DEF ForkFail
<1>5. CASE EarlyExit
  BY <1>5 DEF EarlyExit, SendHost
<1>6. CASE Abort
  BY <1>6 DEF Abort, BackToMain
<1>7. CASE EnterLoop
  BY <1>7 DEF EnterLoop
<1>8. CASE PollReturn
  BY <1>8 DEF PollReturn, Ready
<1>9. CASE Escalate
  BY <1>9 DEF Escalate, EscalationDue, Kill, CollectChild
<1>10. CASE DrainPipe
  BY <1>10 DEF DrainPipe
<1>11. CASE WaitChild
  BY <1>11, ZenonT(40) DEF WaitChild, CollectChild, DrainPty, ReportExit, SendHost
<1>12. CASE ControlQuiet
  BY <1>12 DEF ControlQuiet, ControlStage, NoShutdown
<1>13. CASE ControlClosed
  BY <1>13 DEF ControlClosed, ControlStage, BeginShutdown, Kill, Readable
<1>14. CASE ControlPartial
  BY <1>14 DEF ControlPartial, ControlRecv, ControlStage, NoShutdown
<1>15. CASE ControlBad
  BY <1>15 DEF ControlBad, ControlRecv, ControlStage, BeginShutdown, Kill, Readable
<1>16. CASE ControlTerminate
  BY <1>16 DEF ControlTerminate, ControlDispatch, ControlRecv, ControlStage, BeginShutdown, Kill, Readable
<1>17. CASE ControlMessage
  BY <1>17 DEF ControlMessage, ControlDispatch, ControlRecv, ControlStage, NoShutdown, SendHost
<1>18. CASE Io
  BY <1>18 DEF Io
<1>19. CASE LocalInterop
  BY <1>19 DEF LocalInterop, SendHost
<1>20. CASE Finish
  BY <1>20 DEF Finish, Kill
<1>21. CASE WaitPid
  BY <1>21 DEF WaitPid
<1>22. CASE Close
  BY <1>22 DEF Close, BackToMain
<1>23. CASE PollFail
  BY <1>23 DEF PollFail
<1>24. CASE ChildOutput
  BY <1>24 DEF ChildOutput, envUnchanged
<1>25. CASE ChildExit
  BY <1>25 DEF ChildExit, envUnchanged, SigChld
<1>26. CASE HelperExit
  BY <1>26 DEF HelperExit, envUnchanged, SigChld
<1>27. ASSUME NEW k \in Kinds, HostSend(k)
      PROVE  FlagTypes'
  BY <1>27 DEF HostSend, envUnchanged, Head1, Units
<1>28. CASE HostSendBody
  BY <1>28 DEF HostSendBody, envUnchanged, Body, Units, MidMessage
<1>29. CASE HostClose
  <2>1. /\ hostOpen' = FALSE /\ UNCHANGED <<pc, loopVars, mainVars, procVars, fdVars>>
    BY <1>29 DEF HostClose, envUnchanged
  <2> QED BY <2>1, ZenonT(40)
<1>30. CASE Deadline
  BY <1>30 DEF Deadline, envUnchanged
<1>31. CASE SigTerm
  BY <1>31 DEF SigTerm, envUnchanged
<1>32. CASE UNCHANGED vars
  BY <1>32 DEF vars
<1> QED
  BY <1>1, <1>2, <1>3, <1>4, <1>5, <1>6, <1>7, <1>8, <1>9, <1>10, <1>11,
     <1>12, <1>13, <1>14, <1>15, <1>16, <1>17, <1>18, <1>19, <1>20, <1>21,
     <1>22, <1>23, <1>24, <1>25, <1>26, <1>27, <1>28, <1>29, <1>30, <1>31,
     <1>32 DEF Next, Setup, Loop, Control, Env

(* Every step keeps the types of the two records of failed sends. *)
LEMMA FailTypesStep ==
    ASSUME FailTypes, [Next]_vars
    PROVE  FailTypes'
<1> USE DEF FailTypes, loopVars, mainVars, procVars, fdVars, hostVars
<1>1. CASE Accept \/ AcceptFail
  BY <1>1, Zenon DEF Accept, AcceptFail
<1>2. ASSUME NEW l \in BOOLEAN, NEW p \in BOOLEAN, StartSession(l, p)
      PROVE  FailTypes'
  BY <1>2, Zenon DEF StartSession
<1>3. CASE Fork
  BY <1>3, Zenon DEF Fork
<1>4. CASE ForkFail
  BY <1>4, Zenon DEF ForkFail
<1>5. CASE EarlyExit
  BY <1>5, Zenon DEF EarlyExit, SendHost
<1>6. CASE Abort
  BY <1>6, Zenon DEF Abort
<1>7. CASE EnterLoop
  BY <1>7, Zenon DEF EnterLoop
<1>8. CASE PollReturn
  BY <1>8, Zenon DEF PollReturn
<1>9. CASE Escalate
  BY <1>9, Zenon DEF Escalate
<1>10. CASE DrainPipe
  BY <1>10, Zenon DEF DrainPipe
<1>11. CASE WaitChild
  BY <1>11, Zenon DEF WaitChild, DrainPty, ReportExit, SendHost
<1>12. CASE ControlQuiet
  BY <1>12, Zenon DEF ControlQuiet, ControlStage
<1>13. CASE ControlClosed
  BY <1>13, Zenon DEF ControlClosed, ControlStage
<1>14. CASE ControlPartial
  BY <1>14, Zenon DEF ControlPartial, ControlRecv, ControlStage
<1>15. CASE ControlBad
  BY <1>15, Zenon DEF ControlBad, ControlRecv, ControlStage
<1>16. CASE ControlTerminate
  BY <1>16, Zenon DEF ControlTerminate, ControlDispatch, ControlRecv, ControlStage
<1>17. CASE ControlMessage
  BY <1>17, Zenon DEF ControlMessage, ControlDispatch, ControlRecv, ControlStage, SendHost
<1>18. CASE Io
  BY <1>18, Zenon DEF Io
<1>19. CASE LocalInterop
  BY <1>19, Zenon DEF LocalInterop, SendHost
<1>20. CASE Finish
  BY <1>20, Zenon DEF Finish
<1>21. CASE WaitPid
  BY <1>21, Zenon DEF WaitPid
<1>22. CASE Close
  BY <1>22, Zenon DEF Close
<1>23. CASE PollFail
  BY <1>23, Zenon DEF PollFail
<1>24. CASE ChildOutput
  BY <1>24, Zenon DEF ChildOutput, envUnchanged
<1>25. CASE ChildExit
  BY <1>25, Zenon DEF ChildExit, envUnchanged
<1>26. CASE HelperExit
  BY <1>26, Zenon DEF HelperExit, envUnchanged
<1>27. ASSUME NEW k \in Kinds, HostSend(k)
      PROVE  FailTypes'
  BY <1>27, Zenon DEF HostSend, envUnchanged
<1>28. CASE HostSendBody
  BY <1>28, Zenon DEF HostSendBody, envUnchanged
<1>29. CASE HostClose
  BY <1>29, Zenon DEF HostClose, envUnchanged
<1>30. CASE Deadline
  BY <1>30, Zenon DEF Deadline, envUnchanged
<1>31. CASE SigTerm
  BY <1>31, Zenon DEF SigTerm, envUnchanged
<1>32. CASE UNCHANGED vars
  BY <1>32, Zenon DEF vars
<1> QED
  BY <1>1, <1>2, <1>3, <1>4, <1>5, <1>6, <1>7, <1>8, <1>9, <1>10, <1>11,
     <1>12, <1>13, <1>14, <1>15, <1>16, <1>17, <1>18, <1>19, <1>20, <1>21,
     <1>22, <1>23, <1>24, <1>25, <1>26, <1>27, <1>28, <1>29, <1>30, <1>31,
     <1>32 DEF Next, Setup, Loop, Control, Env

(* Every step keeps the types of the shell's, pipe's and clock's states. *)
LEMMA StateTypesStep ==
    ASSUME FlagTypes, StateTypes, [Next]_vars
    PROVE  StateTypes'
<1> USE DEF FlagTypes, StateTypes, loopVars, mainVars, procVars, fdVars, hostVars
<1>1. CASE Accept \/ AcceptFail
  BY <1>1 DEF Accept, AcceptFail
<1>2. ASSUME NEW l \in BOOLEAN, NEW p \in BOOLEAN, StartSession(l, p)
      PROVE  StateTypes'
  BY <1>2 DEF StartSession
<1>3. CASE Fork
  BY <1>3 DEF Fork
<1>4. CASE ForkFail
  BY <1>4 DEF ForkFail
<1>5. CASE EarlyExit
  BY <1>5 DEF EarlyExit, SendHost
<1>6. CASE Abort
  BY <1>6 DEF Abort, BackToMain
<1>7. CASE EnterLoop
  BY <1>7 DEF EnterLoop
<1>8. CASE PollReturn
  BY <1>8 DEF PollReturn, Ready
<1>9. CASE Escalate
  BY <1>9 DEF Escalate, EscalationDue, Kill, CollectChild
<1>10. CASE DrainPipe
  BY <1>10 DEF DrainPipe
<1>11. CASE WaitChild
  BY <1>11 DEF WaitChild, CollectChild, DrainPty, ReportExit, SendHost
<1>12. CASE ControlQuiet
  BY <1>12 DEF ControlQuiet, ControlStage, NoShutdown
<1>13. CASE ControlClosed
  BY <1>13 DEF ControlClosed, ControlStage, BeginShutdown, Kill, Readable
<1>14. CASE ControlPartial
  BY <1>14 DEF ControlPartial, ControlRecv, ControlStage, NoShutdown
<1>15. CASE ControlBad
  BY <1>15 DEF ControlBad, ControlRecv, ControlStage, BeginShutdown, Kill, Readable
<1>16. CASE ControlTerminate
  BY <1>16 DEF ControlTerminate, ControlDispatch, ControlRecv, ControlStage, BeginShutdown, Kill, Readable
<1>17. CASE ControlMessage
  BY <1>17 DEF ControlMessage, ControlDispatch, ControlRecv, ControlStage, NoShutdown, SendHost
<1>18. CASE Io
  BY <1>18 DEF Io
<1>19. CASE LocalInterop
  BY <1>19 DEF LocalInterop, SendHost
<1>20. CASE Finish
  BY <1>20 DEF Finish, Kill
<1>21. CASE WaitPid
  BY <1>21 DEF WaitPid
<1>22. CASE Close
  BY <1>22 DEF Close, BackToMain
<1>23. CASE PollFail
  BY <1>23 DEF PollFail
<1>24. CASE ChildOutput
  BY <1>24 DEF ChildOutput, envUnchanged
<1>25. CASE ChildExit
  BY <1>25 DEF ChildExit, envUnchanged, SigChld
<1>26. CASE HelperExit
  BY <1>26 DEF HelperExit, envUnchanged, SigChld
<1>27. ASSUME NEW k \in Kinds, HostSend(k)
      PROVE  StateTypes'
  BY <1>27 DEF HostSend, envUnchanged, Head1, Units
<1>28. CASE HostSendBody
  BY <1>28 DEF HostSendBody, envUnchanged, Body, Units, MidMessage
<1>29. CASE HostClose
  BY <1>29 DEF HostClose, envUnchanged
<1>30. CASE Deadline
  BY <1>30 DEF Deadline, envUnchanged
<1>31. CASE SigTerm
  BY <1>31 DEF SigTerm, envUnchanged
<1>32. CASE UNCHANGED vars
  BY <1>32 DEF vars
<1> QED
  BY <1>1, <1>2, <1>3, <1>4, <1>5, <1>6, <1>7, <1>8, <1>9, <1>10, <1>11,
     <1>12, <1>13, <1>14, <1>15, <1>16, <1>17, <1>18, <1>19, <1>20, <1>21,
     <1>22, <1>23, <1>24, <1>25, <1>26, <1>27, <1>28, <1>29, <1>30, <1>31,
     <1>32 DEF Next, Setup, Loop, Control, Env

(* Every step keeps the counters within their bounds. *)
LEMMA CountTypesStep ==
    ASSUME FlagTypes, CountTypes, [Next]_vars
    PROVE  CountTypes'
<1> USE BoundsAssumption DEF FlagTypes, CountTypes, loopVars, mainVars, procVars, fdVars, hostVars
<1>1. CASE Accept \/ AcceptFail
  BY <1>1 DEF Accept, AcceptFail
<1>2. ASSUME NEW l \in BOOLEAN, NEW p \in BOOLEAN, StartSession(l, p)
      PROVE  CountTypes'
  BY <1>2 DEF StartSession
<1>3. CASE Fork
  BY <1>3 DEF Fork
<1>4. CASE ForkFail
  BY <1>4 DEF ForkFail
<1>5. CASE EarlyExit
  BY <1>5 DEF EarlyExit, SendHost
<1>6. CASE Abort
  BY <1>6 DEF Abort, BackToMain
<1>7. CASE EnterLoop
  BY <1>7 DEF EnterLoop
<1>8. CASE PollReturn
  BY <1>8 DEF PollReturn, Ready
<1>9. CASE Escalate
  BY <1>9 DEF Escalate, EscalationDue, Kill, CollectChild
<1>10. CASE DrainPipe
  BY <1>10 DEF DrainPipe
<1>11. CASE WaitChild
  BY <1>11 DEF WaitChild, CollectChild, DrainPty, ReportExit, SendHost
<1>12. CASE ControlQuiet
  BY <1>12 DEF ControlQuiet, ControlStage, NoShutdown
<1>13. CASE ControlClosed
  BY <1>13 DEF ControlClosed, ControlStage, BeginShutdown, Kill, Readable
<1>14. CASE ControlPartial
  BY <1>14 DEF ControlPartial, ControlRecv, ControlStage, NoShutdown
<1>15. CASE ControlBad
  BY <1>15 DEF ControlBad, ControlRecv, ControlStage, BeginShutdown, Kill, Readable
<1>16. CASE ControlTerminate
  BY <1>16 DEF ControlTerminate, ControlDispatch, ControlRecv, ControlStage, BeginShutdown, Kill, Readable
<1>17. CASE ControlMessage
  BY <1>17 DEF ControlMessage, ControlDispatch, ControlRecv, ControlStage, NoShutdown, SendHost
<1>18. CASE Io
  BY <1>18 DEF Io
<1>19. CASE LocalInterop
  BY <1>19 DEF LocalInterop, SendHost
<1>20. CASE Finish
  BY <1>20 DEF Finish, Kill
<1>21. CASE WaitPid
  BY <1>21 DEF WaitPid
<1>22. CASE Close
  BY <1>22 DEF Close, BackToMain
<1>23. CASE PollFail
  BY <1>23 DEF PollFail
<1>24. CASE ChildOutput
  BY <1>24 DEF ChildOutput, envUnchanged
<1>25. CASE ChildExit
  BY <1>25 DEF ChildExit, envUnchanged, SigChld
<1>26. CASE HelperExit
  BY <1>26 DEF HelperExit, envUnchanged, SigChld
<1>27. ASSUME NEW k \in Kinds, HostSend(k)
      PROVE  CountTypes'
  BY <1>27 DEF HostSend, envUnchanged, Head1, Units
<1>28. CASE HostSendBody
  BY <1>28 DEF HostSendBody, envUnchanged, Body, Units, MidMessage
<1>29. CASE HostClose
  BY <1>29 DEF HostClose, envUnchanged
<1>30. CASE Deadline
  BY <1>30 DEF Deadline, envUnchanged
<1>31. CASE SigTerm
  BY <1>31 DEF SigTerm, envUnchanged
<1>32. CASE UNCHANGED vars
  BY <1>32 DEF vars
<1> QED
  BY <1>1, <1>2, <1>3, <1>4, <1>5, <1>6, <1>7, <1>8, <1>9, <1>10, <1>11,
     <1>12, <1>13, <1>14, <1>15, <1>16, <1>17, <1>18, <1>19, <1>20, <1>21,
     <1>22, <1>23, <1>24, <1>25, <1>26, <1>27, <1>28, <1>29, <1>30, <1>31,
     <1>32 DEF Next, Setup, Loop, Control, Env

(* control_try_read and control_consume keep the types of the stream's     *)
(* three parts, and the buffer is not overrun.                             *)
LEMMA ControlTypes ==
    ASSUME StreamTypes, ControlRecv
    PROVE  /\ sock' \in Seq(Units)
           /\ Buffered \in Seq(Units) /\ Len(Buffered) <= CrCap
           /\ TryRead(Buffered) = "message" =>
                 /\ Len(Buffered) >= 2
                 /\ Consume(Buffered) \in Seq(Units)
                 /\ Len(Consume(Buffered)) <= CrCap
                 /\ handled \o SubSeq(Buffered, 1, 2) \in Seq(Units)
<1>1. RecvLen \in Nat /\ RecvLen <= Len(sock) /\ Len(cr) + RecvLen <= CrCap
  BY BoundsAssumption DEF StreamTypes, RecvLen
<1>2. SubSeq(sock, 1, RecvLen) \in Seq(Units) /\ Len(SubSeq(sock, 1, RecvLen)) = RecvLen
  BY <1>1, SubSeqProperties DEF StreamTypes
<1>3. Buffered \in Seq(Units) /\ Len(Buffered) = Len(cr) + RecvLen
  BY <1>2, ConcatProperties DEF StreamTypes, Buffered
<1>4. SubSeq(sock, RecvLen + 1, Len(sock)) \in Seq(Units)
  BY <1>1, SubSeqProperties DEF StreamTypes
<1>5. ASSUME TryRead(Buffered) = "message"
      PROVE  /\ Len(Buffered) >= 2
             /\ Consume(Buffered) \in Seq(Units)
             /\ Len(Consume(Buffered)) <= CrCap
             /\ handled \o SubSeq(Buffered, 1, 2) \in Seq(Units)
  <2>1. Len(Buffered) >= 2 /\ Len(Buffered) \in Nat
    BY <1>3, <1>5 DEF TryRead
  <2>2. /\ SubSeq(Buffered, 3, Len(Buffered)) \in Seq(Units)
        /\ Len(SubSeq(Buffered, 3, Len(Buffered))) = Len(Buffered) - 2
    BY <1>3, <2>1, SubSeqProperties
  <2>3. Consume(Buffered) \in Seq(Units) /\ Len(Consume(Buffered)) <= CrCap
    BY <1>1, <1>3, <2>1, <2>2, BoundsAssumption DEF Consume, StreamTypes
  <2>4. SubSeq(Buffered, 1, 2) \in Seq(Units)
    BY <1>3, <2>1, SubSeqProperties
  <2>5. handled \o SubSeq(Buffered, 1, 2) \in Seq(Units)
    BY <2>4, ConcatProperties DEF StreamTypes
  <2> QED
    BY <2>1, <2>3, <2>5
<1> QED
  BY <1>1, <1>3, <1>4, <1>5, BoundsAssumption DEF ControlRecv, StreamTypes

(* SendHost keeps the answers' type. *)
LEMMA SendHostType ==
    ASSUME toHost \in Seq(Answers), NEW m \in Answers, SendHost(m)
    PROVE  toHost' \in Seq(Answers)
BY DEF SendHost, Answers

(* Every step keeps the types of the streams. *)
LEMMA StreamTypesStep ==
    ASSUME StreamTypes, [Next]_vars
    PROVE  StreamTypes'
<1> USE BoundsAssumption DEF StreamTypes, loopVars, mainVars, procVars, fdVars, hostVars
<1>1. CASE Accept \/ AcceptFail
  BY <1>1 DEF Accept, AcceptFail
<1>2. ASSUME NEW l \in BOOLEAN, NEW p \in BOOLEAN, StartSession(l, p)
      PROVE  StreamTypes'
  BY <1>2 DEF StartSession
<1>3. CASE Fork
  BY <1>3 DEF Fork
<1>4. CASE ForkFail
  BY <1>4 DEF ForkFail
<1>5. CASE EarlyExit
  BY <1>5, SendHostType DEF EarlyExit, Answers
<1>6. CASE Abort
  BY <1>6 DEF Abort, BackToMain
<1>7. CASE EnterLoop
  BY <1>7 DEF EnterLoop
<1>8. CASE PollReturn
  BY <1>8 DEF PollReturn, Ready
<1>9. CASE Escalate
  BY <1>9 DEF Escalate, EscalationDue, Kill, CollectChild
<1>10. CASE DrainPipe
  BY <1>10 DEF DrainPipe
<1>11. CASE WaitChild
  BY <1>11, SendHostType DEF WaitChild, ReportExit, Answers
<1>12. CASE ControlQuiet
  BY <1>12 DEF ControlQuiet, ControlStage, NoShutdown
<1>13. CASE ControlClosed
  BY <1>13 DEF ControlClosed, ControlStage, BeginShutdown, Kill, Readable
<1>14. CASE ControlPartial
  BY <1>14, ControlTypes DEF ControlPartial, ControlRecv, ControlStage
<1>15. CASE ControlBad
  BY <1>15, ControlTypes DEF ControlBad, ControlRecv, ControlStage
<1>16. CASE ControlTerminate
  <2>1. ControlDispatch
    BY <1>16 DEF ControlTerminate
  <2>2. /\ sock' \in Seq(Units) /\ cr' \in Seq(Units) /\ Len(cr') <= CrCap
        /\ handled' \in Seq(Units) /\ sent' = sent
    BY <2>1, ControlTypes DEF ControlDispatch, ControlRecv, ControlStage
  <2>3. toHost' \in Seq(Answers)
    BY <1>16, SendHostType DEF ControlTerminate, Answers
  <2> QED
    BY <2>2, <2>3
<1>17. CASE ControlMessage
  <2>1. ControlDispatch
    BY <1>17 DEF ControlMessage
  <2>2. /\ sock' \in Seq(Units) /\ cr' \in Seq(Units) /\ Len(cr') <= CrCap
        /\ handled' \in Seq(Units) /\ sent' = sent
    BY <2>1, ControlTypes DEF ControlDispatch, ControlRecv, ControlStage
  <2>3. toHost' \in Seq(Answers)
    BY <1>17, SendHostType DEF ControlMessage, Answers
  <2> QED
    BY <2>2, <2>3
<1>18. CASE Io
  BY <1>18 DEF Io
<1>19. CASE LocalInterop
  BY <1>19, SendHostType DEF LocalInterop, Answers
<1>20. CASE Finish
  BY <1>20 DEF Finish, Kill
<1>21. CASE WaitPid
  BY <1>21 DEF WaitPid
<1>22. CASE Close
  BY <1>22 DEF Close, BackToMain
<1>23. CASE PollFail
  BY <1>23 DEF PollFail
<1>24. CASE ChildOutput
  BY <1>24 DEF ChildOutput, envUnchanged
<1>25. CASE ChildExit
  BY <1>25 DEF ChildExit, envUnchanged, SigChld
<1>26. CASE HelperExit
  BY <1>26 DEF HelperExit, envUnchanged, SigChld
<1>27. ASSUME NEW k \in Kinds, HostSend(k)
      PROVE  StreamTypes'
  BY <1>27 DEF HostSend, envUnchanged, Head1, Units
<1>28. CASE HostSendBody
  BY <1>28 DEF HostSendBody, envUnchanged, Body, Units, MidMessage
<1>29. CASE HostClose
  BY <1>29 DEF HostClose, envUnchanged
<1>30. CASE Deadline
  BY <1>30 DEF Deadline, envUnchanged
<1>31. CASE SigTerm
  BY <1>31 DEF SigTerm, envUnchanged
<1>32. CASE UNCHANGED vars
  BY <1>32 DEF vars
<1> QED
  BY <1>1, <1>2, <1>3, <1>4, <1>5, <1>6, <1>7, <1>8, <1>9, <1>10, <1>11,
     <1>12, <1>13, <1>14, <1>15, <1>16, <1>17, <1>18, <1>19, <1>20, <1>21,
     <1>22, <1>23, <1>24, <1>25, <1>26, <1>27, <1>28, <1>29, <1>30, <1>31,
     <1>32 DEF Next, Setup, Loop, Control, Env

(* The types hold in every reachable state. *)
THEOREM TypeCorrect == Spec => []TypeOK
<1>1. Init => TypeOK
  <2>1. Init => FlagTypes /\ StateTypes
    BY DEF Init, FlagTypes, StateTypes, PCs
  <2>3. Init => FailTypes
    BY Zenon DEF Init, FailTypes
  <2>2. Init => CountTypes /\ StreamTypes
    BY BoundsAssumption DEF Init, CountTypes, StreamTypes
  <2> QED
    BY <2>1, <2>2, <2>3 DEF TypeOK
<1>2. TypeOK /\ [Next]_vars => TypeOK'
  BY FlagTypesStep, FailTypesStep, StateTypesStep, CountTypesStep, StreamTypesStep DEF TypeOK
<1> QED
  BY <1>1, <1>2, PTL DEF Spec

(* Every step keeps what ChildAt says. *)
LEMMA ChildAtStep ==
    ASSUME FlagTypes, StateTypes, ChildAt, SignalsAt, [Next]_vars
    PROVE  ChildAt'
<1> USE DEF FlagTypes, StateTypes, ChildAt, LoopPCs, loopVars, mainVars, procVars, fdVars, hostVars
<1>1. CASE Accept \/ AcceptFail
  BY <1>1 DEF Accept, AcceptFail
<1>2. ASSUME NEW l \in BOOLEAN, NEW p \in BOOLEAN, StartSession(l, p)
      PROVE  ChildAt'
  BY <1>2 DEF StartSession
<1>3. CASE Fork
  BY <1>3 DEF Fork
<1>4. CASE ForkFail
  BY <1>4 DEF ForkFail
<1>5. CASE EarlyExit
  BY <1>5 DEF EarlyExit, SendHost
<1>6. CASE Abort
  BY <1>6 DEF Abort, BackToMain
<1>7. CASE EnterLoop
  BY <1>7 DEF EnterLoop
<1>8. CASE PollReturn
  BY <1>8 DEF PollReturn, Ready
<1>9. CASE Escalate
  BY <1>9 DEF Escalate, EscalationDue, Kill, CollectChild
<1>10. CASE DrainPipe
  BY <1>10 DEF DrainPipe
<1>11. CASE WaitChild
  BY <1>11 DEF WaitChild, CollectChild, DrainPty, ReportExit, SendHost
<1>12. CASE ControlQuiet
  BY <1>12 DEF ControlQuiet, ControlStage, NoShutdown
<1>13. CASE ControlClosed
  BY <1>13 DEF ControlClosed, ControlStage, BeginShutdown, Kill, Readable
<1>14. CASE ControlPartial
  BY <1>14 DEF ControlPartial, ControlRecv, ControlStage, NoShutdown
<1>15. CASE ControlBad
  BY <1>15 DEF ControlBad, ControlRecv, ControlStage, BeginShutdown, Kill, Readable
<1>16. CASE ControlTerminate
  BY <1>16 DEF ControlTerminate, ControlDispatch, ControlRecv, ControlStage, BeginShutdown, Kill, Readable
<1>17. CASE ControlMessage
  BY <1>17 DEF ControlMessage, ControlDispatch, ControlRecv, ControlStage, NoShutdown, SendHost
<1>18. CASE Io
  BY <1>18 DEF Io
<1>19. CASE LocalInterop
  BY <1>19 DEF LocalInterop, SendHost
<1>20. CASE Finish
  BY <1>20 DEF Finish, Kill
<1>21. CASE WaitPid
  BY <1>21 DEF WaitPid
<1>22. CASE Close
  BY <1>22 DEF Close, BackToMain
<1>23. CASE PollFail
  BY <1>23 DEF PollFail
<1>24. CASE ChildOutput
  BY <1>24 DEF ChildOutput, envUnchanged
<1>25. CASE ChildExit
  BY <1>25 DEF ChildExit, envUnchanged, SigChld
<1>26. CASE HelperExit
  BY <1>26 DEF HelperExit, envUnchanged, SigChld
<1>27. ASSUME NEW k \in Kinds, HostSend(k)
      PROVE  ChildAt'
  BY <1>27 DEF HostSend, envUnchanged, Head1, Units
<1>28. CASE HostSendBody
  BY <1>28 DEF HostSendBody, envUnchanged, Body, Units, MidMessage
<1>29. CASE HostClose
  BY <1>29 DEF HostClose, envUnchanged
<1>30. CASE Deadline
  BY <1>30 DEF Deadline, envUnchanged
<1>31. CASE SigTerm
  BY <1>31 DEF SigTerm, envUnchanged
<1>32. CASE UNCHANGED vars
  BY <1>32 DEF vars
<1> QED
  BY <1>1, <1>2, <1>3, <1>4, <1>5, <1>6, <1>7, <1>8, <1>9, <1>10, <1>11,
     <1>12, <1>13, <1>14, <1>15, <1>16, <1>17, <1>18, <1>19, <1>20, <1>21,
     <1>22, <1>23, <1>24, <1>25, <1>26, <1>27, <1>28, <1>29, <1>30, <1>31,
     <1>32 DEF Next, Setup, Loop, Control, Env

(* Every step keeps what SignalsAt says. *)
LEMMA SignalsAtStep ==
    ASSUME FlagTypes, StateTypes, ChildAt, SignalsAt, [Next]_vars
    PROVE  SignalsAt'
<1> USE DEF FlagTypes, StateTypes, ChildAt, SignalsAt, LoopPCs, loopVars, mainVars, procVars, fdVars, hostVars
<1>1. CASE Accept \/ AcceptFail
  BY <1>1 DEF Accept, AcceptFail
<1>2. ASSUME NEW l \in BOOLEAN, NEW p \in BOOLEAN, StartSession(l, p)
      PROVE  SignalsAt'
  BY <1>2 DEF StartSession
<1>3. CASE Fork
  BY <1>3 DEF Fork
<1>4. CASE ForkFail
  BY <1>4 DEF ForkFail
<1>5. CASE EarlyExit
  BY <1>5 DEF EarlyExit, SendHost
<1>6. CASE Abort
  BY <1>6 DEF Abort, BackToMain
<1>7. CASE EnterLoop
  BY <1>7 DEF EnterLoop
<1>8. CASE PollReturn
  BY <1>8 DEF PollReturn, Ready
<1>9. CASE Escalate
  BY <1>9 DEF Escalate, EscalationDue, Kill, CollectChild
<1>10. CASE DrainPipe
  BY <1>10 DEF DrainPipe
<1>11. CASE WaitChild
  BY <1>11 DEF WaitChild, CollectChild, DrainPty, ReportExit, SendHost
<1>12. CASE ControlQuiet
  BY <1>12 DEF ControlQuiet, ControlStage, NoShutdown
<1>13. CASE ControlClosed
  BY <1>13 DEF ControlClosed, ControlStage, BeginShutdown, Kill, Readable
<1>14. CASE ControlPartial
  BY <1>14 DEF ControlPartial, ControlRecv, ControlStage, NoShutdown
<1>15. CASE ControlBad
  BY <1>15 DEF ControlBad, ControlRecv, ControlStage, BeginShutdown, Kill, Readable
<1>16. CASE ControlTerminate
  BY <1>16 DEF ControlTerminate, ControlDispatch, ControlRecv, ControlStage, BeginShutdown, Kill, Readable
<1>17. CASE ControlMessage
  BY <1>17 DEF ControlMessage, ControlDispatch, ControlRecv, ControlStage, NoShutdown, SendHost
<1>18. CASE Io
  BY <1>18 DEF Io
<1>19. CASE LocalInterop
  BY <1>19 DEF LocalInterop, SendHost
<1>20. CASE Finish
  BY <1>20 DEF Finish, Kill
<1>21. CASE WaitPid
  BY <1>21 DEF WaitPid
<1>22. CASE Close
  BY <1>22 DEF Close, BackToMain
<1>23. CASE PollFail
  BY <1>23 DEF PollFail
<1>24. CASE ChildOutput
  BY <1>24 DEF ChildOutput, envUnchanged
<1>25. CASE ChildExit
  BY <1>25 DEF ChildExit, envUnchanged, SigChld
<1>26. CASE HelperExit
  BY <1>26 DEF HelperExit, envUnchanged, SigChld
<1>27. ASSUME NEW k \in Kinds, HostSend(k)
      PROVE  SignalsAt'
  BY <1>27 DEF HostSend, envUnchanged, Head1, Units
<1>28. CASE HostSendBody
  BY <1>28 DEF HostSendBody, envUnchanged, Body, Units, MidMessage
<1>29. CASE HostClose
  BY <1>29 DEF HostClose, envUnchanged
<1>30. CASE Deadline
  BY <1>30 DEF Deadline, envUnchanged
<1>31. CASE SigTerm
  BY <1>31 DEF SigTerm, envUnchanged
<1>32. CASE UNCHANGED vars
  BY <1>32 DEF vars
<1> QED
  BY <1>1, <1>2, <1>3, <1>4, <1>5, <1>6, <1>7, <1>8, <1>9, <1>10, <1>11,
     <1>12, <1>13, <1>14, <1>15, <1>16, <1>17, <1>18, <1>19, <1>20, <1>21,
     <1>22, <1>23, <1>24, <1>25, <1>26, <1>27, <1>28, <1>29, <1>30, <1>31,
     <1>32 DEF Next, Setup, Loop, Control, Env

(* No step sends a signal to a pid already collected. *)
LEMMA NoStrayKillStep ==
    ASSUME FlagTypes, StateTypes, ChildAt, SignalsAt, NoStrayKill, [Next]_vars
    PROVE  NoStrayKill'
<1> USE DEF FlagTypes, StateTypes, ChildAt, LoopPCs, NoStrayKill, loopVars, mainVars, procVars, fdVars, hostVars
<1>1. CASE Accept \/ AcceptFail
  BY <1>1 DEF Accept, AcceptFail
<1>2. ASSUME NEW l \in BOOLEAN, NEW p \in BOOLEAN, StartSession(l, p)
      PROVE  NoStrayKill'
  BY <1>2 DEF StartSession
<1>3. CASE Fork
  BY <1>3 DEF Fork
<1>4. CASE ForkFail
  BY <1>4 DEF ForkFail
<1>5. CASE EarlyExit
  BY <1>5 DEF EarlyExit, SendHost
<1>6. CASE Abort
  BY <1>6 DEF Abort, BackToMain
<1>7. CASE EnterLoop
  BY <1>7 DEF EnterLoop
<1>8. CASE PollReturn
  BY <1>8 DEF PollReturn, Ready
<1>9. CASE Escalate
  BY <1>9 DEF Escalate, EscalationDue, Kill, CollectChild
<1>10. CASE DrainPipe
  BY <1>10 DEF DrainPipe
<1>11. CASE WaitChild
  BY <1>11 DEF WaitChild, CollectChild, DrainPty, ReportExit, SendHost
<1>12. CASE ControlQuiet
  BY <1>12 DEF ControlQuiet, ControlStage, NoShutdown
<1>13. CASE ControlClosed
  BY <1>13 DEF ControlClosed, ControlStage, BeginShutdown, Kill, Readable
<1>14. CASE ControlPartial
  BY <1>14 DEF ControlPartial, ControlRecv, ControlStage, NoShutdown
<1>15. CASE ControlBad
  BY <1>15 DEF ControlBad, ControlRecv, ControlStage, BeginShutdown, Kill, Readable
<1>16. CASE ControlTerminate
  BY <1>16 DEF ControlTerminate, ControlDispatch, ControlRecv, ControlStage, BeginShutdown, Kill, Readable
<1>17. CASE ControlMessage
  BY <1>17 DEF ControlMessage, ControlDispatch, ControlRecv, ControlStage, NoShutdown, SendHost
<1>18. CASE Io
  BY <1>18 DEF Io
<1>19. CASE LocalInterop
  BY <1>19 DEF LocalInterop, SendHost
<1>20. CASE Finish
  BY <1>20 DEF Finish, Kill
<1>21. CASE WaitPid
  BY <1>21 DEF WaitPid
<1>22. CASE Close
  BY <1>22 DEF Close, BackToMain
<1>23. CASE PollFail
  BY <1>23 DEF PollFail
<1>24. CASE ChildOutput
  BY <1>24 DEF ChildOutput, envUnchanged
<1>25. CASE ChildExit
  BY <1>25 DEF ChildExit, envUnchanged, SigChld
<1>26. CASE HelperExit
  BY <1>26 DEF HelperExit, envUnchanged, SigChld
<1>27. ASSUME NEW k \in Kinds, HostSend(k)
      PROVE  NoStrayKill'
  BY <1>27 DEF HostSend, envUnchanged, Head1, Units
<1>28. CASE HostSendBody
  BY <1>28 DEF HostSendBody, envUnchanged, Body, Units, MidMessage
<1>29. CASE HostClose
  BY <1>29 DEF HostClose, envUnchanged
<1>30. CASE Deadline
  BY <1>30 DEF Deadline, envUnchanged
<1>31. CASE SigTerm
  BY <1>31 DEF SigTerm, envUnchanged
<1>32. CASE UNCHANGED vars
  BY <1>32 DEF vars
<1> QED
  BY <1>1, <1>2, <1>3, <1>4, <1>5, <1>6, <1>7, <1>8, <1>9, <1>10, <1>11,
     <1>12, <1>13, <1>14, <1>15, <1>16, <1>17, <1>18, <1>19, <1>20, <1>21,
     <1>22, <1>23, <1>24, <1>25, <1>26, <1>27, <1>28, <1>29, <1>30, <1>31,
     <1>32 DEF Next, Setup, Loop, Control, Env

(* No step kills a shell that still has time. *)
LEMMA HangupBeforeKillStep ==
    ASSUME FlagTypes, StateTypes, ChildAt, SignalsAt, HangupBeforeKill, [Next]_vars
    PROVE  HangupBeforeKill'
<1> USE DEF FlagTypes, StateTypes, ChildAt, SignalsAt, LoopPCs, HangupBeforeKill, loopVars, mainVars, procVars, fdVars, hostVars
<1>1. CASE Accept \/ AcceptFail
  BY <1>1 DEF Accept, AcceptFail
<1>2. ASSUME NEW l \in BOOLEAN, NEW p \in BOOLEAN, StartSession(l, p)
      PROVE  HangupBeforeKill'
  BY <1>2 DEF StartSession
<1>3. CASE Fork
  BY <1>3 DEF Fork
<1>4. CASE ForkFail
  BY <1>4 DEF ForkFail
<1>5. CASE EarlyExit
  BY <1>5 DEF EarlyExit, SendHost
<1>6. CASE Abort
  BY <1>6 DEF Abort, BackToMain
<1>7. CASE EnterLoop
  BY <1>7 DEF EnterLoop
<1>8. CASE PollReturn
  BY <1>8 DEF PollReturn, Ready
<1>9. CASE Escalate
  BY <1>9 DEF Escalate, EscalationDue, Kill, CollectChild
<1>10. CASE DrainPipe
  BY <1>10 DEF DrainPipe
<1>11. CASE WaitChild
  BY <1>11 DEF WaitChild, CollectChild, DrainPty, ReportExit, SendHost
<1>12. CASE ControlQuiet
  BY <1>12 DEF ControlQuiet, ControlStage, NoShutdown
<1>13. CASE ControlClosed
  BY <1>13 DEF ControlClosed, ControlStage, BeginShutdown, Kill, Readable
<1>14. CASE ControlPartial
  BY <1>14 DEF ControlPartial, ControlRecv, ControlStage, NoShutdown
<1>15. CASE ControlBad
  BY <1>15 DEF ControlBad, ControlRecv, ControlStage, BeginShutdown, Kill, Readable
<1>16. CASE ControlTerminate
  BY <1>16 DEF ControlTerminate, ControlDispatch, ControlRecv, ControlStage, BeginShutdown, Kill, Readable
<1>17. CASE ControlMessage
  BY <1>17 DEF ControlMessage, ControlDispatch, ControlRecv, ControlStage, NoShutdown, SendHost
<1>18. CASE Io
  BY <1>18 DEF Io
<1>19. CASE LocalInterop
  BY <1>19 DEF LocalInterop, SendHost
<1>20. CASE Finish
  BY <1>20 DEF Finish, Kill
<1>21. CASE WaitPid
  BY <1>21 DEF WaitPid
<1>22. CASE Close
  BY <1>22 DEF Close, BackToMain
<1>23. CASE PollFail
  BY <1>23 DEF PollFail
<1>24. CASE ChildOutput
  BY <1>24 DEF ChildOutput, envUnchanged
<1>25. CASE ChildExit
  BY <1>25 DEF ChildExit, envUnchanged, SigChld
<1>26. CASE HelperExit
  BY <1>26 DEF HelperExit, envUnchanged, SigChld
<1>27. ASSUME NEW k \in Kinds, HostSend(k)
      PROVE  HangupBeforeKill'
  BY <1>27 DEF HostSend, envUnchanged, Head1, Units
<1>28. CASE HostSendBody
  BY <1>28 DEF HostSendBody, envUnchanged, Body, Units, MidMessage
<1>29. CASE HostClose
  BY <1>29 DEF HostClose, envUnchanged
<1>30. CASE Deadline
  BY <1>30 DEF Deadline, envUnchanged
<1>31. CASE SigTerm
  BY <1>31 DEF SigTerm, envUnchanged
<1>32. CASE UNCHANGED vars
  BY <1>32 DEF vars
<1> QED
  BY <1>1, <1>2, <1>3, <1>4, <1>5, <1>6, <1>7, <1>8, <1>9, <1>10, <1>11,
     <1>12, <1>13, <1>14, <1>15, <1>16, <1>17, <1>18, <1>19, <1>20, <1>21,
     <1>22, <1>23, <1>24, <1>25, <1>26, <1>27, <1>28, <1>29, <1>30, <1>31,
     <1>32 DEF Next, Setup, Loop, Control, Env

(* The inductive invariant holds in every reachable state. *)
THEOREM InductiveInvariant == Spec => []IInv
<1>1. Init => IInv
  <2>1. Init => ChildAt /\ SignalsAt
    BY DEF Init, ChildAt, SignalsAt, LoopPCs
  <2>2. Init => NoStrayKill /\ HangupBeforeKill
    BY DEF Init, NoStrayKill, HangupBeforeKill
  <2> QED
    BY <2>1, <2>2 DEF IInv
<1>2. TypeOK /\ IInv /\ [Next]_vars => IInv'
  BY ChildAtStep, SignalsAtStep, NoStrayKillStep, HangupBeforeKillStep
     DEF IInv, TypeOK
<1> QED
  BY <1>1, <1>2, TypeCorrect, PTL DEF Spec

(* No signal ever goes to a pid that waitpid has already collected. *)
THEOREM StrayKillFree == Spec => []NoStrayKill
<1>1. IInv => NoStrayKill
  BY DEF IInv
<1> QED
  BY <1>1, InductiveInvariant, PTL

(* run_session returns only with its shell collected or never forked. *)
THEOREM AlwaysReaped == Spec => []ReapedOnReturn
<1>1. TypeOK /\ IInv => ReapedOnReturn
  BY DEF IInv, ChildAt, ReapedOnReturn, InSession
<1> QED
  BY <1>1, TypeCorrect, InductiveInvariant, PTL

(* SIGKILL comes only after SIGHUP and the deadline, unless the bridge is  *)
(* being stopped or its poll() failed.                                     *)
THEOREM GraceGiven == Spec => []HangupBeforeKill
<1>1. IInv => HangupBeforeKill
  BY DEF IInv
<1> QED
  BY <1>1, InductiveInvariant, PTL

-----------------------------------------------------------------------------

(* Concatenation of pieces of the stream is associative. *)
LEMMA UnitsAssoc ==
    \A a, b, c \in Seq(Units) : (a \o b) \o c = a \o (b \o c)
BY ConcatAssociative

(* One recv() moves bytes from the socket to the buffer, in order. *)
LEMMA RecvSplit ==
    ASSUME StreamTypes, ControlRecv
    PROVE  Buffered \o sock' = cr \o sock
<1>1. RecvLen \in 0..Len(sock)
  BY BoundsAssumption DEF StreamTypes, RecvLen
<1>2. SubSeq(sock, 1, RecvLen) \in Seq(Units)
  BY <1>1, SubSeqProperties DEF StreamTypes
<1>3. SubSeq(sock, RecvLen + 1, Len(sock)) \in Seq(Units)
  BY <1>1, SubSeqProperties DEF StreamTypes
<1>4. SubSeq(sock, 1, RecvLen) \o SubSeq(sock, RecvLen + 1, Len(sock)) = sock
  <2>1. Len(sock) \in Nat /\ 1 \in 1..Len(sock) + 1 /\ RecvLen \in 1 - 1..Len(sock)
        /\ Len(sock) \in RecvLen..Len(sock)
    BY <1>1 DEF StreamTypes
  <2>2. SubSeq(sock, 1, RecvLen) \o SubSeq(sock, RecvLen + 1, Len(sock))
          = SubSeq(sock, 1, Len(sock))
    BY <2>1, ConcatAdjacentSubSeq DEF StreamTypes
  <2> QED
    BY <2>2, SubSeqFull DEF StreamTypes
<1>5. Buffered \o sock' = cr \o (SubSeq(sock, 1, RecvLen)
                                    \o SubSeq(sock, RecvLen + 1, Len(sock)))
  <2>1. cr \in Seq(Units)
    BY DEF StreamTypes
  <2>2. (cr \o SubSeq(sock, 1, RecvLen)) \o SubSeq(sock, RecvLen + 1, Len(sock))
          = cr \o (SubSeq(sock, 1, RecvLen) \o SubSeq(sock, RecvLen + 1, Len(sock)))
    BY <1>2, <1>3, <2>1, UnitsAssoc, Zenon
  <2> QED
    BY <2>2 DEF ControlRecv, Buffered
<1> QED
  BY <1>4, <1>5

(* control_consume takes exactly the message that was dispatched. *)
LEMMA ConsumeSplit ==
    ASSUME NEW buf \in Seq(Units), Len(buf) >= 2
    PROVE  /\ SubSeq(buf, 1, 2) \in Seq(Units) /\ Consume(buf) \in Seq(Units)
           /\ SubSeq(buf, 1, 2) \o Consume(buf) = buf
<1>1. SubSeq(buf, 1, 2) \in Seq(Units) /\ SubSeq(buf, 3, Len(buf)) \in Seq(Units)
  BY SubSeqProperties
<1>2. Len(buf) \in Nat /\ 1 \in 1..Len(buf) + 1 /\ 2 \in 1 - 1..Len(buf)
      /\ Len(buf) \in 2..Len(buf) /\ 2 + 1 = 3
  OBVIOUS
<1>3. SubSeq(buf, 1, 2) \o SubSeq(buf, 2 + 1, Len(buf)) = SubSeq(buf, 1, Len(buf))
  BY <1>2, ConcatAdjacentSubSeq
<1> QED
  BY <1>1, <1>2, <1>3, SubSeqFull DEF Consume

(* A read that dispatches nothing keeps the stream. *)
LEMMA RecvIntact ==
    ASSUME StreamTypes, ControlStreamIntact, ControlRecv, cr' = Buffered,
           handled' = handled, sent' = sent
    PROVE  ControlStreamIntact'
<1>1. Buffered \in Seq(Units) /\ sock' \in Seq(Units)
  BY ControlTypes
<1>2. (handled \o Buffered) \o sock' = handled \o (Buffered \o sock')
  BY <1>1, UnitsAssoc, ZenonT(30) DEF StreamTypes
<1>3. (handled \o cr) \o sock = handled \o (cr \o sock)
  BY UnitsAssoc, Zenon DEF StreamTypes
<1> QED
  BY <1>2, <1>3, RecvSplit DEF ControlStreamIntact

(* A read that dispatches a message keeps the stream. *)
LEMMA DispatchIntact ==
    ASSUME StreamTypes, ControlStreamIntact, ControlDispatch
    PROVE  ControlStreamIntact'
<1> DEFINE M == SubSeq(Buffered, 1, 2)
           R == Consume(Buffered)
<1>1. ControlRecv /\ TryRead(Buffered) = "message" /\ cr' = R
      /\ handled' = handled \o M /\ sent' = sent
  BY DEF ControlDispatch, ControlRecv, ControlStage
<1>2. Buffered \in Seq(Units) /\ sock' \in Seq(Units) /\ Len(Buffered) >= 2
  BY <1>1, ControlTypes
<1>3. M \in Seq(Units) /\ R \in Seq(Units) /\ M \o R = Buffered
  BY <1>2, ConsumeSplit
<1> HIDE DEF M, R
<1>4. (handled \o M) \o R = handled \o Buffered
  BY <1>3, UnitsAssoc, Zenon DEF StreamTypes
<1>5. (handled \o Buffered) \o sock' = handled \o (Buffered \o sock')
  BY <1>2, UnitsAssoc, ZenonT(30) DEF StreamTypes
<1>6. (handled \o cr) \o sock = handled \o (cr \o sock)
  BY UnitsAssoc, Zenon DEF StreamTypes
<1> QED
  BY <1>1, <1>4, <1>5, <1>6, RecvSplit DEF ControlStreamIntact

(* What the host appends to its stream is appended to the socket. *)
LEMMA AppendIntact ==
    ASSUME StreamTypes, ControlStreamIntact, NEW u \in Units,
           sent' = Append(sent, u), sock' = Append(sock, u), cr' = cr,
           handled' = handled
    PROVE  ControlStreamIntact'
<1>1. handled \o cr \in Seq(Units) /\ <<u>> \in Seq(Units)
  BY ConcatProperties DEF StreamTypes
<1>2. Append(sock, u) = sock \o <<u>> /\ Append(sent, u) = sent \o <<u>>
  BY AppendIsConcat DEF StreamTypes
<1>3. (handled \o cr) \o (sock \o <<u>>) = ((handled \o cr) \o sock) \o <<u>>
  BY <1>1, ConcatAssociative DEF StreamTypes
<1> QED
  BY <1>2, <1>3 DEF ControlStreamIntact

(* Every step keeps the control stream intact. *)
LEMMA StreamIntactStep ==
    ASSUME StreamTypes, ControlStreamIntact, [Next]_vars
    PROVE  ControlStreamIntact'
<1> USE DEF loopVars, mainVars, procVars, fdVars, hostVars
<1>1. CASE Accept \/ AcceptFail
  BY <1>1 DEF ControlStreamIntact, Accept, AcceptFail
<1>2. ASSUME NEW l \in BOOLEAN, NEW p \in BOOLEAN, StartSession(l, p)
      PROVE  ControlStreamIntact'
  <2>1. handled' = <<>> /\ cr' = <<>> /\ sock' = <<>> /\ sent' = <<>>
    BY <1>2 DEF StartSession
  <2>2. <<>> \o <<>> = <<>>
    BY ConcatEmptySeq
  <2> QED
    BY <2>1, <2>2 DEF ControlStreamIntact
<1>3. CASE Fork
  BY <1>3 DEF ControlStreamIntact, Fork
<1>4. CASE ForkFail
  BY <1>4 DEF ControlStreamIntact, ForkFail
<1>5. CASE EarlyExit
  BY <1>5 DEF ControlStreamIntact, EarlyExit
<1>6. CASE Abort
  BY <1>6 DEF ControlStreamIntact, Abort
<1>7. CASE EnterLoop
  BY <1>7 DEF ControlStreamIntact, EnterLoop
<1>8. CASE PollReturn
  BY <1>8 DEF ControlStreamIntact, PollReturn
<1>9. CASE Escalate
  BY <1>9 DEF ControlStreamIntact, Escalate
<1>10. CASE DrainPipe
  BY <1>10 DEF ControlStreamIntact, DrainPipe
<1>11. CASE WaitChild
  BY <1>11 DEF ControlStreamIntact, WaitChild
<1>12. CASE ControlQuiet
  BY <1>12 DEF ControlStreamIntact, ControlQuiet, ControlStage
<1>13. CASE ControlClosed
  BY <1>13 DEF ControlStreamIntact, ControlClosed, ControlStage
<1>14. CASE ControlPartial
  BY <1>14, RecvIntact DEF ControlPartial, ControlRecv, ControlStage
<1>15. CASE ControlBad
  BY <1>15, RecvIntact DEF ControlBad, ControlRecv, ControlStage
<1>16. CASE ControlTerminate
  BY <1>16, DispatchIntact DEF ControlTerminate
<1>17. CASE ControlMessage
  BY <1>17, DispatchIntact DEF ControlMessage
<1>18. CASE Io
  BY <1>18 DEF ControlStreamIntact, Io
<1>19. CASE LocalInterop
  BY <1>19 DEF ControlStreamIntact, LocalInterop
<1>20. CASE Finish
  BY <1>20 DEF ControlStreamIntact, Finish
<1>21. CASE WaitPid
  BY <1>21 DEF ControlStreamIntact, WaitPid
<1>22. CASE Close
  BY <1>22 DEF ControlStreamIntact, Close
<1>23. CASE PollFail
  BY <1>23 DEF ControlStreamIntact, PollFail
<1>24. CASE ChildOutput
  BY <1>24 DEF ControlStreamIntact, ChildOutput, envUnchanged
<1>25. CASE ChildExit
  BY <1>25 DEF ControlStreamIntact, ChildExit, envUnchanged
<1>26. CASE HelperExit
  BY <1>26 DEF ControlStreamIntact, HelperExit, envUnchanged
<1>27. ASSUME NEW k \in Kinds, HostSend(k)
      PROVE  ControlStreamIntact'
  <2>1. Head1(k) \in Units
    BY DEF Head1, Units
  <2> QED
    BY <1>27, <2>1, AppendIntact DEF HostSend
<1>28. CASE HostSendBody
  <2> DEFINE u == Body(sent[Len(sent)][1])
  <2>1. u \in Units
    BY <1>28 DEF HostSendBody, MidMessage, StreamTypes, Units, Body
  <2>2. /\ sent' = Append(sent, u) /\ sock' = Append(sock, u) /\ cr' = cr
        /\ handled' = handled
    BY <1>28 DEF HostSendBody
  <2> HIDE DEF u
  <2> QED
    BY <2>1, <2>2, AppendIntact
<1>29. CASE HostClose
  BY <1>29 DEF ControlStreamIntact, HostClose, envUnchanged
<1>30. CASE Deadline
  BY <1>30 DEF ControlStreamIntact, Deadline, envUnchanged
<1>31. CASE SigTerm
  BY <1>31 DEF ControlStreamIntact, SigTerm, envUnchanged
<1>32. CASE UNCHANGED vars
  BY <1>32 DEF ControlStreamIntact, vars
<1> QED
  BY <1>1, <1>2, <1>3, <1>4, <1>5, <1>6, <1>7, <1>8, <1>9, <1>10, <1>11,
     <1>12, <1>13, <1>14, <1>15, <1>16, <1>17, <1>18, <1>19, <1>20, <1>21,
     <1>22, <1>23, <1>24, <1>25, <1>26, <1>27, <1>28, <1>29, <1>30, <1>31,
     <1>32 DEF Next, Setup, Loop, Control, Env

(* However the reads cut it, the control stream is neither lost, repeated  *)
(* nor reordered.                                                          *)
THEOREM StreamIntact == Spec => []ControlStreamIntact
<1>1. Init => ControlStreamIntact
  <2>1. <<>> \o <<>> = <<>>
    BY ConcatEmptySeq
  <2> QED
    BY <2>1 DEF Init, ControlStreamIntact
<1>2. TypeOK /\ ControlStreamIntact /\ [Next]_vars => ControlStreamIntact'
  BY StreamIntactStep DEF TypeOK
<1> QED
  BY <1>1, <1>2, TypeCorrect, PTL DEF Spec

-----------------------------------------------------------------------------

(* What an answer does to the exit statuses on the channel. *)
LEMMA SendOther ==
    ASSUME StreamTypes, ExitFree, NEW m \in Answers, m # "exit",
           toHost' = toHost \/ SendHost(m)
    PROVE  ExitFree'
<1>1. CASE toHost' = toHost
  BY <1>1 DEF ExitFree
<1>2. ASSUME NEW n \in Answers, n # "exit", toHost' = Append(toHost, n)
      PROVE  ExitFree'
  BY <1>2, AppendProperties DEF ExitFree, StreamTypes
<1> QED
  BY <1>1, <1>2 DEF SendHost, Answers

(* Reporting the exit status to a stream without one puts it last, or fails. *)
LEMMA SendExit ==
    ASSUME StreamTypes, ExitFree, toHost' = toHost \/ SendHost("exit")
    PROVE  \/ ExitFree'
           \/ /\ toHost' \in Seq(Answers)
              /\ toHost'[Len(toHost')] = "exit" /\ Len(toHost') \in DOMAIN toHost'
              /\ \A i \in DOMAIN toHost' : toHost'[i] = "exit" => i = Len(toHost')
<1>1. CASE toHost' = Append(toHost, "exit")
  <2>1. /\ toHost' \in Seq(Answers) /\ Len(toHost') = Len(toHost) + 1
        /\ \A i \in 1..Len(toHost) : toHost'[i] = toHost[i]
        /\ toHost'[Len(toHost) + 1] = "exit"
    BY <1>1, AppendProperties DEF StreamTypes, Answers
  <2>2. DOMAIN toHost = 1..Len(toHost) /\ DOMAIN toHost' = 1..Len(toHost')
        /\ Len(toHost) \in Nat
    BY <2>1 DEF StreamTypes
  <2>3. \A i \in 1..Len(toHost) : toHost'[i] # "exit"
    BY <2>1, <2>2 DEF ExitFree
  <2>4. Len(toHost') \in 1..Len(toHost')
    BY <2>1, <2>2
  <2>5. ASSUME NEW i \in 1..Len(toHost'), toHost'[i] = "exit"
        PROVE  i = Len(toHost')
    BY <2>1, <2>2, <2>3, <2>5
  <2> QED
    BY <2>1, <2>2, <2>4, <2>5
<1>2. CASE toHost' = toHost \/ SendHost("fragment")
  BY <1>2, SendOther DEF Answers
<1> QED
  BY <1>1, <1>2 DEF SendHost

(* While the shell may be running, its exit status is not on the channel.  *)
LEMMA ExitAtStep ==
    ASSUME FlagTypes, StreamTypes, ExitAt, [Next]_vars
    PROVE  ExitAt'
<1> USE DEF ExitAt, LoopPCs, loopVars, mainVars, procVars, fdVars, hostVars
<1>1. CASE Accept \/ AcceptFail
  BY <1>1 DEF ExitFree, Accept, AcceptFail
<1>2. ASSUME NEW l \in BOOLEAN, NEW p \in BOOLEAN, StartSession(l, p)
      PROVE  ExitAt'
  BY <1>2 DEF StartSession, ExitFree
<1>3. CASE Fork
  BY <1>3 DEF ExitFree, Fork
<1>4. CASE ForkFail
  BY <1>4 DEF ExitFree, ForkFail
<1>5. CASE EarlyExit
  BY <1>5 DEF EarlyExit
<1>6. CASE Abort
  BY <1>6 DEF ExitFree, Abort, BackToMain
<1>7. CASE EnterLoop
  BY <1>7 DEF ExitFree, EnterLoop
<1>8. CASE PollReturn
  BY <1>8 DEF ExitFree, PollReturn, Ready
<1>9. CASE Escalate
  BY <1>9 DEF ExitFree, Escalate, EscalationDue, Kill, CollectChild
<1>10. CASE DrainPipe
  BY <1>10 DEF ExitFree, DrainPipe
<1>11. CASE WaitChild
  BY <1>11 DEF WaitChild, CollectChild, DrainPty, ExitFree
<1>12. CASE ControlQuiet
  BY <1>12 DEF ExitFree, ControlQuiet, ControlStage, NoShutdown
<1>13. CASE ControlClosed
  BY <1>13 DEF ExitFree, ControlClosed, ControlStage, BeginShutdown, Kill, Readable
<1>14. CASE ControlPartial
  BY <1>14 DEF ExitFree, ControlPartial, ControlRecv, ControlStage, NoShutdown
<1>15. CASE ControlBad
  BY <1>15 DEF ExitFree, ControlBad, ControlRecv, ControlStage, BeginShutdown, Kill, Readable
<1>16. CASE ControlTerminate
  BY <1>16 DEF ExitFree, ControlTerminate, ControlDispatch, ControlRecv, ControlStage, BeginShutdown, Kill, Readable
<1>17. CASE ControlMessage
  <2>1. ExitFree'
    BY <1>17, SendOther DEF ControlMessage, ControlDispatch, ControlRecv, ControlStage, Answers
  <2> QED
    BY <2>1
<1>18. CASE Io
  BY <1>18 DEF ExitFree, Io
<1>19. CASE LocalInterop
  <2>1. ExitFree'
    BY <1>19, SendOther DEF LocalInterop, Answers
  <2> QED
    BY <2>1
<1>20. CASE Finish
  BY <1>20 DEF ExitFree, Finish, Kill
<1>21. CASE WaitPid
  BY <1>21 DEF ExitFree, WaitPid
<1>22. CASE Close
  BY <1>22 DEF ExitFree, Close, BackToMain
<1>23. CASE PollFail
  BY <1>23 DEF ExitFree, PollFail
<1>24. CASE ChildOutput
  BY <1>24 DEF ExitFree, ChildOutput, envUnchanged
<1>25. CASE ChildExit
  BY <1>25 DEF ExitFree, ChildExit, envUnchanged, SigChld
<1>26. CASE HelperExit
  BY <1>26 DEF ExitFree, HelperExit, envUnchanged, SigChld
<1>27. ASSUME NEW k \in Kinds, HostSend(k)
      PROVE  ExitAt'
  BY <1>27 DEF ExitFree, HostSend, envUnchanged, Head1, Units
<1>28. CASE HostSendBody
  BY <1>28 DEF ExitFree, HostSendBody, envUnchanged, Body, Units, MidMessage
<1>29. CASE HostClose
  BY <1>29 DEF ExitFree, HostClose, envUnchanged
<1>30. CASE Deadline
  BY <1>30 DEF ExitFree, Deadline, envUnchanged
<1>31. CASE SigTerm
  BY <1>31 DEF ExitFree, SigTerm, envUnchanged
<1>32. CASE UNCHANGED vars
  BY <1>32 DEF ExitFree, vars
<1> QED
  BY <1>1, <1>2, <1>3, <1>4, <1>5, <1>6, <1>7, <1>8, <1>9, <1>10, <1>11,
     <1>12, <1>13, <1>14, <1>15, <1>16, <1>17, <1>18, <1>19, <1>20, <1>21,
     <1>22, <1>23, <1>24, <1>25, <1>26, <1>27, <1>28, <1>29, <1>30, <1>31,
     <1>32 DEF Next, Setup, Loop, Control, Env

(* Every step keeps the exit status single, last and true. *)
LEMMA ExitStatusOnceStep ==
    ASSUME FlagTypes, StreamTypes, ChildAt, ExitAt, ExitStatusOnce, [Next]_vars
    PROVE  ExitStatusOnce'
<1> USE DEF ExitStatusOnce, ChildAt, LoopPCs, loopVars, mainVars, procVars, fdVars, hostVars
<1>1. CASE Accept \/ AcceptFail
  BY <1>1 DEF Accept, AcceptFail
<1>2. ASSUME NEW l \in BOOLEAN, NEW p \in BOOLEAN, StartSession(l, p)
      PROVE  ExitStatusOnce'
  BY <1>2 DEF StartSession
<1>3. CASE Fork
  BY <1>3 DEF Fork
<1>4. CASE ForkFail
  BY <1>4 DEF ForkFail
<1>5. CASE EarlyExit
  BY <1>5, SendExit DEF EarlyExit, ExitAt, ExitFree
<1>6. CASE Abort
  BY <1>6 DEF Abort, BackToMain
<1>7. CASE EnterLoop
  BY <1>7 DEF EnterLoop
<1>8. CASE PollReturn
  BY <1>8 DEF PollReturn, Ready
<1>9. CASE Escalate
  BY <1>9 DEF Escalate, EscalationDue, Kill, CollectChild
<1>10. CASE DrainPipe
  BY <1>10 DEF DrainPipe
<1>11. CASE WaitChild
  BY <1>11, SendExit DEF WaitChild, ReportExit, CollectChild, ExitAt, ExitFree, LoopPCs
<1>12. CASE ControlQuiet
  BY <1>12 DEF ControlQuiet, ControlStage, NoShutdown
<1>13. CASE ControlClosed
  BY <1>13 DEF ControlClosed, ControlStage, BeginShutdown, Kill, Readable
<1>14. CASE ControlPartial
  BY <1>14 DEF ControlPartial, ControlRecv, ControlStage, NoShutdown
<1>15. CASE ControlBad
  BY <1>15 DEF ControlBad, ControlRecv, ControlStage, BeginShutdown, Kill, Readable
<1>16. CASE ControlTerminate
  BY <1>16 DEF ControlTerminate, ControlDispatch, ControlRecv, ControlStage, BeginShutdown, Kill, Readable
<1>17. CASE ControlMessage
  <2>1. ExitFree'
    BY <1>17, SendOther DEF ControlMessage, ControlDispatch, ControlRecv, ControlStage, Answers, ExitAt, LoopPCs
  <2> QED
    BY <2>1 DEF ExitFree
<1>18. CASE Io
  BY <1>18 DEF Io
<1>19. CASE LocalInterop
  <2>1. ExitFree'
    BY <1>19, SendOther DEF LocalInterop, Answers, ExitAt, LoopPCs
  <2> QED
    BY <2>1 DEF ExitFree
<1>20. CASE Finish
  BY <1>20 DEF Finish, Kill
<1>21. CASE WaitPid
  BY <1>21 DEF WaitPid
<1>22. CASE Close
  BY <1>22 DEF Close, BackToMain
<1>23. CASE PollFail
  BY <1>23 DEF PollFail
<1>24. CASE ChildOutput
  BY <1>24 DEF ChildOutput, envUnchanged
<1>25. CASE ChildExit
  BY <1>25 DEF ChildExit, envUnchanged, SigChld
<1>26. CASE HelperExit
  BY <1>26 DEF HelperExit, envUnchanged, SigChld
<1>27. ASSUME NEW k \in Kinds, HostSend(k)
      PROVE  ExitStatusOnce'
  BY <1>27 DEF HostSend, envUnchanged, Head1, Units
<1>28. CASE HostSendBody
  BY <1>28 DEF HostSendBody, envUnchanged, Body, Units, MidMessage
<1>29. CASE HostClose
  BY <1>29 DEF HostClose, envUnchanged
<1>30. CASE Deadline
  BY <1>30 DEF Deadline, envUnchanged
<1>31. CASE SigTerm
  BY <1>31 DEF SigTerm, envUnchanged
<1>32. CASE UNCHANGED vars
  BY <1>32 DEF vars
<1> QED
  BY <1>1, <1>2, <1>3, <1>4, <1>5, <1>6, <1>7, <1>8, <1>9, <1>10, <1>11,
     <1>12, <1>13, <1>14, <1>15, <1>16, <1>17, <1>18, <1>19, <1>20, <1>21,
     <1>22, <1>23, <1>24, <1>25, <1>26, <1>27, <1>28, <1>29, <1>30, <1>31,
     <1>32 DEF Next, Setup, Loop, Control, Env

(* The host hears of the shell's end at most once, last, and only of a     *)
(* shell that has been collected.                                          *)
THEOREM ExitReportedOnce == Spec => [](ExitAt /\ ExitStatusOnce)
<1>1. Init => ExitAt /\ ExitStatusOnce
  BY DEF Init, ExitAt, ExitFree, ExitStatusOnce
<1>2. TypeOK /\ IInv /\ ExitAt /\ ExitStatusOnce /\ [Next]_vars
        => (ExitAt /\ ExitStatusOnce)'
  BY ExitAtStep, ExitStatusOnceStep DEF TypeOK, IInv
<1> QED
  BY <1>1, <1>2, TypeCorrect, InductiveInvariant, PTL DEF Spec

-----------------------------------------------------------------------------
(* The end of a session: what the host has heard and what it was sent.     *)

(* The last message of the session so far is the exit status. *)
Told == toHost # <<>> /\ toHost[Len(toHost)] = "exit"

(* A session that ends with its shell collected, and for no other reason, has
   told the host; the blocking waitpid is reached only for another reason. *)
EndAt ==
    /\ pc = "waitpid" => g_terminate \/ pollErr
    /\ (pc \in {"abort", "finish", "close", "accept", "first", "exited"}
          /\ child = "reaped" /\ ~ctlFailed /\ ~host_disconnected /\ ~g_terminate /\ ~pollErr) => Told

(* started is set when the loop is entered, and the PTY is empty when the host
   has been told. *)
OutputAt ==
    /\ pc \in {"fork", "early", "abort"} => ~started
    /\ OutputBeforeExitStatus

(* An exit status that is sent is the last message. *)
LEMMA SendTold ==
    ASSUME StreamTypes, SendHost("exit"), ~ctlFailed'
    PROVE  Told'
<1>1. toHost' = Append(toHost, "exit")
  BY DEF SendHost
<1>2. /\ toHost' \in Seq(Answers) /\ Len(toHost') = Len(toHost) + 1
      /\ toHost'[Len(toHost) + 1] = "exit" /\ Len(toHost) \in Nat
  BY <1>1, AppendProperties DEF StreamTypes, Answers
<1> QED
  BY <1>2 DEF Told

(* While no exit status is on the channel, the host has not been told. *)
LEMMA FreeUntold ==
    ASSUME StreamTypes, ExitFree
    PROVE  ~Told
<1>1. ASSUME toHost # <<>> PROVE Len(toHost) \in DOMAIN toHost
  BY <1>1, EmptySeq, LenProperties DEF StreamTypes
<1> QED
  BY <1>1 DEF Told, ExitFree

(* The same after a step. *)
LEMMA FreeUntoldNext ==
    ASSUME StreamTypes', ExitFree'
    PROVE  ~Told'
<1>1. ASSUME toHost' # <<>> PROVE Len(toHost') \in DOMAIN toHost'
  BY <1>1, EmptySeq, LenProperties DEF StreamTypes
<1> QED
  BY <1>1 DEF Told, ExitFree

(* Every way out of run_session keeps the host informed. *)
LEMMA EndAtStep ==
    ASSUME FlagTypes, StateTypes, StreamTypes, ChildAt, SignalsAt, EndAt, [Next]_vars
    PROVE  EndAt'
<1> USE DEF FlagTypes, StateTypes, ChildAt, EndAt, LoopPCs, loopVars, mainVars, procVars, fdVars, hostVars
<1>1. CASE Accept \/ AcceptFail
  BY <1>1 DEF Told, Accept, AcceptFail
<1>2. ASSUME NEW l \in BOOLEAN, NEW p \in BOOLEAN, StartSession(l, p)
      PROVE  EndAt'
  BY <1>2 DEF Told, StartSession
<1>3. CASE Fork
  BY <1>3 DEF Told, Fork
<1>4. CASE ForkFail
  BY <1>4 DEF Told, ForkFail
<1>5. CASE EarlyExit
  <2>1. ~ctlFailed' => Told'
    BY <1>5, SendTold DEF EarlyExit
  <2> QED
    BY <1>5, <2>1 DEF EarlyExit
<1>6. CASE Abort
  BY <1>6 DEF Told, Abort, BackToMain
<1>7. CASE EnterLoop
  BY <1>7 DEF Told, EnterLoop
<1>8. CASE PollReturn
  BY <1>8 DEF Told, PollReturn, Ready
<1>9. CASE Escalate
  BY <1>9 DEF Told, Escalate, EscalationDue, Kill, CollectChild
<1>10. CASE DrainPipe
  BY <1>10 DEF Told, DrainPipe
<1>11. CASE WaitChild
  <2>1. CASE child = "zombie" /\ ~host_disconnected
    <3>1. ~ctlFailed' => Told'
      BY <1>11, <2>1, SendTold DEF WaitChild, ReportExit
    <3> QED
      BY <1>11, <2>1, <3>1 DEF WaitChild
  <2>2. CASE ~(child = "zombie" /\ ~host_disconnected)
    BY <1>11, <2>2 DEF WaitChild, CollectChild
  <2> QED
    BY <2>1, <2>2
<1>12. CASE ControlQuiet
  BY <1>12 DEF Told, ControlQuiet, ControlStage, NoShutdown
<1>13. CASE ControlClosed
  BY <1>13 DEF Told, ControlClosed, ControlStage, BeginShutdown, Kill, Readable
<1>14. CASE ControlPartial
  BY <1>14 DEF Told, ControlPartial, ControlRecv, ControlStage, NoShutdown
<1>15. CASE ControlBad
  BY <1>15 DEF Told, ControlBad, ControlRecv, ControlStage, BeginShutdown, Kill, Readable
<1>16. CASE ControlTerminate
  BY <1>16 DEF Told, ControlTerminate, ControlDispatch, ControlRecv, ControlStage, BeginShutdown,
     Kill, Readable
<1>17. CASE ControlMessage
  BY <1>17 DEF Told, ControlMessage, ControlDispatch, ControlRecv, ControlStage, NoShutdown,
     SendHost
<1>18. CASE Io
  BY <1>18 DEF Told, Io
<1>19. CASE LocalInterop
  BY <1>19 DEF Told, LocalInterop, SendHost
<1>20. CASE Finish
  BY <1>20 DEF Told, Finish, Kill, SignalsAt, Told
<1>21. CASE WaitPid
  BY <1>21 DEF Told, WaitPid
<1>22. CASE Close
  BY <1>22 DEF Told, Close, BackToMain
<1>23. CASE PollFail
  BY <1>23 DEF Told, PollFail
<1>24. CASE ChildOutput
  BY <1>24 DEF Told, ChildOutput, envUnchanged
<1>25. CASE ChildExit
  BY <1>25 DEF Told, ChildExit, envUnchanged, SigChld
<1>26. CASE HelperExit
  BY <1>26 DEF Told, HelperExit, envUnchanged, SigChld
<1>27. ASSUME NEW k \in Kinds, HostSend(k)
      PROVE  EndAt'
  BY <1>27 DEF Told, HostSend, envUnchanged, Head1, Units
<1>28. CASE HostSendBody
  BY <1>28 DEF Told, HostSendBody, envUnchanged, Body, Units, MidMessage
<1>29. CASE HostClose
  BY <1>29 DEF Told, HostClose, envUnchanged
<1>30. CASE Deadline
  BY <1>30 DEF Told, Deadline, envUnchanged
<1>31. CASE SigTerm
  BY <1>31 DEF Told, SigTerm, envUnchanged
<1>32. CASE UNCHANGED vars
  BY <1>32 DEF Told, vars
<1> QED
  BY <1>1, <1>2, <1>3, <1>4, <1>5, <1>6, <1>7, <1>8, <1>9, <1>10, <1>11, <1>12,
     <1>13, <1>14, <1>15, <1>16, <1>17, <1>18, <1>19, <1>20, <1>21, <1>22,
     <1>23, <1>24, <1>25, <1>26, <1>27, <1>28, <1>29, <1>30, <1>31, <1>32 DEF
     Next, Setup, Loop, Control, Env

(* Every step keeps the exit status behind the output. *)
LEMMA OutputAtStep ==
    ASSUME FlagTypes, StateTypes, CountTypes, StreamTypes, ChildAt, ExitAt, ExitStatusOnce,
           OutputAt, StreamTypes', ExitAt', [Next]_vars
    PROVE  OutputAt'
<1>a. pc' \in LoopPCs \cup {"fork", "early"} => ~Told'
  BY FreeUntoldNext DEF ExitAt
<1>b. Told => child = "reaped"
  <2>1. ASSUME toHost # <<>> PROVE Len(toHost) \in DOMAIN toHost
    BY <2>1, EmptySeq, LenProperties DEF StreamTypes
  <2> QED
    BY <2>1 DEF Told, ExitStatusOnce
<1>c. OutputBeforeExitStatus <=> (started /\ ~outFailed /\ Told => pty = 0)
  BY DEF OutputBeforeExitStatus, Told
<1>d. OutputBeforeExitStatus' <=> (started' /\ ~outFailed' /\ Told' => pty' = 0)
  BY DEF OutputBeforeExitStatus, Told
<1> USE <1>a, <1>b, <1>c, <1>d DEF FlagTypes, StateTypes, OutputAt, LoopPCs, loopVars, mainVars, procVars, fdVars, hostVars
<1>1. CASE Accept \/ AcceptFail
  BY <1>1 DEF Told, Accept, AcceptFail
<1>2. ASSUME NEW l \in BOOLEAN, NEW p \in BOOLEAN, StartSession(l, p)
      PROVE  OutputAt'
  BY <1>2 DEF Told, StartSession
<1>3. CASE Fork
  BY <1>3 DEF Told, Fork
<1>4. CASE ForkFail
  BY <1>4 DEF Told, ForkFail
<1>5. CASE EarlyExit
  BY <1>5 DEF Told, EarlyExit, SendHost
<1>6. CASE Abort
  BY <1>6 DEF Told, Abort, BackToMain
<1>7. CASE EnterLoop
  BY <1>7 DEF Told, EnterLoop
<1>8. CASE PollReturn
  BY <1>8 DEF Told, PollReturn, Ready
<1>9. CASE Escalate
  BY <1>9 DEF Told, Escalate, EscalationDue, Kill, CollectChild
<1>10. CASE DrainPipe
  BY <1>10 DEF Told, DrainPipe
<1>11. CASE WaitChild
  <2>1. CASE child = "zombie"
    BY <1>11, <2>1, BoundsAssumption DEF WaitChild, DrainPty, CountTypes
  <2>2. CASE child # "zombie"
    BY <1>11, <2>2 DEF WaitChild
  <2> QED
    BY <2>1, <2>2
<1>12. CASE ControlQuiet
  BY <1>12 DEF Told, ControlQuiet, ControlStage, NoShutdown
<1>13. CASE ControlClosed
  BY <1>13 DEF Told, ControlClosed, ControlStage, BeginShutdown, Kill, Readable
<1>14. CASE ControlPartial
  BY <1>14 DEF Told, ControlPartial, ControlRecv, ControlStage, NoShutdown
<1>15. CASE ControlBad
  BY <1>15 DEF Told, ControlBad, ControlRecv, ControlStage, BeginShutdown, Kill, Readable
<1>16. CASE ControlTerminate
  BY <1>16 DEF Told, ControlTerminate, ControlDispatch, ControlRecv, ControlStage, BeginShutdown,
     Kill, Readable
<1>17. CASE ControlMessage
  BY <1>17 DEF Told, ControlMessage, ControlDispatch, ControlRecv, ControlStage, NoShutdown,
     SendHost
<1>18. CASE Io
  BY <1>18 DEF Told, Io
<1>19. CASE LocalInterop
  BY <1>19 DEF Told, LocalInterop, SendHost
<1>20. CASE Finish
  BY <1>20 DEF Told, Finish, Kill
<1>21. CASE WaitPid
  BY <1>21 DEF Told, WaitPid
<1>22. CASE Close
  BY <1>22 DEF Told, Close, BackToMain
<1>23. CASE PollFail
  BY <1>23 DEF Told, PollFail
<1>24. CASE ChildOutput
  BY <1>24 DEF Told, ChildOutput, envUnchanged
<1>25. CASE ChildExit
  BY <1>25 DEF Told, ChildExit, envUnchanged, SigChld
<1>26. CASE HelperExit
  BY <1>26 DEF Told, HelperExit, envUnchanged, SigChld
<1>27. ASSUME NEW k \in Kinds, HostSend(k)
      PROVE  OutputAt'
  BY <1>27 DEF Told, HostSend, envUnchanged, Head1, Units
<1>28. CASE HostSendBody
  BY <1>28 DEF Told, HostSendBody, envUnchanged, Body, Units, MidMessage
<1>29. CASE HostClose
  BY <1>29 DEF Told, HostClose, envUnchanged
<1>30. CASE Deadline
  BY <1>30 DEF Told, Deadline, envUnchanged
<1>31. CASE SigTerm
  BY <1>31 DEF Told, SigTerm, envUnchanged
<1>32. CASE UNCHANGED vars
  BY <1>32 DEF Told, vars
<1> QED
  BY <1>1, <1>2, <1>3, <1>4, <1>5, <1>6, <1>7, <1>8, <1>9, <1>10, <1>11, <1>12,
     <1>13, <1>14, <1>15, <1>16, <1>17, <1>18, <1>19, <1>20, <1>21, <1>22,
     <1>23, <1>24, <1>25, <1>26, <1>27, <1>28, <1>29, <1>30, <1>31, <1>32 DEF
     Next, Setup, Loop, Control, Env

(* A shell that ran is reported to the host, on every way out but those    *)
(* that have another reason; and the exit status follows all its output.   *)
LEMMA EndInvariant == Spec => [](EndAt /\ OutputAt)
<1>1. Init => EndAt /\ OutputAt
  BY DEF Init, EndAt, OutputAt, OutputBeforeExitStatus
<1>2. TypeOK /\ IInv /\ ExitAt /\ ExitStatusOnce /\ EndAt /\ OutputAt /\ TypeOK' /\ ExitAt'
        /\ [Next]_vars => (EndAt /\ OutputAt)'
  BY EndAtStep, OutputAtStep DEF TypeOK, IInv
<1> QED
  BY <1>1, <1>2, TypeCorrect, InductiveInvariant, ExitReportedOnce, PTL DEF Spec

(* A session whose shell has ended does not end in silence: the host has   *)
(* its exit status, unless it left, asked for the end, did not take what   *)
(* it was sent, or the bridge was told to terminate or lost its poll().    *)
THEOREM EndsReported == Spec => []NoSilentEnd
<1>1. TypeOK /\ EndAt => NoSilentEnd
  BY DEF TypeOK, FlagTypes, PCs, EndAt, NoSilentEnd, InSession, Told
<1> QED
  BY <1>1, TypeCorrect, EndInvariant, PTL

(* The PTY is empty when the exit status goes out, unless a send on stdout *)
(* failed: no output follows it.                                           *)
THEOREM OutputFirst == Spec => []OutputBeforeExitStatus
<1>1. OutputAt => OutputBeforeExitStatus
  BY DEF OutputAt
<1> QED
  BY <1>1, EndInvariant, PTL

-----------------------------------------------------------------------------
(* The refinement. *)

(* No exit status in the stream, no report: now, and after a step. *)
LEMMA NoReports ==
    ASSUME ExitFree PROVE Reports = 0
<1>1. {i \in DOMAIN toHost : toHost[i] = "exit"} = {}
  BY DEF ExitFree
<1> QED
  BY <1>1, FS_EmptySet DEF Reports

(* The same of the state after the step. *)
LEMMA NoReportsNext ==
    ASSUME ExitFree' PROVE Reports' = 0
<1>1. {i \in DOMAIN toHost' : toHost'[i] = "exit"} = {}
  BY DEF ExitFree
<1> QED
  BY <1>1, FS_EmptySet DEF Reports

(* A step from an unreported shell adds at most one report. *)
LEMMA OneReport ==
    ASSUME StreamTypes, ExitFree, toHost' = toHost \/ SendHost("exit")
    PROVE  Reports' \in 0..1
<1>1. CASE ExitFree'
  BY <1>1, NoReportsNext
<1>2. CASE ~ExitFree'
  <2>1. {i \in DOMAIN toHost' : toHost'[i] = "exit"} = {Len(toHost')}
    BY <1>2, SendExit
  <2>2. Cardinality({Len(toHost')}) = 1
    BY FS_Singleton
  <2>3. Reports' = Cardinality({Len(toHost')})
    BY <2>1, Zenon DEF Reports
  <2> QED
    BY <2>2, <2>3
<1> QED
  BY <1>1, <1>2

(* An uncollected shell has not been reported. *)
LEMMA UncollectedUnreported ==
    ASSUME ExitStatusOnce, child # "reaped" PROVE ExitFree
BY DEF ExitStatusOnce, ExitFree

(* Steps that leave the abstract state alone. *)
LEMMA Stutter ==
    ASSUME Phase' = Phase, child' = child, toHost' = toHost
    PROVE  UNCHANGED Service!vars
BY DEF Service!vars, Shell, Reports

(* So do the messages to the host that are not the exit status. *)
LEMMA Answer ==
    ASSUME Phase' = Phase, child' = child, ExitFree, ExitFree'
    PROVE  UNCHANGED Service!vars
BY NoReports, NoReportsNext DEF Service!vars, Shell

(* A shell that died is collected, and reported or not. *)
LEMMA Collecting ==
    ASSUME StreamTypes, ExitFree, Phase = "live", Phase' = "live",
           child = "zombie", child' = "reaped", toHost' = toHost \/ SendHost("exit")
    PROVE  \E n \in 0..1 : Service!Collect(n)
<1>1. Shell = "dead" /\ Shell' = "gone"
  BY DEF Shell
<1>2. Reports = 0 /\ Reports' \in 0..1
  BY NoReports, OneReport
<1>3. Service!Collect(Reports')
  BY <1>1, <1>2 DEF Service!Collect
<1> QED
  BY <1>2, <1>3

(* Every step of the bridge is a step of the abstract server or none.     *)
LEMMA ServiceStep ==
    ASSUME FlagTypes, StateTypes, StreamTypes, ChildAt, ExitAt, ExitStatusOnce, [Next]_vars
    PROVE  [Service!Next]_(Service!vars)
<1> USE DEF FlagTypes, StateTypes, ChildAt, LoopPCs, loopVars, mainVars, procVars, fdVars, hostVars
<1>33. CASE Accept
  <2>1. Phase' = Phase /\ child' = child /\ toHost' = toHost
    BY <1>33 DEF Accept, Phase
  <2> QED
    BY <2>1, Stutter
<1>1. CASE AcceptFail
  <2>1. Service!Stop
    BY <1>1 DEF AcceptFail, Service!Stop, Phase, Shell, Reports
  <2> QED
    BY <2>1 DEF Service!Next
<1>2. ASSUME NEW l \in BOOLEAN, NEW p \in BOOLEAN, StartSession(l, p)
      PROVE  [Service!Next]_(Service!vars)
  <2>1. ExitFree' /\ child' = "none" /\ pc = "first" /\ pc' = "fork"
    BY <1>2 DEF StartSession, ExitFree
  <2>2. Service!Open
    BY <2>1, NoReportsNext DEF Service!Open, Phase, Shell
  <2> QED
    BY <2>2 DEF Service!Next
<1>3. CASE Fork
  <2>1. Service!Spawn
    BY <1>3 DEF Fork, Service!Spawn, Phase, Shell, Reports
  <2> QED
    BY <2>1 DEF Service!Next
<1>4. CASE ForkFail
  <2>1. Phase' = Phase /\ child' = child /\ toHost' = toHost
    BY <1>4 DEF ForkFail, Phase
  <2> QED
    BY <2>1, Stutter
<1>5. CASE EarlyExit
  <2>1. \E n \in 0..1 : Service!Collect(n)
    BY <1>5, UncollectedUnreported, Collecting DEF EarlyExit, Phase
  <2> QED
    BY <2>1 DEF Service!Next
<1>6. CASE Abort
  <2>1. child \in {"none", "reaped"} /\ pc \notin {"accept", "first", "exited"}
        /\ pc' \in {"accept", "exited"} /\ child' = child /\ toHost' = toHost
    BY <1>6 DEF Abort, BackToMain
  <2>2. Service!End
    BY <2>1 DEF Service!End, Phase, Shell, Reports
  <2> QED
    BY <2>2 DEF Service!Next
<1>7. CASE EnterLoop
  <2>1. Phase' = Phase /\ child' = child /\ toHost' = toHost
    BY <1>7 DEF EnterLoop, Phase
  <2> QED
    BY <2>1, Stutter
<1>8. CASE PollReturn
  <2>1. Phase' = Phase /\ child' = child /\ toHost' = toHost
    BY <1>8 DEF PollReturn, Ready, Phase
  <2> QED
    BY <2>1, Stutter
<1>9. CASE Escalate
  <2>1. Phase = "live" /\ Phase' = "live" /\ toHost' = toHost
        /\ (child' = child \/ (child = "zombie" /\ child' = "reaped"))
    BY <1>9 DEF Escalate, CollectChild, Phase
  <2>2. CASE child' = child
    BY <2>1, <2>2, Stutter
  <2>3. CASE child = "zombie" /\ child' = "reaped"
    BY <2>1, <2>3, UncollectedUnreported, Collecting DEF Service!Next
  <2> QED
    BY <2>1, <2>2, <2>3
<1>10. CASE DrainPipe
  <2>1. Phase' = Phase /\ child' = child /\ toHost' = toHost
    BY <1>10 DEF DrainPipe, Phase
  <2> QED
    BY <2>1, Stutter
<1>11. CASE WaitChild
  <2>1. Phase = "live" /\ Phase' = "live"
    BY <1>11 DEF WaitChild, Phase
  <2>2. CASE child = "zombie"
    <3>1. child' = "reaped" /\ (toHost' = toHost \/ SendHost("exit"))
      BY <1>11, <2>2 DEF WaitChild, CollectChild, ReportExit
    <3> QED
      BY <2>1, <2>2, <3>1, UncollectedUnreported, Collecting DEF Service!Next
  <2>3. CASE child # "zombie"
    BY <1>11, <2>1, <2>3, Stutter DEF WaitChild
  <2> QED
    BY <2>2, <2>3
<1>12. CASE ControlQuiet
  <2>1. Phase' = Phase /\ child' = child /\ toHost' = toHost
    BY <1>12 DEF ControlQuiet, ControlStage, NoShutdown, Phase
  <2> QED
    BY <2>1, Stutter
<1>13. CASE ControlClosed
  <2>1. Phase' = Phase /\ child' = child /\ toHost' = toHost
    BY <1>13 DEF ControlClosed, ControlStage, BeginShutdown, Kill, Readable, Phase
  <2> QED
    BY <2>1, Stutter
<1>14. CASE ControlPartial
  <2>1. Phase' = Phase /\ child' = child /\ toHost' = toHost
    BY <1>14 DEF ControlPartial, ControlRecv, ControlStage, NoShutdown, Phase
  <2> QED
    BY <2>1, Stutter
<1>15. CASE ControlBad
  <2>1. Phase' = Phase /\ child' = child /\ toHost' = toHost
    BY <1>15 DEF ControlBad, ControlRecv, ControlStage, BeginShutdown, Kill, Readable, Phase
  <2> QED
    BY <2>1, Stutter
<1>16. CASE ControlTerminate
  <2>1. Phase' = Phase /\ child' = child /\ toHost' = toHost
    BY <1>16 DEF ControlTerminate, ControlDispatch, ControlRecv, ControlStage, BeginShutdown, Kill, Readable, Phase
  <2> QED
    BY <2>1, Stutter
<1>17. CASE ControlMessage
  <2>1. Phase' = Phase /\ child' = child
    BY <1>17 DEF ControlMessage, ControlDispatch, ControlRecv, ControlStage, Phase
  <2>2. ExitFree /\ ExitFree'
    BY <1>17, SendOther DEF ControlMessage, ControlDispatch, ControlRecv, ControlStage, Answers, ExitAt
  <2> QED
    BY <2>1, <2>2, Answer
<1>18. CASE Io
  <2>1. Phase' = Phase /\ child' = child /\ toHost' = toHost
    BY <1>18 DEF Io, Phase
  <2> QED
    BY <2>1, Stutter
<1>19. CASE LocalInterop
  <2>1. Phase' = Phase /\ child' = child
    BY <1>19 DEF LocalInterop, Phase
  <2>2. ExitFree /\ ExitFree'
    BY <1>19, SendOther DEF LocalInterop, Answers, ExitAt
  <2> QED
    BY <2>1, <2>2, Answer
<1>20. CASE Finish
  <2>1. Phase' = Phase /\ child' = child /\ toHost' = toHost
    BY <1>20 DEF Finish, Kill, Phase
  <2> QED
    BY <2>1, Stutter
<1>21. CASE WaitPid
  <2>1. Phase = "live" /\ Phase' = "live" /\ toHost' = toHost
        /\ child = "zombie" /\ child' = "reaped"
    BY <1>21 DEF WaitPid, Phase
  <2> QED
    BY <2>1, UncollectedUnreported, Collecting DEF Service!Next
<1>22. CASE Close
  <2>1. child \in {"none", "reaped"} /\ pc \notin {"accept", "first", "exited"}
        /\ pc' \in {"accept", "exited"} /\ child' = child /\ toHost' = toHost
    BY <1>22 DEF Close, BackToMain
  <2>2. Service!End
    BY <2>1 DEF Service!End, Phase, Shell, Reports
  <2> QED
    BY <2>2 DEF Service!Next
<1>23. CASE PollFail
  <2>1. Phase' = Phase /\ child' = child /\ toHost' = toHost
    BY <1>23 DEF PollFail, Phase
  <2> QED
    BY <2>1, Stutter
<1>24. CASE ChildOutput
  <2>1. Phase' = Phase /\ child' = child /\ toHost' = toHost
    BY <1>24 DEF ChildOutput, envUnchanged, Phase
  <2> QED
    BY <2>1, Stutter
<1>25. CASE ChildExit
  <2>1. child = "running" /\ child' = "zombie" /\ pc' = pc /\ toHost' = toHost
        /\ pc \notin {"accept", "first", "exited"}
    BY <1>25 DEF ChildExit, envUnchanged
  <2>2. Service!Die
    BY <2>1 DEF Service!Die, Phase, Shell, Reports
  <2> QED
    BY <2>2 DEF Service!Next
<1>26. CASE HelperExit
  <2>1. Phase' = Phase /\ child' = child /\ toHost' = toHost
    BY <1>26 DEF HelperExit, envUnchanged, SigChld, Phase
  <2> QED
    BY <2>1, Stutter
<1>27. ASSUME NEW k \in Kinds, HostSend(k)
      PROVE  [Service!Next]_(Service!vars)
  <2>1. Phase' = Phase /\ child' = child /\ toHost' = toHost
    BY <1>27 DEF HostSend, envUnchanged, Head1, Units, Phase
  <2> QED
    BY <2>1, Stutter
<1>28. CASE HostSendBody
  <2>1. Phase' = Phase /\ child' = child /\ toHost' = toHost
    BY <1>28 DEF HostSendBody, envUnchanged, Body, Units, MidMessage, Phase
  <2> QED
    BY <2>1, Stutter
<1>29. CASE HostClose
  <2>1. Phase' = Phase /\ child' = child /\ toHost' = toHost
    BY <1>29 DEF HostClose, envUnchanged, Phase
  <2> QED
    BY <2>1, Stutter
<1>30. CASE Deadline
  <2>1. Phase' = Phase /\ child' = child /\ toHost' = toHost
    BY <1>30 DEF Deadline, envUnchanged, Phase
  <2> QED
    BY <2>1, Stutter
<1>31. CASE SigTerm
  <2>1. Phase' = Phase /\ child' = child /\ toHost' = toHost
    BY <1>31 DEF SigTerm, envUnchanged, Phase
  <2> QED
    BY <2>1, Stutter
<1>32. CASE UNCHANGED vars
  BY <1>32, Stutter DEF vars, Phase
<1> QED
  BY <1>1, <1>2, <1>3, <1>4, <1>5, <1>6, <1>7, <1>8, <1>9, <1>10, <1>11,
     <1>12, <1>13, <1>14, <1>15, <1>16, <1>17, <1>18, <1>19, <1>20, <1>21,
     <1>22, <1>23, <1>24, <1>25, <1>26, <1>27, <1>28, <1>29, <1>30, <1>31,
     <1>32, <1>33 DEF Next, Setup, Loop, Control, Env

(* The bridge implements the abstract session server. *)
THEOREM Refinement == Spec => ImplementsService
<1>1. Init => Service!Init
  <2>1. Init => ExitFree
    BY DEF Init, ExitFree
  <2> QED
    BY <2>1, NoReports DEF Init, Service!Init, Phase, Shell
<1>2. TypeOK /\ IInv /\ ExitAt /\ ExitStatusOnce /\ [Next]_vars
        => [Service!Next]_(Service!vars)
  BY ServiceStep DEF TypeOK, IInv
<1> QED
  BY <1>1, <1>2, TypeCorrect, InductiveInvariant, ExitReportedOnce, PTL
     DEF Spec, ImplementsService, Service!Spec

=============================================================================
