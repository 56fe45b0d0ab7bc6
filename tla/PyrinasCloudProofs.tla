------------------------- MODULE PyrinasCloudProofs -------------------------
(***************************************************************************)
(* Invariants of PyrinasCloud for every set of versions, messages, ids and *)
(* environment events.  Each is proved from an inductive strengthening     *)
(* that is itself a definition of this module, so that TLC can check it.   *)
(***************************************************************************)
EXTENDS PyrinasCloud, SharedProofs, TLAPS

(* The types, and that no work item is pending twice on main_tasks_q.      *)
Typed == TypeOK /\ Once(queue)

(* The reset state is typed. *)
LEMMA RebootTypes ==
  ASSUME Typed, Reboot
  PROVE  Typed'
<1>1. queue' \in Seq(Works) /\ down' \in Seq(Packets) /\ Once(queue')
  BY DEF Reboot, BootImage, Once
<1>2. OtaTypes' /\ ThreadTypes' /\ WorkTypes'
  BY <1>1 DEF Reboot, BootImage, OtaTypes, ThreadTypes, WorkTypes
<1>3. SessionTypes'
  BY <1>1 DEF Reboot, BootImage, SessionTypes
<1>4. ElsewhereTypes'
  BY DEF Reboot, BootImage, Typed, TypeOK, ElsewhereTypes
<1> QED BY <1>1, <1>2, <1>3, <1>4 DEF Typed, TypeOK

(* So is a closed connection. *)
LEMMA ConnectionLostTypes ==
  ASSUME NEW q \in Seq(Works), Once(q), NEW a \in SUBSET DelayedWorks,
         ConnectionLost(q, a)
  PROVE  WorkTypes' /\ SessionTypes' /\ Once(queue')
<1>1. queue' \in Seq(Works) /\ Once(queue') /\ armed' \subseteq DelayedWorks
  BY CancelFacts DEF ConnectionLost, ClientIdle, RetryLater, DelayedWorks
<1>2. <<>> \in Seq(Packets)
  OBVIOUS
<1>3. SessionTypes'
  BY <1>2 DEF ConnectionLost, ClientIdle, RetryLater, SessionTypes
<1> QED BY <1>1, <1>3 DEF WorkTypes

(* And what a call that writes to the connection leaves. *)
LEMMA SendTypes ==
  ASSUME Typed, NEW q \in Seq(Works), Once(q), NEW a \in SUBSET DelayedWorks,
         NEW s \in SUBSET {"ota", "app"}, NEW p \in Seq(Packets), Send(q, a, s, p)
  PROVE  WorkTypes' /\ SessionTypes' /\ Once(queue')
<1>1. CASE ConnectionLost(q, a)
  BY <1>1, ConnectionLostTypes
<1>2. CASE queue' = q /\ armed' = a /\ UNCHANGED sessionVars
  BY <1>2 DEF Typed, TypeOK, WorkTypes, SessionTypes, sessionVars, clientVars
<1>3. CASE /\ subs' = subs \cup s
           /\ down' = down \o p
           /\ queue' = q /\ armed' = a
           /\ UNCHANGED <<clientVars, polled>>
  <2>1. down' \in Seq(Packets) /\ subs' \subseteq {"ota", "app"}
    BY <1>3 DEF Typed, TypeOK, SessionTypes
  <2> QED BY <1>3, <2>1 DEF Typed, TypeOK, WorkTypes, SessionTypes, clientVars
<1> QED BY <1>1, <1>2, <1>3 DEF Send

LEMMA SubscribeTypes ==
  ASSUME Typed, NEW q \in Seq(Works), Once(q), NEW a \in SUBSET DelayedWorks,
         NEW topic \in {"ota", "app"}, NEW id \in Ids, Subscribe(q, a, topic, id)
  PROVE  WorkTypes' /\ SessionTypes' /\ Once(queue')
<1>1. <<>> \in Seq(Packets) /\ <<[type |-> "suback", id |-> id]>> \in Seq(Packets)
  BY DEF Packets
<1>2. CASE Send(q, a, {}, <<>>)
  BY <1>1, <1>2, SendTypes
<1>3. CASE Send(q, a, {topic}, <<[type |-> "suback", id |-> id]>>)
  BY <1>1, <1>3, SendTypes
<1> QED BY <1>2, <1>3 DEF Subscribe

(* Every step keeps the types. *)
LEMMA TypedStep == Typed /\ [Next]_vars => Typed'
<1> SUFFICES ASSUME Typed, [Next]_vars
             PROVE  Typed'
  OBVIOUS
<1> USE DEF mainVars, otaVars, localVars, threadVars, workVars, clientVars,
            sessionVars, flashVars, elsewhere
<1>w. /\ queue \in Seq(Works) /\ Once(queue) /\ armed \in SUBSET DelayedWorks
      /\ down \in Seq(Packets)
  BY DEF Typed, TypeOK, WorkTypes, SessionTypes
<1>t. queue # <<>> => Tail(queue) \in Seq(Works) /\ Once(Tail(queue))
  BY <1>w, TailFacts
<1>d. down # <<>> => Tail(down) \in Seq(Packets) /\ Head(down) \in Packets
  BY <1>w
<1>e. <<>> \in Seq(Packets) /\ {} \in SUBSET {"ota", "app"}
  OBVIOUS
<1>c. <<[type |-> "connack"]>> \in Seq(Packets) /\ <<[type |-> "refused"]>> \in Seq(Packets)
  BY DEF Packets
<1>p. Receives("publish") => Head(down).message \in OtaMessage
  BY <1>d, CloudAssumption DEF Receives, Packets
<1>m. \A m \in OtaMessages : Append(down, [type |-> "publish", message |-> m]) \in Seq(Packets)
  BY <1>w DEF Packets
<1>1. CASE MainConnected
  <2>1. WorkTypes' /\ SessionTypes' /\ Once(queue')
    BY <1>1, <1>c DEF MainConnected, ConnectSucceeds, Woken, Typed, TypeOK, WorkTypes,
                      SessionTypes
  <2>2. OtaTypes' /\ ThreadTypes' /\ ElsewhereTypes'
    BY <1>1 DEF MainConnected, ConnectSucceeds, Woken, Typed, TypeOK, OtaTypes,
                ThreadTypes, ElsewhereTypes
  <2> QED BY <2>1, <2>2 DEF Typed, TypeOK
<1>2. CASE MainConnectFails
  BY <1>2, RebootTypes DEF MainConnectFails
<1>3. CASE MainProceeds
  <2>1. WorkTypes' /\ SessionTypes' /\ Once(queue')
    BY <1>3 DEF MainProceeds, Typed, TypeOK, WorkTypes, SessionTypes
  <2>2. OtaTypes' /\ ThreadTypes'
    BY <1>3 DEF MainProceeds, Typed, TypeOK, OtaTypes, ThreadTypes
  <2>3. ElsewhereTypes'
    BY <1>3 DEF MainProceeds, Typed, TypeOK, ElsewhereTypes
  <2> QED BY <2>1, <2>2, <2>3 DEF Typed, TypeOK
<1>4. CASE AppPublishes
  <2>1. WorkTypes' /\ SessionTypes' /\ Once(queue')
    BY <1>4, <1>w, <1>e, SendTypes DEF AppPublishes
  <2>2. OtaTypes' /\ ThreadTypes' /\ ElsewhereTypes'
    BY <1>4 DEF AppPublishes, Typed, TypeOK, OtaTypes, ThreadTypes,
                ElsewhereTypes
  <2> QED BY <2>1, <2>2 DEF Typed, TypeOK
<1>5. CASE AppDisconnects
  <2>1. WorkTypes' /\ SessionTypes' /\ Once(queue')
    BY <1>5, <1>w, ConnectionLostTypes DEF AppDisconnects
  <2>2. OtaTypes' /\ ThreadTypes' /\ ElsewhereTypes'
    BY <1>5 DEF AppDisconnects, Typed, TypeOK, OtaTypes, ThreadTypes,
                ElsewhereTypes
  <2> QED BY <2>1, <2>2 DEF Typed, TypeOK
<1>6. CASE OnConnect
  <2>1. ota_sub_message_id' \in Nat
    BY <1>6, CloudAssumption DEF OnConnect, Typed, TypeOK, OtaTypes
  <2>2. WorkTypes' /\ SessionTypes' /\ Once(queue')
    BY <1>6, <1>w, <1>t, <1>e, SendTypes, SubscribeTypes DEF OnConnect, Runs
  <2>3. OtaTypes' /\ ThreadTypes' /\ ElsewhereTypes'
    BY <1>6, <2>1 DEF OnConnect, Typed, TypeOK, OtaTypes, ThreadTypes,
                      ElsewhereTypes
  <2> QED BY <2>1, <2>2, <2>3 DEF Typed, TypeOK
<1>7. CASE OtaRequest
  <2>1. WorkTypes' /\ SessionTypes' /\ Once(queue')
    BY <1>7, <1>w, <1>t, <1>e, SendTypes DEF OtaRequest, Runs
  <2>2. OtaTypes' /\ ThreadTypes' /\ ElsewhereTypes'
    BY <1>7 DEF OtaRequest, Delivered, Typed, TypeOK, OtaTypes, ThreadTypes,
                ElsewhereTypes
  <2> QED BY <2>1, <2>2 DEF Typed, TypeOK
<1>8. CASE PublishOnly
  <2>1. WorkTypes' /\ SessionTypes' /\ Once(queue')
    BY <1>8, <1>w, <1>t, <1>e, SendTypes DEF PublishOnly, Runs
  <2>2. OtaTypes' /\ ThreadTypes' /\ ElsewhereTypes'
    BY <1>8 DEF PublishOnly, Typed, TypeOK, OtaTypes, ThreadTypes,
                ElsewhereTypes
  <2> QED BY <2>1, <2>2 DEF Typed, TypeOK
<1>9. CASE OtaCheckSubscribed
  <2>1. CASE Reboot
    BY <2>1, RebootTypes
  <2>2. CASE ~ Reboot
    <3>1. WorkTypes' /\ SessionTypes' /\ Once(queue')
      BY <1>9, <2>2, <1>t DEF OtaCheckSubscribed, Runs, Typed, TypeOK,
                              WorkTypes, SessionTypes
    <3>2. OtaTypes' /\ ThreadTypes'
      BY <1>9, <2>2 DEF OtaCheckSubscribed, Typed, TypeOK, OtaTypes, ThreadTypes
    <3>3. ElsewhereTypes'
      BY <1>9, <2>2 DEF OtaCheckSubscribed, Typed, TypeOK, ElsewhereTypes
    <3> QED BY <3>1, <3>2, <3>3 DEF Typed, TypeOK
  <2> QED BY <2>1, <2>2
<1>10. CASE Reconnect
  <2>1. queue' \in Seq(Works) /\ Once(queue') /\ armed' \subseteq DelayedWorks
    <3>1. Tail(queue) \in Seq(Works) /\ Once(Tail(queue))
      BY <1>10, <1>t DEF Reconnect, ClientIdle, RetryLater, Runs
    <3>2. /\ Cancel(Tail(queue), "reconnect") \in Seq(Works)
          /\ Once(Cancel(Tail(queue), "reconnect"))
      BY <3>1, CancelFacts
    <3>3. /\ queue' = Tail(queue) \/ queue' = Cancel(Tail(queue), "reconnect")
          /\ armed' = armed \/ armed' = armed \cup {"reconnect"}
      BY <1>10 DEF Reconnect, ClientIdle, RetryLater
    <3> QED BY <1>w, <3>1, <3>2, <3>3 DEF DelayedWorks
  <2>2. SessionTypes'
    <3>1. <<>> \in Seq(Packets)
      OBVIOUS
    <3> QED BY <1>10, <3>1 DEF Reconnect, ClientIdle, RetryLater, Typed, TypeOK, SessionTypes
  <2>3. OtaTypes' /\ ThreadTypes'
    BY <1>10 DEF Reconnect, ClientIdle, RetryLater, Typed, TypeOK, OtaTypes, ThreadTypes
  <2>4. connecting' \in BOOLEAN
    BY <1>10 DEF Reconnect, ClientIdle, RetryLater, Typed, TypeOK, ElsewhereTypes
  <2>5. ElsewhereTypes'
    BY <1>10, <2>4 DEF Reconnect, ClientIdle, RetryLater, Typed, TypeOK, ElsewhereTypes
  <2> QED BY <2>1, <2>2, <2>3, <2>5 DEF Typed, TypeOK, WorkTypes
<1>11. CASE FotaStarts
  <2>1. WorkTypes' /\ SessionTypes' /\ Once(queue')
    BY <1>11, <1>t DEF FotaStarts, Runs, Typed, TypeOK, WorkTypes, SessionTypes
  <2>2. OtaTypes' /\ ThreadTypes' /\ ElsewhereTypes'
    BY <1>11 DEF FotaStarts, Typed, TypeOK, OtaTypes, ThreadTypes,
                 ElsewhereTypes
  <2> QED BY <2>1, <2>2 DEF Typed, TypeOK
<1>12. CASE FotaStartFails
  BY <1>12, RebootTypes DEF FotaStartFails
<1>13. CASE ReconnectSucceeds
  <2>1. WorkTypes' /\ SessionTypes' /\ Once(queue')
    BY <1>13, <1>c DEF ReconnectSucceeds, ConnectSucceeds, Woken, Typed, TypeOK,
                       WorkTypes, SessionTypes
  <2>2. OtaTypes' /\ ThreadTypes'
    BY <1>13 DEF ReconnectSucceeds, ConnectSucceeds, Woken, Typed, TypeOK, OtaTypes,
                 ThreadTypes
  <2>3. ElsewhereTypes'
    BY <1>13 DEF ReconnectSucceeds, ConnectSucceeds, Woken, Typed, TypeOK,
                 ElsewhereTypes
  <2> QED BY <2>1, <2>2, <2>3 DEF Typed, TypeOK
<1>14. CASE ReconnectFails
  <2>1. queue' \in Seq(Works) /\ Once(queue') /\ armed' \subseteq DelayedWorks
    BY <1>14, <1>w, CancelFacts DEF ReconnectFails, RetryLater, DelayedWorks
  <2>2. WorkTypes' /\ SessionTypes' /\ Once(queue')
    BY <1>14, <2>1 DEF ReconnectFails, RetryLater, Typed, TypeOK, WorkTypes, SessionTypes
  <2>3. OtaTypes' /\ ThreadTypes'
    BY <1>14 DEF ReconnectFails, RetryLater, Typed, TypeOK, OtaTypes, ThreadTypes
  <2>4. ElsewhereTypes'
    BY <1>14 DEF ReconnectFails, RetryLater, Typed, TypeOK, ElsewhereTypes
  <2> QED BY <2>1, <2>2, <2>3, <2>4 DEF Typed, TypeOK
<1>15. CASE ThreadWakes
  <2>1. WorkTypes' /\ SessionTypes' /\ Once(queue')
    BY <1>15 DEF ThreadWakes, Typed, TypeOK, WorkTypes, SessionTypes
  <2>2. OtaTypes'
    BY <1>15 DEF ThreadWakes, Typed, TypeOK, OtaTypes
  <2>3. ThreadTypes'
    BY <1>15 DEF ThreadWakes, Typed, TypeOK, ThreadTypes
  <2>4. ElsewhereTypes'
    BY <1>15 DEF ThreadWakes, Typed, TypeOK, ElsewhereTypes
  <2> QED BY <2>1, <2>2, <2>3, <2>4 DEF Typed, TypeOK
<1>16. CASE ThreadChecks
  <2>1. WorkTypes' /\ SessionTypes' /\ Once(queue')
    BY <1>16 DEF ThreadChecks, Typed, TypeOK, WorkTypes, SessionTypes
  <2>2. OtaTypes'
    BY <1>16 DEF ThreadChecks, Typed, TypeOK, OtaTypes
  <2>3. ThreadTypes'
    BY <1>16 DEF ThreadChecks, Typed, TypeOK, ThreadTypes
  <2>4. ElsewhereTypes'
    BY <1>16 DEF ThreadChecks, Typed, TypeOK, ElsewhereTypes
  <2> QED BY <2>1, <2>2, <2>3, <2>4 DEF Typed, TypeOK
<1>17. CASE PollReturns
  <2>1. WorkTypes' /\ SessionTypes' /\ Once(queue')
    BY <1>17 DEF PollReturns, Typed, TypeOK, WorkTypes, SessionTypes
  <2>2. OtaTypes'
    BY <1>17 DEF PollReturns, PollResults, Typed, TypeOK, PollTakesTime,
        OtaTypes
  <2>3. ThreadTypes'
    BY <1>17 DEF PollReturns, PollResults, Typed, TypeOK, PollTakesTime,
        ThreadTypes
  <2>4. ElsewhereTypes'
    BY <1>17 DEF PollReturns, PollResults, Typed, TypeOK, PollTakesTime,
        ElsewhereTypes
  <2> QED BY <2>1, <2>2, <2>3, <2>4 DEF Typed, TypeOK
<1>18. CASE PollFails
  <2>1. WorkTypes' /\ SessionTypes' /\ Once(queue')
    BY <1>18 DEF PollFails, Typed, TypeOK, WorkTypes, SessionTypes
  <2>2. OtaTypes'
    BY <1>18 DEF PollFails, Typed, TypeOK, PollTakesTime, OtaTypes
  <2>3. ThreadTypes'
    BY <1>18 DEF PollFails, Typed, TypeOK, PollTakesTime, ThreadTypes
  <2>4. ElsewhereTypes'
    BY <1>18 DEF PollFails, Typed, TypeOK, PollTakesTime, ElsewhereTypes
  <2> QED BY <2>1, <2>2, <2>3, <2>4 DEF Typed, TypeOK
<1>19. CASE ThreadLive
  <2>1. WorkTypes' /\ SessionTypes' /\ Once(queue')
    BY <1>19 DEF ThreadLive, Typed, TypeOK, WorkTypes, SessionTypes
  <2>2. OtaTypes' /\ ThreadTypes' /\ ElsewhereTypes'
    BY <1>19 DEF ThreadLive, AfterLive, Typed, TypeOK, OtaTypes, ThreadTypes,
                 ElsewhereTypes
  <2> QED BY <2>1, <2>2 DEF Typed, TypeOK
<1>20. CASE ThreadPingFails
  <2>1. WorkTypes' /\ SessionTypes' /\ Once(queue')
    BY <1>20, <1>w, ConnectionLostTypes DEF ThreadPingFails, Typed, TypeOK,
                                            WorkTypes, SessionTypes
  <2>2. OtaTypes' /\ ThreadTypes' /\ ElsewhereTypes'
    BY <1>20 DEF ThreadPingFails, Typed, TypeOK, OtaTypes, ThreadTypes,
                 ElsewhereTypes
  <2> QED BY <2>1, <2>2 DEF Typed, TypeOK
<1>21. CASE InputFails
  <2>1. WorkTypes' /\ SessionTypes' /\ Once(queue')
    BY <1>21, <1>w, ConnectionLostTypes DEF InputFails, Typed, TypeOK,
                                            WorkTypes, SessionTypes
  <2>2. OtaTypes' /\ ThreadTypes' /\ ElsewhereTypes'
    BY <1>21 DEF InputFails, Typed, TypeOK, OtaTypes, ThreadTypes,
                 ElsewhereTypes
  <2> QED BY <2>1, <2>2 DEF Typed, TypeOK
<1>22. CASE ThreadAborts
  <2>1. WorkTypes' /\ SessionTypes' /\ Once(queue')
    BY <1>22, <1>w, ConnectionLostTypes DEF ThreadAborts, Typed, TypeOK,
                                            WorkTypes, SessionTypes
  <2>2. OtaTypes' /\ ThreadTypes' /\ ElsewhereTypes'
    BY <1>22 DEF ThreadAborts, Typed, TypeOK, OtaTypes, ThreadTypes,
                 ElsewhereTypes
  <2> QED BY <2>1, <2>2 DEF Typed, TypeOK
<1>23. CASE ReceiveRefused
  <2>1. WorkTypes' /\ SessionTypes' /\ Once(queue')
    BY <1>23, <1>w, ConnectionLostTypes DEF ReceiveRefused, Typed, TypeOK,
                                            WorkTypes, SessionTypes
  <2>2. OtaTypes' /\ ThreadTypes' /\ ElsewhereTypes'
    BY <1>23 DEF ReceiveRefused, Typed, TypeOK, OtaTypes, ThreadTypes,
                 ElsewhereTypes
  <2> QED BY <2>1, <2>2 DEF Typed, TypeOK
<1>24. CASE ReceiveUnreadable
  <2>1. WorkTypes' /\ SessionTypes' /\ Once(queue')
    BY <1>24, <1>w, ConnectionLostTypes DEF ReceiveUnreadable, Typed, TypeOK,
                                            WorkTypes, SessionTypes
  <2>2. OtaTypes' /\ ThreadTypes' /\ ElsewhereTypes'
    BY <1>24 DEF ReceiveUnreadable, AfterInput, Typed, TypeOK, OtaTypes,
                 ThreadTypes, ElsewhereTypes
  <2> QED BY <2>1, <2>2 DEF Typed, TypeOK
<1>25. CASE ReceiveConnack
  <2>1. queue' \in Seq(Works) /\ Once(queue')
    BY <1>25, <1>w, SubmitFacts DEF ReceiveConnack, Works
  <2>2. down' \in Seq(Packets)
    BY <1>25, <1>d DEF ReceiveConnack, Receives
  <2>3. WorkTypes' /\ SessionTypes' /\ Once(queue')
    BY <1>25, <2>1, <2>2 DEF ReceiveConnack, Typed, TypeOK, WorkTypes,
                             SessionTypes
  <2>4. OtaTypes' /\ ThreadTypes' /\ ElsewhereTypes'
    BY <1>25 DEF ReceiveConnack, AfterInput, Typed, TypeOK, OtaTypes,
                 ThreadTypes, ElsewhereTypes
  <2> QED BY <2>1, <2>2, <2>3, <2>4 DEF Typed, TypeOK
<1>26. CASE ReceiveSuback
  <2>1. LET q == Submit(queue, "ota_request") IN
        /\ q \in Seq(Works) /\ Once(q)
        /\ Cancel(q, "ota_check") \in Seq(Works) /\ Once(Cancel(q, "ota_check"))
    BY <1>w, SubmitFacts, CancelFacts DEF Works
  <2>2. \/ /\ queue' = Cancel(Submit(queue, "ota_request"), "ota_check")
           /\ armed' = armed \cup {"ota_check"}
        \/ queue' = queue /\ armed' = armed
    BY <1>26 DEF ReceiveSuback
  <2>3. queue' \in Seq(Works) /\ Once(queue') /\ armed' \subseteq DelayedWorks
    BY <1>w, <2>1, <2>2 DEF DelayedWorks
  <2>4. down' \in Seq(Packets)
    BY <1>26, <1>d DEF ReceiveSuback, Receives
  <2>5. WorkTypes' /\ SessionTypes' /\ Once(queue')
    BY <1>26, <2>3, <2>4 DEF ReceiveSuback, Typed, TypeOK, WorkTypes,
                             SessionTypes
  <2>6. OtaTypes' /\ ThreadTypes' /\ ElsewhereTypes'
    BY <1>26 DEF ReceiveSuback, AfterInput, Typed, TypeOK, OtaTypes,
                 ThreadTypes, ElsewhereTypes
  <2> QED BY <2>1, <2>2, <2>3, <2>4, <2>5, <2>6 DEF Typed, TypeOK
<1>27. CASE ReceiveOta
  <2>1. Head(down).message \in OtaMessage
    BY <1>27, <1>p DEF ReceiveOta
  <2>2. ota_data' \in Versions \cup {None}
    BY <1>27, <2>1 DEF ReceiveOta, OtaMessage, Typed, TypeOK, OtaTypes
  <2>3. down' \in Seq(Packets)
    BY <1>27, <1>d DEF ReceiveOta, Receives
  <2>4. WorkTypes' /\ SessionTypes' /\ Once(queue')
    BY <1>27, <2>3 DEF ReceiveOta, Typed, TypeOK, WorkTypes, SessionTypes
  <2>5. result' \in BOOLEAN
    BY <1>27 DEF ReceiveOta
  <2>6. OtaTypes' /\ ThreadTypes' /\ ElsewhereTypes'
    BY <1>27, <2>2, <2>5 DEF ReceiveOta, Typed, TypeOK, OtaTypes, ThreadTypes,
                             ElsewhereTypes
  <2> QED BY <2>1, <2>2, <2>3, <2>4, <2>5, <2>6 DEF Typed, TypeOK
<1>28. CASE StartUpgrade
  <2>1. /\ Cancel(queue, "fota") \in Seq(Works) /\ Once(Cancel(queue, "fota"))
        /\ armed \cup {"fota"} \in SUBSET DelayedWorks
    BY <1>w, CancelFacts DEF DelayedWorks
  <2>2. WorkTypes' /\ SessionTypes' /\ Once(queue')
    BY <1>28, <1>e, <2>1, SendTypes DEF StartUpgrade
  <2>3. OtaTypes'
    BY <1>28 DEF StartUpgrade, Typed, TypeOK, OtaTypes
  <2>4. ThreadTypes'
    BY <1>28 DEF StartUpgrade, AfterInput, Typed, TypeOK, ThreadTypes
  <2>5. ElsewhereTypes'
    BY <1>28 DEF StartUpgrade, Typed, TypeOK, ElsewhereTypes
  <2> QED BY <2>1, <2>2, <2>3, <2>4, <2>5 DEF Typed, TypeOK
<1>29. CASE NoUpdate
  <2>1. Submit(queue, "ota_done") \in Seq(Works) /\ Once(Submit(queue, "ota_done"))
    BY <1>w, SubmitFacts DEF Works
  <2>2. WorkTypes' /\ SessionTypes' /\ Once(queue')
    BY <1>29, <1>w, <1>e, <2>1, SendTypes, SubscribeTypes DEF NoUpdate, LetMainGo
  <2>3. OtaTypes'
    BY <1>29 DEF NoUpdate, LetMainGo, AfterInput, Typed, TypeOK, OtaTypes
  <2>4. ThreadTypes'
    BY <1>29 DEF NoUpdate, LetMainGo, AfterInput, Typed, TypeOK, ThreadTypes
  <2>5. ElsewhereTypes'
    BY <1>29 DEF NoUpdate, LetMainGo, AfterInput, Typed, TypeOK, ElsewhereTypes
  <2> QED BY <2>1, <2>2, <2>3, <2>4, <2>5 DEF Typed, TypeOK
<1>30. ASSUME NEW w \in DelayedWorks, Expires(w)
      PROVE  Typed'
  <2>1. WorkTypes' /\ SessionTypes' /\ Once(queue')
    BY <1>30, <1>w, SubmitFacts DEF Expires, Works, Typed, TypeOK, WorkTypes,
                                    SessionTypes
  <2>2. OtaTypes' /\ ThreadTypes' /\ ElsewhereTypes'
    BY <1>30 DEF Expires, Typed, TypeOK, OtaTypes, ThreadTypes, ElsewhereTypes
  <2> QED BY <2>1, <2>2 DEF Typed, TypeOK
<1>31. CASE TelemetryTick
  <2>1. WorkTypes' /\ SessionTypes' /\ Once(queue')
    BY <1>31, <1>w, SubmitFacts DEF TelemetryTick, Works, Typed, TypeOK,
                                    WorkTypes, SessionTypes
  <2>2. OtaTypes' /\ ThreadTypes' /\ ElsewhereTypes'
    BY <1>31 DEF TelemetryTick, Typed, TypeOK, OtaTypes, ThreadTypes,
                 ElsewhereTypes
  <2> QED BY <2>1, <2>2 DEF Typed, TypeOK
<1>32. CASE RebootWork
  BY <1>32, RebootTypes DEF RebootWork
<1>33. CASE DownloadFinished
  <2>1. WorkTypes' /\ SessionTypes' /\ Once(queue')
    BY <1>33 DEF DownloadFinished, RebootSoon, Typed, TypeOK, WorkTypes, SessionTypes
  <2>2. OtaTypes' /\ ThreadTypes' /\ ElsewhereTypes'
    BY <1>33 DEF DownloadFinished, RebootSoon, Typed, TypeOK, OtaTypes, ThreadTypes,
                 ElsewhereTypes
  <2> QED BY <2>1, <2>2 DEF Typed, TypeOK
<1>34. CASE DownloadFailed
  <2>1. WorkTypes' /\ SessionTypes' /\ Once(queue')
    BY <1>34 DEF DownloadFailed, DownloadEnds, RebootSoon, Typed, TypeOK, WorkTypes, SessionTypes
  <2>2. OtaTypes' /\ ThreadTypes' /\ ElsewhereTypes'
    BY <1>34 DEF DownloadFailed, DownloadEnds, RebootSoon, Typed, TypeOK, OtaTypes, ThreadTypes,
                 ElsewhereTypes
  <2> QED BY <2>1, <2>2 DEF Typed, TypeOK
<1>35. CASE ServerAnswers
  <2>1. down' \in Seq(Packets)
    BY <1>35, <1>w, <1>m DEF ServerAnswers, ToDevice
  <2>2. WorkTypes' /\ SessionTypes' /\ Once(queue')
    BY <1>35, <2>1 DEF ServerAnswers, Typed, TypeOK, WorkTypes, SessionTypes
  <2>3. OtaTypes' /\ ThreadTypes'
    BY <1>35 DEF ServerAnswers, Typed, TypeOK, OtaTypes, ThreadTypes
  <2>4. ElsewhereTypes'
    BY <1>35 DEF ServerAnswers, Typed, TypeOK, ElsewhereTypes
  <2> QED BY <2>1, <2>2, <2>3, <2>4 DEF Typed, TypeOK
<1>36. CASE ServerPushes
  <2>1. down' \in Seq(Packets)
    BY <1>36, <1>w, <1>m DEF ServerPushes, ToDevice
  <2>2. WorkTypes' /\ SessionTypes' /\ Once(queue')
    BY <1>36, <2>1 DEF ServerPushes, Typed, TypeOK, WorkTypes, SessionTypes
  <2>3. OtaTypes' /\ ThreadTypes'
    BY <1>36 DEF ServerPushes, Typed, TypeOK, OtaTypes, ThreadTypes
  <2>4. ElsewhereTypes'
    BY <1>36 DEF ServerPushes, Typed, TypeOK, ElsewhereTypes
  <2> QED BY <2>1, <2>2, <2>3, <2>4 DEF Typed, TypeOK
<1>37. CASE LinkDies
  <2>1. down' \in Seq(Packets)
    BY <1>37 DEF LinkDies
  <2>2. WorkTypes' /\ SessionTypes' /\ Once(queue')
    BY <1>37, <2>1 DEF LinkDies, Typed, TypeOK, WorkTypes, SessionTypes
  <2>3. OtaTypes' /\ ThreadTypes' /\ ElsewhereTypes'
    BY <1>37 DEF LinkDies, Typed, TypeOK, OtaTypes, ThreadTypes, ElsewhereTypes
  <2> QED BY <2>1, <2>2, <2>3 DEF Typed, TypeOK
<1>38. CASE UNCHANGED vars
  BY <1>38 DEF vars, Typed, TypeOK, WorkTypes, SessionTypes, OtaTypes,
               ThreadTypes, ElsewhereTypes
<1>39. CASE WatchdogFires
  BY <1>39, RebootTypes DEF WatchdogFires
<1> QED
  BY <1>1, <1>2, <1>3, <1>4, <1>5, <1>6, <1>7, <1>8, <1>9, <1>10, <1>11, <1>12,
     <1>13, <1>14, <1>15, <1>16, <1>17, <1>18, <1>19, <1>20, <1>21,
     <1>22, <1>23, <1>24, <1>25, <1>26, <1>27, <1>28, <1>29, <1>30, <1>31,
     <1>32, <1>33, <1>34, <1>35, <1>36, <1>37, <1>38, <1>39
  DEF Next, System, Outside, MainThread, App, WorkItem, CloudThread, Download

(* The initial state is typed. *)
LEMMA TypedInit == Init => Typed
<1> SUFFICES ASSUME Init
             PROVE  Typed
  OBVIOUS
<1>1. queue \in Seq(Works) /\ down \in Seq(Packets) /\ Once(queue)
  BY DEF Init, Once
<1>2. OtaTypes /\ ThreadTypes /\ WorkTypes
  BY <1>1 DEF Init, OtaTypes, ThreadTypes, WorkTypes
<1>3. SessionTypes /\ ElsewhereTypes
  BY <1>1, CloudAssumption DEF Init, SessionTypes, ElsewhereTypes
<1> QED BY <1>1, <1>2, <1>3 DEF Typed, TypeOK

(* Whatever the environment does, the state of the firmware, of the work   *)
(* queue and of the packets in flight stays within its types.              *)
THEOREM TypeCorrect == Spec => []TypeOK
<1>1. Spec => []Typed
  BY TypedInit, TypedStep, PTL DEF Spec
<1>2. Typed => TypeOK
  BY DEF Typed
<1> QED BY <1>1, <1>2, PTL

-----------------------------------------------------------------------------
(* At reset nothing is pending and no thread but main() has anything to do. *)
AtReset ==
  /\ client = "idle" /\ ~ connecting
  /\ queue = <<>> /\ armed = {}
  /\ pc = "wait" /\ ~ thread_sem

(* The reported state and the client agree, the reconnect work is in one   *)
(* place at most, and is nowhere while the client is open.                 *)
LinkInv ==
  /\ cloud_state_s = "connected" <=> client # "idle"
  /\ telemetry_timer => client = "connected"
  /\ main_pc = "connect" => AtReset
  /\ connecting => client = "idle" /\ "reconnect" \notin armed \cup Pending(queue)
  /\ "reconnect" \in armed => "reconnect" \notin Pending(queue)
  /\ ReconnectExactlyWhenDown

(* The FIFO q and the armed items a have item w where the state has it.     *)
Keeps(w, q, a) ==
  /\ w \in Pending(q) <=> w \in Pending(queue)
  /\ w \in a <=> w \in armed

LEMMA PendingEmpty == Pending(<<>>) = {}
  BY DEF Pending, ToSet

(* A step that leaves the connection and the reconnect work where they are. *)
LEMMA LinkFrame ==
  ASSUME LinkInv, UNCHANGED <<main_pc, connecting, cloud_state_s, client>>,
         telemetry_timer' => telemetry_timer \/ client = "connected",
         Keeps("reconnect", queue', armed'),
         main_pc # "connect" \/ UNCHANGED <<queue, armed, pc, thread_sem>>
  PROVE  LinkInv'
  BY DEF LinkInv, Keeps, AtReset, ReconnectExactlyWhenDown, ReconnectComing

(* A connection that is lost leaves the reconnect work armed. *)
LEMMA LinkLost ==
  ASSUME LinkInv, client # "idle", UNCHANGED <<main_pc, connecting>>,
         NEW q \in Seq(Works), Once(q), NEW a, Keeps("reconnect", q, a),
         ConnectionLost(q, a)
  PROVE  LinkInv'
<1>1. Pending(queue') = Pending(q) \ {"reconnect"} /\ armed' = a \cup {"reconnect"}
  BY CancelFacts DEF ConnectionLost, ClientIdle, RetryLater
<1>2. main_pc # "connect" /\ ~ connecting
  BY DEF LinkInv, AtReset
<1> QED BY <1>1, <1>2 DEF LinkInv, ConnectionLost, ClientIdle, RetryLater, ReconnectExactlyWhenDown,
                          ReconnectComing

LEMMA LinkSend ==
  ASSUME LinkInv, main_pc # "connect", UNCHANGED <<main_pc, connecting>>,
         NEW q \in Seq(Works), Once(q), NEW a, Keeps("reconnect", q, a),
         NEW s, NEW p, Send(q, a, s, p)
  PROVE  LinkInv'
<1>1. CASE client = "connected" /\ ConnectionLost(q, a)
  BY <1>1, LinkLost
<1>2. CASE queue' = q /\ armed' = a /\ UNCHANGED clientVars
  BY <1>2, LinkFrame DEF clientVars
<1> QED BY <1>1, <1>2 DEF Send, sessionVars

LEMMA LinkSubscribe ==
  ASSUME LinkInv, main_pc # "connect", UNCHANGED <<main_pc, connecting>>,
         NEW q \in Seq(Works), Once(q), NEW a, Keeps("reconnect", q, a),
         NEW topic, NEW id, Subscribe(q, a, topic, id)
  PROVE  LinkInv'
  BY LinkSend DEF Subscribe

LEMMA LinkReboot ==
  ASSUME Reboot
  PROVE  LinkInv'
  BY PendingEmpty DEF Reboot, BootImage, LinkInv, AtReset, ReconnectExactlyWhenDown

LEMMA LinkInit == Init => LinkInv
  BY PendingEmpty DEF Init, LinkInv, AtReset, ReconnectExactlyWhenDown

LEMMA LinkStep == Typed /\ LinkInv /\ [Next]_vars => LinkInv'
<1> SUFFICES ASSUME Typed, LinkInv, [Next]_vars
             PROVE  LinkInv'
  OBVIOUS
<1> USE DEF mainVars, otaVars, localVars, threadVars, workVars, clientVars,
            sessionVars, flashVars, elsewhere
<1>w. queue \in Seq(Works) /\ Once(queue)
  BY DEF Typed, TypeOK, WorkTypes
<1>k. Keeps("reconnect", queue, armed)
  BY DEF Keeps
<1>a. main_pc = "connect" => AtReset
  BY DEF LinkInv
<1>r. ASSUME NEW w, Runs(w)
      PROVE  /\ main_pc # "connect" /\ ~ connecting
             /\ Tail(queue) \in Seq(Works) /\ Once(Tail(queue))
             /\ Pending(queue) = Pending(Tail(queue)) \cup {w}
             /\ w \notin Pending(Tail(queue))
             /\ w # "reconnect" => Keeps("reconnect", Tail(queue), armed)
  BY <1>a, <1>r, <1>w, TailFacts DEF Runs, AtReset, Keeps
<1>t. pc # "wait" \/ thread_sem => main_pc # "connect"
  BY <1>a DEF AtReset
<1>1. CASE MainConnected
  <2>1. /\ cloud_state_s' = "connected" /\ client' = "tcp" /\ ~ connecting'
        /\ main_pc' # "connect" /\ UNCHANGED <<queue, armed, telemetry_timer>>
    BY <1>1, <1>a DEF MainConnected, ConnectSucceeds, Woken, AtReset, LinkInv
  <2>2. "reconnect" \notin armed \cup Pending(queue) /\ ~ telemetry_timer
    BY <1>1, <1>a, PendingEmpty DEF MainConnected, AtReset, LinkInv
  <2> QED BY <2>1, <2>2 DEF LinkInv, ReconnectExactlyWhenDown, ReconnectComing
<1>2. CASE MainConnectFails
  BY <1>2, LinkReboot DEF MainConnectFails
<1>3. CASE MainProceeds
  <2>1. main_pc # "connect" /\ main_pc' # "connect"
    BY <1>3 DEF MainProceeds
  <2> QED BY <1>3, <2>1 DEF MainProceeds, LinkInv, ReconnectExactlyWhenDown,
                            ReconnectComing
<1>4. CASE AppPublishes
  BY <1>4, <1>w, <1>k, LinkSend DEF AppPublishes
<1>5. CASE AppDisconnects
  BY <1>5, <1>w, <1>k, LinkLost DEF AppDisconnects
<1>6. CASE OnConnect
  <2>1. Runs("on_connect")
    BY <1>6 DEF OnConnect
  <2>2. /\ main_pc # "connect" /\ Keeps("reconnect", Tail(queue), armed)
        /\ Tail(queue) \in Seq(Works) /\ Once(Tail(queue))
    BY <1>r, <2>1
  <2> QED BY <1>6, <2>2, LinkSend, LinkSubscribe DEF OnConnect
<1>7. CASE OtaRequest
  <2>1. Runs("ota_request")
    BY <1>7 DEF OtaRequest
  <2>2. /\ main_pc # "connect" /\ Keeps("reconnect", Tail(queue), armed)
        /\ Tail(queue) \in Seq(Works) /\ Once(Tail(queue))
    BY <1>r, <2>1
  <2> QED BY <1>7, <2>2, LinkSend DEF OtaRequest
<1>8. CASE PublishOnly
  <2>1. Runs("ota_done") \/ Runs("telemetry")
    BY <1>8 DEF PublishOnly
  <2>2. /\ main_pc # "connect" /\ Keeps("reconnect", Tail(queue), armed)
        /\ Tail(queue) \in Seq(Works) /\ Once(Tail(queue))
    BY <1>r, <2>1
  <2> QED BY <1>8, <2>2, LinkSend DEF PublishOnly
<1>9. CASE OtaCheckSubscribed
  <2>1. CASE Reboot
    BY <2>1, LinkReboot
  <2>2. CASE ~ Reboot
    <3>1. Runs("ota_check")
      BY <1>9 DEF OtaCheckSubscribed
    <3>2. main_pc # "connect" /\ Keeps("reconnect", Tail(queue), armed)
      BY <1>r, <3>1
    <3>3. /\ queue' = Tail(queue)
          /\ UNCHANGED <<main_pc, connecting, cloud_state_s, client, telemetry_timer, armed>>
      BY <1>9, <2>2, Zenon DEF OtaCheckSubscribed
    <3> QED BY <3>2, <3>3, LinkFrame
  <2> QED BY <2>1, <2>2
<1>10. CASE Reconnect
  <2>1. /\ main_pc # "connect" /\ ~ connecting
        /\ "reconnect" \in Pending(queue) /\ "reconnect" \notin Pending(Tail(queue))
    BY <1>10, <1>r DEF Reconnect, ClientIdle, RetryLater
  <2>2. cloud_state_s # "connected" /\ client = "idle" /\ "reconnect" \notin armed
    BY <2>1 DEF LinkInv, ReconnectExactlyWhenDown, ReconnectComing
  <2>3. /\ queue' = Tail(queue) /\ connecting' = TRUE /\ client' = "idle"
        /\ UNCHANGED <<main_pc, armed, cloud_state_s, telemetry_timer>>
    BY <1>10, <2>2 DEF Reconnect, ClientIdle, RetryLater
  <2>4. cloud_state_s = "disconnected"
    BY <2>2 DEF Typed, TypeOK, SessionTypes
  <2> QED BY <2>1, <2>2, <2>3, <2>4 DEF LinkInv, ReconnectExactlyWhenDown,
                                        ReconnectComing
<1>11. CASE FotaStarts
  BY <1>11, <1>r, LinkFrame DEF FotaStarts
<1>12. CASE FotaStartFails
  BY <1>12, LinkReboot DEF FotaStartFails
<1>13. CASE ReconnectSucceeds
  <2>1. /\ cloud_state_s' = "connected" /\ client' = "tcp" /\ ~ connecting'
        /\ main_pc' # "connect" /\ UNCHANGED <<queue, armed, telemetry_timer>>
    BY <1>13, <1>a DEF ReconnectSucceeds, ConnectSucceeds, Woken, AtReset, LinkInv
  <2>2. "reconnect" \notin armed \cup Pending(queue) /\ ~ telemetry_timer
    BY <1>13, <1>a, PendingEmpty DEF ReconnectSucceeds, AtReset, LinkInv
  <2> QED BY <2>1, <2>2 DEF LinkInv, ReconnectExactlyWhenDown, ReconnectComing
<1>14. CASE ReconnectFails
  <2>1. Pending(queue') = Pending(queue) \ {"reconnect"}
    BY <1>14, <1>w, CancelFacts DEF ReconnectFails, RetryLater
  <2>2. /\ main_pc # "connect" /\ client = "idle" /\ cloud_state_s # "connected"
        /\ "reconnect" \in armed' /\ connecting' = FALSE
        /\ UNCHANGED <<main_pc, client, cloud_state_s, telemetry_timer>>
    BY <1>14, <1>a DEF ReconnectFails, RetryLater, LinkInv, AtReset
  <2>3. cloud_state_s = "disconnected"
    BY <2>2 DEF Typed, TypeOK, SessionTypes
  <2> QED BY <2>1, <2>2, <2>3 DEF LinkInv, ReconnectExactlyWhenDown,
                                  ReconnectComing
<1>15. CASE ThreadWakes
  BY <1>15, <1>k, <1>t, LinkFrame DEF ThreadWakes
<1>16. CASE ThreadChecks
  BY <1>16, <1>k, <1>t, LinkFrame DEF ThreadChecks
<1>17. CASE PollReturns
  BY <1>17, <1>k, <1>t, LinkFrame DEF PollReturns
<1>18. CASE PollFails
  BY <1>18, <1>k, <1>t, LinkFrame DEF PollFails
<1>19. CASE ThreadLive
  BY <1>19, <1>k, <1>t, LinkFrame DEF ThreadLive
<1>20. CASE ReceiveOta
  BY <1>20, <1>k, <1>t, LinkFrame DEF ReceiveOta, Receives
<1>21. CASE ThreadPingFails
  <2>1. CASE client # "idle" /\ ConnectionLost(queue, armed)
    BY <1>21, <2>1, <1>w, <1>k, LinkLost DEF ThreadPingFails
  <2>2. CASE UNCHANGED <<workVars, sessionVars>>
    BY <1>21, <2>2, <1>k, <1>t, LinkFrame DEF ThreadPingFails
  <2> QED BY <1>21, <2>1, <2>2 DEF ThreadPingFails
<1>22. CASE InputFails
  <2>1. CASE client # "idle" /\ ConnectionLost(queue, armed)
    BY <1>22, <2>1, <1>w, <1>k, LinkLost DEF InputFails
  <2>2. CASE UNCHANGED <<workVars, sessionVars>>
    BY <1>22, <2>2, <1>k, <1>t, LinkFrame DEF InputFails
  <2> QED BY <1>22, <2>1, <2>2 DEF InputFails
<1>23. CASE ThreadAborts
  <2>1. CASE client # "idle" /\ ConnectionLost(queue, armed)
    BY <1>23, <2>1, <1>w, <1>k, LinkLost DEF ThreadAborts
  <2>2. CASE UNCHANGED <<workVars, sessionVars>>
    BY <1>23, <2>2, <1>k, <1>t, LinkFrame DEF ThreadAborts
  <2> QED BY <1>23, <2>1, <2>2 DEF ThreadAborts
<1>24. CASE ReceiveRefused
  BY <1>24, <1>w, <1>k, LinkLost DEF ReceiveRefused, Receives
<1>25. CASE ReceiveUnreadable
  BY <1>25, <1>w, <1>k, LinkLost DEF ReceiveUnreadable, Receives
<1>26. CASE ReceiveConnack
  <2>1. Pending(queue') = Pending(queue) \cup {"on_connect"} /\ UNCHANGED armed
    BY <1>26, <1>w, SubmitFacts DEF ReceiveConnack, Works
  <2>2. /\ client # "idle" /\ client' = "connected" /\ main_pc # "connect"
        /\ UNCHANGED <<main_pc, connecting, cloud_state_s>>
    BY <1>26, <1>t DEF ReceiveConnack, Receives
  <2> QED BY <2>1, <2>2 DEF LinkInv, ReconnectExactlyWhenDown, ReconnectComing
<1>27. CASE ReceiveSuback
  <2> DEFINE q == Submit(queue, "ota_request")
  <2>1. /\ q \in Seq(Works) /\ Once(q) /\ Pending(q) = Pending(queue) \cup {"ota_request"}
        /\ Pending(Cancel(q, "ota_check")) = Pending(q) \ {"ota_check"}
    BY <1>w, SubmitFacts, CancelFacts DEF Works
  <2>2. \/ queue' = Cancel(q, "ota_check") /\ armed' = armed \cup {"ota_check"}
        \/ UNCHANGED workVars
    BY <1>27 DEF ReceiveSuback
  <2> HIDE DEF q
  <2>3. Keeps("reconnect", queue', armed')
    BY <2>1, <2>2, <1>k DEF Keeps
  <2> QED BY <1>27, <1>t, <2>3, LinkFrame DEF ReceiveSuback, Receives
<1>28. CASE StartUpgrade
  <2>1. /\ Cancel(queue, "fota") \in Seq(Works) /\ Once(Cancel(queue, "fota"))
        /\ Keeps("reconnect", Cancel(queue, "fota"), armed \cup {"fota"})
    BY <1>w, CancelFacts DEF Keeps
  <2> QED BY <1>28, <1>t, <2>1, LinkSend DEF StartUpgrade
<1>29. CASE NoUpdate
  <2>1. /\ Submit(queue, "ota_done") \in Seq(Works) /\ Once(Submit(queue, "ota_done"))
        /\ Keeps("reconnect", Submit(queue, "ota_done"), armed)
    BY <1>w, SubmitFacts DEF Keeps, Works
  <2> QED BY <1>29, <1>w, <1>k, <1>t, <2>1, LinkSend, LinkSubscribe DEF NoUpdate, LetMainGo
<1>30. ASSUME NEW w \in DelayedWorks, Expires(w)
      PROVE  LinkInv'
  <2>1. Pending(queue') = Pending(queue) \cup {w} /\ armed' = armed \ {w} /\ w \in armed
    BY <1>30, <1>w, SubmitFacts DEF Expires, Works
  <2>2. main_pc # "connect"
    BY <1>a, <2>1 DEF AtReset
  <2>3. UNCHANGED <<main_pc, connecting, cloud_state_s, client, telemetry_timer>>
    BY <1>30 DEF Expires
  <2> QED BY <2>1, <2>2, <2>3 DEF LinkInv, ReconnectExactlyWhenDown,
                                  ReconnectComing
<1>31. CASE TelemetryTick
  <2>1. Keeps("reconnect", queue', armed')
    BY <1>31, <1>w, SubmitFacts DEF TelemetryTick, Keeps, Works
  <2>2. main_pc # "connect"
    BY <1>31, <1>a DEF TelemetryTick, AtReset, LinkInv
  <2> QED BY <1>31, <2>1, <2>2, LinkFrame DEF TelemetryTick
<1>32. CASE RebootWork
  BY <1>32, LinkReboot DEF RebootWork
<1>33. CASE DownloadFinished
  BY <1>33, <1>k, LinkFrame DEF DownloadFinished, RebootSoon
<1>34. CASE DownloadFailed
  BY <1>34, <1>k, LinkFrame DEF DownloadFailed, DownloadEnds, RebootSoon
<1>35. CASE ServerAnswers
  BY <1>35, <1>k, LinkFrame DEF ServerAnswers
<1>36. CASE ServerPushes
  BY <1>36, <1>k, LinkFrame DEF ServerPushes
<1>37. CASE LinkDies
  BY <1>37, <1>k, LinkFrame DEF LinkDies
<1>38. CASE UNCHANGED vars
  BY <1>38, <1>k, LinkFrame DEF vars
<1>39. CASE WatchdogFires
  BY <1>39, LinkReboot DEF WatchdogFires
<1> QED
  BY <1>1, <1>2, <1>3, <1>4, <1>5, <1>6, <1>7, <1>8, <1>9, <1>10, <1>11, <1>12,
     <1>13, <1>14, <1>15, <1>16, <1>17, <1>18, <1>19, <1>20, <1>21,
     <1>22, <1>23, <1>24, <1>25, <1>26, <1>27, <1>28, <1>29, <1>30, <1>31,
     <1>32, <1>33, <1>34, <1>35, <1>36, <1>37, <1>38, <1>39
  DEF Next, System, Outside, MainThread, App, WorkItem, CloudThread, Download

(* Whatever order the disconnect events, the reconnect timeouts and the    *)
(* attempts to connect come in, on whichever thread: the device never      *)
(* stays down without retrying and never connects over an open connection. *)
THEOREM RetriesExactlyWhenDown == Spec => []ReconnectExactlyWhenDown
<1>1. Spec => [](Typed /\ LinkInv)
  BY TypedInit, TypedStep, LinkInit, LinkStep, PTL DEF Spec
<1>2. LinkInv => ReconnectExactlyWhenDown
  BY DEF LinkInv
<1> QED BY <1>1, <1>2, PTL

-----------------------------------------------------------------------------
(* Until the first answer of a boot nothing is under way that an answer    *)
(* starts: no payload is handled, no download scheduled, begun or over.    *)
AnswerInv ==
  ~ initial_ota_check =>
    /\ main_pc # "app" /\ ~ proceed
    /\ ota_state_s = "ready" /\ download = None
    /\ pc # "publish"
    /\ "fota" \notin armed \cup Pending(queue)

(* The FIFO q and the armed items a have the download's start only if the  *)
(* state has it.                                                           *)
SchedulesNothing(q, a) ==
  "fota" \in a \cup Pending(q) => "fota" \in armed \cup Pending(queue)

LEMMA AnswerFrame ==
  ASSUME AnswerInv, UNCHANGED <<initial_ota_check, ota_state_s, download>>,
         main_pc' = "app" => main_pc = "app", proceed' => proceed,
         pc' = "publish" => pc = "publish", SchedulesNothing(queue', armed')
  PROVE  AnswerInv'
  BY DEF AnswerInv, SchedulesNothing

(* Once the answer came, nothing but a restart forgets it. *)
LEMMA AnswerStays ==
  ASSUME AnswerInv, UNCHANGED initial_ota_check,
         main_pc = "app" \/ proceed \/ ota_state_s # "ready" \/ download # None
           \/ pc = "publish" \/ "fota" \in armed \cup Pending(queue)
  PROVE  AnswerInv'
  BY DEF AnswerInv

LEMMA LostSchedules ==
  ASSUME NEW q \in Seq(Works), Once(q), NEW a, SchedulesNothing(q, a),
         ConnectionLost(q, a)
  PROVE  SchedulesNothing(queue', armed')
<1>1. Pending(queue') = Pending(q) \ {"reconnect"} /\ armed' = a \cup {"reconnect"}
  BY CancelFacts DEF ConnectionLost, ClientIdle, RetryLater
<1> QED BY <1>1 DEF SchedulesNothing

LEMMA SendSchedules ==
  ASSUME NEW q \in Seq(Works), Once(q), NEW a, SchedulesNothing(q, a),
         NEW s, NEW p, Send(q, a, s, p)
  PROVE  SchedulesNothing(queue', armed')
<1>1. CASE ConnectionLost(q, a)
  BY <1>1, LostSchedules
<1>2. CASE queue' = q /\ armed' = a
  BY <1>2 DEF SchedulesNothing
<1> QED BY <1>1, <1>2 DEF Send

LEMMA SubscribeSchedules ==
  ASSUME NEW q \in Seq(Works), Once(q), NEW a, SchedulesNothing(q, a),
         NEW topic, NEW id, Subscribe(q, a, topic, id)
  PROVE  SchedulesNothing(queue', armed')
  BY SendSchedules DEF Subscribe

(* Only an upgrade that was found schedules the download's start.          *)
LEMMA SchedulesStep ==
  ASSUME Typed, [Next]_vars
  PROVE  StartUpgrade \/ SchedulesNothing(queue', armed')
<1> USE DEF mainVars, otaVars, localVars, threadVars, workVars, clientVars,
            sessionVars, flashVars, elsewhere
<1>w. queue \in Seq(Works) /\ Once(queue)
  BY DEF Typed, TypeOK, WorkTypes
<1>k. SchedulesNothing(queue, armed)
  BY DEF SchedulesNothing
<1>u. CASE UNCHANGED <<queue, armed>>
  BY <1>k, <1>u DEF SchedulesNothing
<1>r. ASSUME NEW w, Runs(w)
      PROVE  /\ Tail(queue) \in Seq(Works) /\ Once(Tail(queue))
             /\ SchedulesNothing(Tail(queue), armed)
  BY <1>r, <1>w, TailFacts DEF Runs, SchedulesNothing
<1>1. CASE Reboot
  BY <1>1, PendingEmpty DEF Reboot, SchedulesNothing
<1>2. CASE App
  BY <1>2, <1>w, <1>k, SendSchedules, LostSchedules DEF App, AppPublishes, AppDisconnects
<1>3. CASE OnConnect
  <2>1. Runs("on_connect")
    BY <1>3 DEF OnConnect
  <2> QED BY <1>3, <1>r, <2>1, SendSchedules, SubscribeSchedules DEF OnConnect
<1>4. CASE OtaRequest
  <2>1. Runs("ota_request")
    BY <1>4 DEF OtaRequest
  <2> QED BY <1>4, <1>r, <2>1, SendSchedules DEF OtaRequest
<1>5. CASE PublishOnly
  <2>1. Runs("ota_done") \/ Runs("telemetry")
    BY <1>5 DEF PublishOnly
  <2> QED BY <1>5, <1>r, <2>1, SendSchedules DEF PublishOnly
<1>6. CASE OtaCheckSubscribed /\ ~ Reboot
  <2>1. Runs("ota_check")
    BY <1>6 DEF OtaCheckSubscribed
  <2>2. queue' = Tail(queue) /\ UNCHANGED armed
    BY <1>6, Zenon DEF OtaCheckSubscribed
  <2> QED BY <1>r, <2>1, <2>2 DEF SchedulesNothing
<1>7. CASE Reconnect
  <2>1. Runs("reconnect")
    BY <1>7 DEF Reconnect
  <2>2. Pending(Cancel(Tail(queue), "reconnect")) = Pending(Tail(queue)) \ {"reconnect"}
    BY <1>r, <2>1, CancelFacts
  <2>3. \/ queue' = Cancel(Tail(queue), "reconnect") /\ armed' = armed \cup {"reconnect"}
        \/ queue' = Tail(queue) /\ armed' = armed
    BY <1>7 DEF Reconnect, RetryLater
  <2>4. SchedulesNothing(Tail(queue), armed)
    BY <1>r, <2>1
  <2>5. CASE queue' = Tail(queue) /\ armed' = armed
    BY <2>4, <2>5
  <2>6. CASE queue' = Cancel(Tail(queue), "reconnect") /\ armed' = armed \cup {"reconnect"}
    <3>1. Pending(queue') = Pending(Tail(queue)) \ {"reconnect"}
      BY <2>2, <2>6
    <3>2. SchedulesNothing(queue', armed')
      BY <2>4, <2>6, <3>1 DEF SchedulesNothing
    <3> QED BY <3>2
  <2> QED BY <2>3, <2>5, <2>6
<1>8. CASE FotaStarts
  BY <1>8, <1>r DEF FotaStarts, SchedulesNothing
<1>9. CASE ReconnectFails
  BY <1>9, <1>w, CancelFacts DEF ReconnectFails, RetryLater, SchedulesNothing
<1>10. CASE ThreadPingFails \/ InputFails \/ ThreadAborts
  BY <1>10, <1>w, <1>k, <1>u, LostSchedules DEF ThreadPingFails, InputFails, ThreadAborts
<1>11. CASE ReceiveRefused \/ ReceiveUnreadable
  BY <1>11, <1>w, <1>k, LostSchedules DEF ReceiveRefused, ReceiveUnreadable
<1>12. CASE ReceiveConnack
  BY <1>12, <1>w, SubmitFacts DEF ReceiveConnack, SchedulesNothing, Works
<1>13. CASE ReceiveSuback
  <2> DEFINE q == Submit(queue, "ota_request")
  <2>1. /\ q \in Seq(Works) /\ Once(q) /\ Pending(q) = Pending(queue) \cup {"ota_request"}
        /\ Pending(Cancel(q, "ota_check")) = Pending(q) \ {"ota_check"}
    BY <1>w, SubmitFacts, CancelFacts DEF Works
  <2>2. \/ queue' = Cancel(q, "ota_check") /\ armed' = armed \cup {"ota_check"}
        \/ UNCHANGED workVars
    BY <1>13 DEF ReceiveSuback
  <2> HIDE DEF q
  <2> QED BY <2>1, <2>2 DEF SchedulesNothing
<1>14. CASE NoUpdate
  <2>1. /\ Submit(queue, "ota_done") \in Seq(Works) /\ Once(Submit(queue, "ota_done"))
        /\ SchedulesNothing(Submit(queue, "ota_done"), armed)
    BY <1>w, SubmitFacts DEF SchedulesNothing, Works
  <2> QED BY <1>14, <1>w, <1>k, <2>1, SendSchedules, SubscribeSchedules DEF NoUpdate
<1>15. ASSUME NEW w \in DelayedWorks, Expires(w)
       PROVE  SchedulesNothing(queue', armed')
  BY <1>15, <1>w, SubmitFacts DEF Expires, SchedulesNothing, Works
<1>16. CASE TelemetryTick
  BY <1>16, <1>w, SubmitFacts DEF TelemetryTick, SchedulesNothing, Works
<1>17. CASE MainConnected \/ MainProceeds \/ ReconnectSucceeds \/ ServerAnswers
              \/ ServerPushes \/ LinkDies \/ Download \/ UNCHANGED vars
  <2>1. UNCHANGED <<queue, armed>>
    BY <1>17 DEF MainConnected, MainProceeds, ReconnectSucceeds, ConnectSucceeds,
                 ServerAnswers, ServerPushes, LinkDies, Download, DownloadFinished,
                 DownloadFailed, DownloadEnds, vars
  <2> QED BY <1>u, <2>1
<1>18. CASE ThreadWakes \/ ThreadChecks \/ PollReturns \/ PollFails \/ ThreadLive \/ ReceiveOta
  <2>1. UNCHANGED <<queue, armed>>
    BY <1>18 DEF ThreadWakes, ThreadChecks, PollReturns, PollFails, ThreadLive, ReceiveOta
  <2> QED BY <1>u, <2>1
<1> QED
  BY <1>1, <1>2, <1>3, <1>4, <1>5, <1>6, <1>7, <1>8, <1>9, <1>10, <1>11, <1>12,
     <1>13, <1>14, <1>15, <1>16, <1>17, <1>18
  DEF Next, System, Outside, MainThread, WorkItem, CloudThread,
      MainConnectFails, FotaStartFails, WatchdogFires, RebootWork

LEMMA AnswerReboot ==
  ASSUME Reboot
  PROVE  AnswerInv'
  BY PendingEmpty DEF Reboot, BootImage, AnswerInv

LEMMA AnswerInit == Init => AnswerInv
  BY PendingEmpty DEF Init, AnswerInv

LEMMA AnswerStep == Typed /\ AnswerInv /\ [Next]_vars => AnswerInv'
<1> SUFFICES ASSUME Typed, AnswerInv, [Next]_vars
             PROVE  AnswerInv'
  OBVIOUS
<1> USE DEF mainVars, otaVars, localVars, threadVars, workVars, clientVars,
            sessionVars, flashVars, elsewhere
<1>1. CASE StartUpgrade \/ NoUpdate
  BY <1>1, AnswerStays DEF StartUpgrade, NoUpdate
<1> SUFFICES ASSUME ~ StartUpgrade
             PROVE  AnswerInv'
  BY <1>1
<1>s. SchedulesNothing(queue', armed')
  BY SchedulesStep
<1>2. CASE Reboot
  BY <1>2, AnswerReboot
<1>3. CASE MainProceeds \/ App
  BY <1>3, AnswerStays DEF MainProceeds, App, AppPublishes, AppDisconnects
<1>4. CASE MainConnected \/ ReconnectSucceeds \/ ReconnectFails \/ Reconnect
  BY <1>4, <1>s, AnswerFrame
  DEF MainConnected, ReconnectSucceeds, ConnectSucceeds, ReconnectFails, Reconnect
<1>5. CASE OnConnect \/ OtaRequest \/ PublishOnly
  BY <1>5, <1>s, AnswerFrame DEF OnConnect, OtaRequest, PublishOnly
<1>6. CASE OtaCheckSubscribed /\ ~ Reboot
  <2>1. UNCHANGED <<initial_ota_check, ota_state_s, download, main_pc, proceed, pc>>
    BY <1>6, Zenon DEF OtaCheckSubscribed
  <2> QED BY <1>s, <2>1, AnswerFrame
<1>7. CASE FotaStarts
  <2>1. "fota" \in Pending(queue)
    BY <1>7, TailFacts DEF FotaStarts, Runs, Typed, TypeOK, WorkTypes
  <2>2. UNCHANGED initial_ota_check
    BY <1>7 DEF FotaStarts
  <2> QED BY <2>1, <2>2, AnswerStays
<1>8. CASE ThreadWakes \/ ThreadChecks \/ PollReturns \/ PollFails \/ ThreadLive
  BY <1>8, <1>s, AnswerFrame
  DEF ThreadWakes, ThreadChecks, PollReturns, PollFails, ThreadLive, AfterLive
<1>9. CASE ThreadPingFails \/ InputFails \/ ThreadAborts \/ ReceiveRefused \/ ReceiveUnreadable
             \/ ReceiveConnack \/ ReceiveSuback
  BY <1>9, <1>s, AnswerFrame
  DEF ThreadPingFails, InputFails, ThreadAborts, ReceiveRefused, ReceiveUnreadable,
      ReceiveConnack, ReceiveSuback, AfterInput
<1>10. CASE ReceiveOta
  BY <1>10 DEF ReceiveOta, AnswerInv
<1>11. CASE TelemetryTick \/ \E w \in DelayedWorks : Expires(w)
  BY <1>11, <1>s, AnswerFrame DEF TelemetryTick, Expires
<1>12. CASE Download
  BY <1>12, AnswerStays DEF Download, DownloadFinished, DownloadFailed, DownloadEnds
<1>13. CASE ServerAnswers \/ ServerPushes \/ LinkDies \/ UNCHANGED vars
  BY <1>13, <1>s, AnswerFrame DEF ServerAnswers, ServerPushes, LinkDies, vars
<1> QED
  BY <1>1, <1>2, <1>3, <1>4, <1>5, <1>6, <1>7, <1>8, <1>9, <1>10, <1>11, <1>12, <1>13
  DEF Next, System, Outside, MainThread, WorkItem, CloudThread,
      MainConnectFails, FotaStartFails, WatchdogFires, RebootWork

(* setup() runs, and a download is begun, only after the server answered   *)
(* the OTA check of this boot, however the threads, the timeouts, the      *)
(* connection and the restarts interleave.                                 *)
THEOREM SetupIsAnswered == Spec => []AnsweredFirst
<1>1. Spec => [](Typed /\ AnswerInv)
  BY TypedInit, TypedStep, AnswerInit, AnswerStep, PTL DEF Spec
<1>2. AnswerInv => AnsweredFirst
  BY DEF AnswerInv, AnsweredFirst
<1> QED BY <1>1, <1>2, PTL

-----------------------------------------------------------------------------
(* A connection that came up while the thread was elsewhere has given the  *)
(* semaphore; a thread in poll() without it watches the open socket.  When *)
(* CONNACK may come late, this is so once it has come.                     *)
ServedInv ==
  cloud_state_s = "connected" /\ (client = "connected" \/ "silent" \notin Environment) =>
    /\ pc # "wait" \/ thread_sem
    /\ pc = "poll" => polled \/ thread_sem

(* A step that keeps what the invariant reads, or leaves no connection.    *)
Acknowledges == client # "connected" /\ client' = "connected"
Undisturbed == UNCHANGED <<cloud_state_s, polled, thread_sem>> /\ ~ Acknowledges

LEMMA ServedStays ==
  ASSUME ServedInv,
         \/ cloud_state_s' # "connected"
         \/ pc' \notin {"wait", "poll"}
         \/ Undisturbed /\ pc' = pc
  PROVE  ServedInv'
  BY DEF ServedInv, Undisturbed, Acknowledges

LEMMA SendServes ==
  ASSUME NEW q, NEW a, NEW s, NEW p,
         Send(q, a, s, p) \/ ConnectionLost(q, a)
           \/ \E topic, id : Subscribe(q, a, topic, id)
  PROVE  cloud_state_s' # "connected" \/ (UNCHANGED <<cloud_state_s, polled>> /\ ~ Acknowledges)
<1>1. ASSUME NEW s2, NEW p2, Send(q, a, s2, p2)
      PROVE  cloud_state_s' # "connected" \/ (UNCHANGED <<cloud_state_s, polled>> /\ ~ Acknowledges)
  BY <1>1 DEF Send, ConnectionLost, clientVars, sessionVars, Acknowledges
<1>2. ConnectionLost(q, a) => cloud_state_s' # "connected"
  BY DEF ConnectionLost
<1> QED BY <1>1, <1>2 DEF Subscribe

LEMMA ServedStep ==
  ASSUME "pollerr" \notin Environment, Typed, LinkInv, ServedInv, [Next]_vars
  PROVE  ServedInv'
<1> USE DEF mainVars, otaVars, localVars, threadVars, workVars, clientVars,
            sessionVars, flashVars, elsewhere
<1>i. client = "idle" => cloud_state_s # "connected"
  BY DEF LinkInv
<1>1. CASE MainConnected \/ ReconnectSucceeds
  BY <1>1 DEF MainConnected, ReconnectSucceeds, ConnectSucceeds, Woken, ServedInv
<1>2. CASE Reboot
  BY <1>2, ServedStays DEF Reboot
<1>3. CASE MainProceeds \/ FotaStarts \/ ReconnectFails \/ TelemetryTick \/ ServerAnswers
             \/ ServerPushes \/ LinkDies \/ Download \/ (\E w \in DelayedWorks : Expires(w))
  <2>1. Undisturbed /\ pc' = pc
    BY <1>3 DEF MainProceeds, FotaStarts, ReconnectFails, TelemetryTick, ServerAnswers,
                ServerPushes, LinkDies, Download, DownloadFinished, DownloadFailed,
                DownloadEnds, Expires, Undisturbed, Acknowledges
  <2> QED BY <2>1, ServedStays
<1>4. CASE App \/ OnConnect \/ OtaRequest \/ PublishOnly
  <2>1. UNCHANGED <<pc, thread_sem>>
    BY <1>4 DEF App, AppPublishes, AppDisconnects, OnConnect, OtaRequest, PublishOnly
  <2>2. cloud_state_s' # "connected" \/ (UNCHANGED <<cloud_state_s, polled>> /\ ~ Acknowledges)
    BY <1>4, SendServes
    DEF App, AppPublishes, AppDisconnects, OnConnect, OtaRequest, PublishOnly
  <2> QED BY <2>1, <2>2, ServedStays DEF Undisturbed
<1>5. CASE OtaCheckSubscribed /\ ~ Reboot
  <2>1. Undisturbed /\ pc' = pc
    BY <1>5, Zenon DEF OtaCheckSubscribed, Undisturbed, Acknowledges
  <2> QED BY <2>1, ServedStays
<1>6. CASE Reconnect
  <2>1. UNCHANGED <<pc, thread_sem, cloud_state_s>>
    BY <1>6 DEF Reconnect
  <2>2. cloud_state_s # "connected" \/ (UNCHANGED polled /\ ~ Acknowledges)
    BY <1>6 DEF Reconnect, Acknowledges
  <2> QED BY <2>1, <2>2, ServedStays DEF Undisturbed
<1>7. CASE ThreadWakes \/ ThreadChecks
  BY <1>7 DEF ThreadWakes, ThreadChecks, ServedInv
<1>8. CASE PollReturns
  BY <1>8 DEF PollReturns, ServedInv
<1>9. CASE PollFails
  BY <1>9 DEF PollFails, ServedInv
<1>10. CASE ThreadLive \/ ReceiveConnack \/ ReceiveSuback \/ ReceiveOta
  <2>1. pc' \notin {"wait", "poll"}
    BY <1>10 DEF ThreadLive, AfterLive, ReceiveConnack, ReceiveSuback, ReceiveOta, AfterInput
  <2> QED BY <2>1, ServedStays
<1>11. CASE ThreadPingFails \/ InputFails \/ ReceiveRefused \/ ThreadAborts
  <2>1. \/ cloud_state_s' # "connected"
        \/ "silent" \in Environment /\ client' = "tcp"
    BY <1>11, <1>i DEF ThreadPingFails, InputFails, ReceiveRefused, ThreadAborts,
                       ConnectionLost
  <2> QED BY <2>1, ServedStays DEF ServedInv
<1>12. CASE ReceiveUnreadable \/ StartUpgrade \/ NoUpdate
  <2>1. pc' \notin {"wait", "poll"}
    BY <1>12 DEF ReceiveUnreadable, StartUpgrade, NoUpdate, AfterInput
  <2> QED BY <2>1, ServedStays
<1>13. MainConnectFails \/ FotaStartFails \/ WatchdogFires \/ RebootWork => Reboot
  BY DEF MainConnectFails, FotaStartFails, WatchdogFires, RebootWork
<1>14. CASE UNCHANGED vars
  BY <1>14, ServedStays DEF vars, Undisturbed, Acknowledges
<1> QED
  BY <1>1, <1>2, <1>3, <1>4, <1>5, <1>6, <1>7, <1>8, <1>9, <1>10, <1>11, <1>12, <1>13, <1>14
  DEF Next, System, Outside, MainThread, WorkItem, CloudThread

(* A connection that is reported has an open client and a thread that      *)
(* serves it or will, however the disconnects, the reconnects and the      *)
(* thread's poll() on the previous socket interleave.                      *)
THEOREM ConnectionsAreServed ==
  ASSUME "silent" \notin Environment, "pollerr" \notin Environment
  PROVE  Spec => []ConnectedIsServed
<1>1. Init => ServedInv
  BY DEF Init, ServedInv
<1>2. Typed /\ LinkInv /\ ServedInv /\ [Next]_vars => ServedInv'
  BY ServedStep
<1>3. LinkInv /\ ServedInv => ConnectedIsServed
  BY DEF LinkInv, ServedInv, ConnectedIsServed
<1> QED BY <1>1, <1>2, <1>3, TypedInit, TypedStep, LinkInit, LinkStep, PTL DEF Spec

-----------------------------------------------------------------------------
(* What only an upgrade that was begun leads to: the download's start, the *)
(* download, the image in the second slot, and the restart.                *)
BusyInv ==
  ("fota" \in armed \cup Pending(queue) \/ download # None \/ slot # None \/ reboot_work)
    => ota_state_s # "ready"

LEMMA BusyFrame ==
  ASSUME BusyInv, UNCHANGED ota_state_s, SchedulesNothing(queue', armed'),
         reboot_work' => reboot_work,
         download' = download \/ download' = None, slot' = slot \/ slot' = None
  PROVE  BusyInv'
  BY DEF BusyInv, SchedulesNothing

(* Only setup(), the start of an upgrade and a restart change the phase of *)
(* the device; only a restart changes the image.                           *)
LEMMA StepKinds ==
  ASSUME Typed, BusyInv, [Next]_vars, ~ Reboot, ~ MainProceeds, ~ StartUpgrade
  PROVE  /\ UNCHANGED main_pc \/ (main_pc # "app" /\ main_pc' # "app")
         /\ UNCHANGED ota_state_s \/ (ota_state_s # "ready" /\ ota_state_s' # "ready")
         /\ UNCHANGED image
<1> USE DEF mainVars, otaVars, localVars, threadVars, workVars, clientVars,
            sessionVars, flashVars, elsewhere
<1>1. CASE MainConnected \/ App
  BY <1>1 DEF MainConnected, App, AppPublishes, AppDisconnects
<1>2. CASE OnConnect \/ OtaRequest \/ PublishOnly \/ Reconnect
  BY <1>2 DEF OnConnect, OtaRequest, PublishOnly, Reconnect
<1>3. CASE OtaCheckSubscribed /\ ~ Reboot
  <2>1. UNCHANGED <<main_pc, ota_state_s, image>>
    BY <1>3, Zenon DEF OtaCheckSubscribed
  <2> QED BY <2>1
<1>4. CASE FotaStarts
  <2>1. "fota" \in Pending(queue)
    BY <1>4, TailFacts DEF FotaStarts, Runs, Typed, TypeOK, WorkTypes
  <2>2. ota_state_s # "ready"
    BY <2>1 DEF BusyInv
  <2> QED BY <1>4, <2>2 DEF FotaStarts
<1>5. CASE ReconnectSucceeds \/ ReconnectFails \/ TelemetryTick \/ \E w \in DelayedWorks : Expires(w)
  BY <1>5 DEF ReconnectSucceeds, ConnectSucceeds, ReconnectFails, TelemetryTick, Expires
<1>6. CASE ThreadWakes \/ ThreadChecks \/ PollReturns \/ PollFails \/ ThreadLive
             \/ ThreadPingFails \/ InputFails \/ ThreadAborts
  BY <1>6 DEF ThreadWakes, ThreadChecks, PollReturns, PollFails, ThreadLive, ThreadPingFails,
              InputFails, ThreadAborts
<1>7. CASE ReceiveConnack \/ ReceiveRefused \/ ReceiveUnreadable \/ ReceiveSuback \/ ReceiveOta
             \/ NoUpdate
  BY <1>7 DEF ReceiveConnack, ReceiveRefused, ReceiveUnreadable, ReceiveSuback, ReceiveOta,
              NoUpdate
<1>8. CASE Download
  <2>1. ota_state_s # "ready" /\ ota_state_s' # "ready" /\ UNCHANGED <<main_pc, image>>
    BY <1>8 DEF Download, DownloadFinished, DownloadFailed, DownloadEnds, BusyInv
  <2> QED BY <2>1
<1>9. CASE ServerAnswers \/ ServerPushes \/ LinkDies \/ UNCHANGED vars
  BY <1>9 DEF ServerAnswers, ServerPushes, LinkDies, vars
<1> QED
  BY <1>1, <1>2, <1>3, <1>4, <1>5, <1>6, <1>7, <1>8, <1>9
  DEF Next, System, Outside, MainThread, WorkItem, CloudThread,
      MainConnectFails, FotaStartFails, WatchdogFires, RebootWork

LEMMA BusyStep ==
  ASSUME Typed, BusyInv, [Next]_vars
  PROVE  BusyInv'
<1> USE DEF mainVars, otaVars, localVars, threadVars, workVars, clientVars,
            sessionVars, flashVars, elsewhere
<1>1. CASE Reboot
  BY <1>1, PendingEmpty DEF Reboot, BusyInv
<1>2. CASE StartUpgrade \/ FotaStarts \/ Download
  <2>1. ota_state_s' # "ready"
    BY <1>2 DEF StartUpgrade, FotaStarts, Download, DownloadFinished, DownloadFailed, DownloadEnds
  <2> QED BY <2>1 DEF BusyInv
<1> SUFFICES ASSUME ~ StartUpgrade
             PROVE  BusyInv'
  BY <1>2
<1>s. SchedulesNothing(queue', armed')
  BY SchedulesStep
<1>f. CASE UNCHANGED <<ota_state_s, reboot_work, download, slot>>
  BY <1>f, <1>s, BusyFrame
<1>3. CASE MainConnected \/ MainProceeds \/ App
  BY <1>3, <1>f DEF MainConnected, MainProceeds, App, AppPublishes, AppDisconnects
<1>4. CASE OnConnect \/ OtaRequest \/ PublishOnly \/ Reconnect
  BY <1>4, <1>f DEF OnConnect, OtaRequest, PublishOnly, Reconnect
<1>5. CASE OtaCheckSubscribed /\ ~ Reboot
  <2>1. UNCHANGED <<ota_state_s, reboot_work, download, slot>>
    BY <1>5, Zenon DEF OtaCheckSubscribed
  <2> QED BY <1>f, <2>1
<1>6. CASE ReconnectSucceeds \/ ReconnectFails \/ TelemetryTick \/ \E w \in DelayedWorks : Expires(w)
  BY <1>6, <1>f DEF ReconnectSucceeds, ConnectSucceeds, ReconnectFails, TelemetryTick, Expires
<1>7. CASE ThreadWakes \/ ThreadChecks \/ PollReturns \/ PollFails \/ ThreadLive
             \/ ThreadPingFails \/ InputFails \/ ThreadAborts
  BY <1>7, <1>f DEF ThreadWakes, ThreadChecks, PollReturns, PollFails, ThreadLive, ThreadPingFails,
                    InputFails, ThreadAborts
<1>8. CASE ReceiveConnack \/ ReceiveRefused \/ ReceiveUnreadable \/ ReceiveSuback \/ ReceiveOta
             \/ NoUpdate
  BY <1>8, <1>f DEF ReceiveConnack, ReceiveRefused, ReceiveUnreadable, ReceiveSuback, ReceiveOta,
                    NoUpdate
<1>9. CASE ServerAnswers \/ ServerPushes \/ LinkDies \/ UNCHANGED vars
  BY <1>9, <1>f DEF ServerAnswers, ServerPushes, LinkDies, vars
<1> QED
  BY <1>1, <1>2, <1>3, <1>4, <1>5, <1>6, <1>7, <1>8, <1>9
  DEF Next, System, Outside, MainThread, WorkItem, CloudThread,
      MainConnectFails, FotaStartFails, WatchdogFires, RebootWork

LEMMA BusyInit == Init => BusyInv
  BY PendingEmpty DEF Init, BusyInv

(* A running application is restarted by an upgrade, or by the watchdog of *)
(* a device that is offline: no assertion, no work and no failure of an    *)
(* earlier boot check or update comes late.                                *)
THEOREM RestartsAreJustified ==
  ASSUME "silent" \notin Environment, "pollerr" \notin Environment
  PROVE  Spec => RestartsForAReason
<1>1. Typed /\ AnswerInv /\ ServedInv /\ BusyInv /\ [Next]_vars =>
        [main_pc = "app" /\ main_pc' = "connect" =>
           ota_state_s # "ready" \/ cloud_state_s = "disconnected"]_vars
  <2> SUFFICES ASSUME Typed, AnswerInv, ServedInv, BusyInv, Next,
                      main_pc = "app", main_pc' = "connect", ota_state_s = "ready"
               PROVE  cloud_state_s = "disconnected"
    OBVIOUS
  <2>1. \/ MainConnectFails \/ OtaCheckSubscribed \/ FotaStartFails
        \/ WatchdogFires \/ RebootWork
    <3>1. CASE MainThread \/ App \/ WorkItem
      BY <3>1 DEF MainThread, MainConnected, MainProceeds, App, AppPublishes, AppDisconnects,
                  WorkItem, OnConnect, OtaRequest, PublishOnly, Reconnect, FotaStarts,
                  mainVars, elsewhere
    <3>2. CASE ReconnectSucceeds \/ ReconnectFails \/ TelemetryTick
                 \/ (\E w \in DelayedWorks : Expires(w)) \/ Download
                 \/ ServerAnswers \/ ServerPushes \/ LinkDies
      BY <3>2 DEF ReconnectSucceeds, ReconnectFails, TelemetryTick, Expires, Download,
                  DownloadFinished, DownloadFailed, DownloadEnds, ServerAnswers, ServerPushes,
                  LinkDies, mainVars, elsewhere
    <3>3. CASE CloudThread
      BY <3>3 DEF CloudThread, ThreadWakes, ThreadChecks, PollReturns, PollFails, ThreadLive,
                  ThreadPingFails, InputFails, ThreadAborts, ReceiveConnack, ReceiveRefused,
                  ReceiveUnreadable, ReceiveSuback, ReceiveOta, StartUpgrade, NoUpdate,
                  mainVars, elsewhere
    <3> QED BY <3>1, <3>2, <3>3 DEF Next, System, Outside
  <2>2. ~ MainConnectFails /\ ~ RebootWork
    BY DEF MainConnectFails, RebootWork, BusyInv
  <2>3. ASSUME OtaCheckSubscribed
        PROVE  FALSE
    <3>1. initial_ota_check
      BY DEF AnswerInv
    <3>2. UNCHANGED main_pc
      BY <2>3, <3>1, Zenon DEF OtaCheckSubscribed, AssertAnswered, elsewhere, mainVars
    <3> QED BY <3>2
  <2>4. ~ FotaStartFails
    BY TailFacts DEF FotaStartFails, Runs, BusyInv, Typed, TypeOK, WorkTypes
  <2>5. WatchdogFires
    BY <2>1, <2>2, <2>3, <2>4
  <2>6. cloud_state_s # "connected"
    BY <2>5 DEF WatchdogFires, ServedInv
  <2> QED BY <2>6 DEF Typed, TypeOK, SessionTypes
<1>2. Init => ServedInv
  BY DEF Init, ServedInv
<1>3. Typed /\ LinkInv /\ ServedInv /\ [Next]_vars => ServedInv'
  BY ServedStep
<1>4. Typed /\ BusyInv /\ [Next]_vars => BusyInv'
  BY BusyStep
<1> QED
  BY <1>1, <1>2, <1>3, <1>4, TypedInit, TypedStep, LinkInit, LinkStep, AnswerInit, AnswerStep,
     BusyInit, PTL DEF Spec, RestartsForAReason

-----------------------------------------------------------------------------
(* Item w is armed, or pending in the FIFO q.                              *)
Waits(w, q, a) == w \in a \cup Pending(q)

LEMMA LostWaits ==
  ASSUME NEW q \in Seq(Works), Once(q), NEW a, NEW w, Waits(w, q, a), ConnectionLost(q, a)
  PROVE  Waits(w, queue', armed')
<1>1. Pending(queue') = Pending(q) \ {"reconnect"} /\ armed' = a \cup {"reconnect"}
  BY CancelFacts DEF ConnectionLost, ClientIdle, RetryLater
<1> QED BY <1>1 DEF Waits

LEMMA SendWaits ==
  ASSUME NEW q \in Seq(Works), Once(q), NEW a, NEW w, Waits(w, q, a),
         NEW s, NEW p, Send(q, a, s, p)
  PROVE  Waits(w, queue', armed')
<1>1. CASE ConnectionLost(q, a)
  BY <1>1, LostWaits
<1>2. CASE queue' = q /\ armed' = a
  BY <1>2
<1> QED BY <1>1, <1>2 DEF Send

LEMMA SubscribeWaits ==
  ASSUME NEW q \in Seq(Works), Once(q), NEW a, NEW w, Waits(w, q, a),
         NEW topic, NEW id, Subscribe(q, a, topic, id)
  PROVE  Waits(w, queue', armed')
  BY SendWaits DEF Subscribe

(* The step runs the handler of item w. *)
Handles(w) ==
  \/ w = "on_connect" /\ OnConnect
  \/ w = "ota_check" /\ OtaCheckSubscribed
  \/ w = "fota" /\ FotaStarts
  \/ w = "ota_request" /\ OtaRequest
  \/ w \in {"ota_done", "telemetry"} /\ PublishOnly
  \/ w = "reconnect" /\ Reconnect

(* Work that was submitted waits until it runs or the device restarts.     *)
LEMMA WaitsStep ==
  ASSUME Typed, [Next]_vars, NEW w \in Works, Waits(w, queue, armed), ~ Reboot, ~ Handles(w)
  PROVE  Waits(w, queue', armed')
<1> USE DEF mainVars, otaVars, localVars, threadVars, workVars, clientVars,
            sessionVars, flashVars, elsewhere
<1>w. queue \in Seq(Works) /\ Once(queue)
  BY DEF Typed, TypeOK, WorkTypes
<1>u. CASE UNCHANGED <<queue, armed>>
  BY <1>u
<1>r. ASSUME NEW h, Runs(h), w # h
      PROVE  /\ Tail(queue) \in Seq(Works) /\ Once(Tail(queue))
             /\ Waits(w, Tail(queue), armed)
  BY <1>r, <1>w, TailFacts DEF Runs, Waits
<1>s. ASSUME NEW h \in Works
      PROVE  /\ Submit(queue, h) \in Seq(Works) /\ Once(Submit(queue, h))
             /\ Waits(w, Submit(queue, h), armed)
             /\ Waits(w, Submit(queue, h), armed \ {h})
  <2>1. /\ Submit(queue, h) \in Seq(Works) /\ Once(Submit(queue, h))
        /\ Pending(Submit(queue, h)) = Pending(queue) \cup {h}
    BY <1>w, SubmitFacts
  <2> QED BY <2>1 DEF Waits
<1>1. CASE App
  BY <1>1, <1>w, SendWaits, LostWaits DEF App, AppPublishes, AppDisconnects
<1>2. CASE OnConnect
  <2>1. Runs("on_connect") /\ w # "on_connect"
    BY <1>2 DEF OnConnect, Handles
  <2>2. /\ Tail(queue) \in Seq(Works) /\ Once(Tail(queue))
        /\ Waits(w, Tail(queue), armed)
    BY <1>r, <2>1
  <2>3. \/ \E id \in Ids : Subscribe(Tail(queue), armed, "ota", id)
        \/ Send(Tail(queue), armed, {}, <<>>)
    BY <1>2 DEF OnConnect
  <2> QED BY <2>2, <2>3, SendWaits, SubscribeWaits
<1>3. CASE OtaRequest
  <2>1. Runs("ota_request") /\ w # "ota_request" /\ Send(Tail(queue), armed, {}, <<>>)
    BY <1>3 DEF OtaRequest, Handles
  <2> QED BY <1>r, <2>1, SendWaits
<1>4. CASE PublishOnly
  <2>1. PICK h \in {"ota_done", "telemetry"} : Runs(h)
    BY <1>4 DEF PublishOnly
  <2>2. w # h
    BY <1>4 DEF Handles
  <2>3. Send(Tail(queue), armed, {}, <<>>)
    BY <1>4 DEF PublishOnly
  <2> QED BY <1>r, <2>1, <2>2, <2>3, SendWaits
<1>5. CASE OtaCheckSubscribed
  <2>1. Runs("ota_check") /\ w # "ota_check"
    BY <1>5 DEF OtaCheckSubscribed, Handles
  <2>2. queue' = Tail(queue) /\ UNCHANGED armed
    BY <1>5, Zenon DEF OtaCheckSubscribed
  <2> QED BY <1>r, <2>1, <2>2
<1>6. CASE Reconnect
  <2>1. Runs("reconnect") /\ w # "reconnect"
    BY <1>6 DEF Reconnect, Handles
  <2>2. /\ Tail(queue) \in Seq(Works) /\ Once(Tail(queue)) /\ Waits(w, Tail(queue), armed)
    BY <1>r, <2>1
  <2>3. Pending(Cancel(Tail(queue), "reconnect")) = Pending(Tail(queue)) \ {"reconnect"}
    BY <2>2, CancelFacts
  <2>4. \/ queue' = Cancel(Tail(queue), "reconnect") /\ armed' = armed \cup {"reconnect"}
        \/ queue' = Tail(queue) /\ armed' = armed
    BY <1>6 DEF Reconnect, RetryLater
  <2> QED BY <2>1, <2>2, <2>3, <2>4 DEF Waits
<1>7. CASE FotaStarts
  <2>1. Runs("fota") /\ w # "fota" /\ queue' = Tail(queue) /\ UNCHANGED armed
    BY <1>7 DEF FotaStarts, Handles
  <2> QED BY <1>r, <2>1
<1>8. CASE ReconnectFails
  <2>1. Pending(queue') = Pending(queue) \ {"reconnect"} /\ armed' = armed \cup {"reconnect"}
    BY <1>8, <1>w, CancelFacts DEF ReconnectFails, RetryLater
  <2> QED BY <2>1 DEF Waits
<1>9. CASE ThreadPingFails \/ InputFails \/ ThreadAborts
  BY <1>9, <1>w, <1>u, LostWaits DEF ThreadPingFails, InputFails, ThreadAborts
<1>10. CASE ReceiveRefused \/ ReceiveUnreadable
  BY <1>10, <1>w, LostWaits DEF ReceiveRefused, ReceiveUnreadable
<1>11. CASE ReceiveConnack
  <2>1. queue' = Submit(queue, "on_connect") /\ armed' = armed
    BY <1>11 DEF ReceiveConnack
  <2> QED BY <1>s, <2>1 DEF Works
<1>12. CASE ReceiveSuback
  <2> DEFINE q == Submit(queue, "ota_request")
  <2>1. q \in Seq(Works) /\ Once(q) /\ Waits(w, q, armed)
    BY <1>s DEF Works
  <2>2. Pending(Cancel(q, "ota_check")) = Pending(q) \ {"ota_check"}
    BY <2>1, CancelFacts
  <2>3. \/ queue' = Cancel(q, "ota_check") /\ armed' = armed \cup {"ota_check"}
        \/ UNCHANGED workVars
    BY <1>12 DEF ReceiveSuback
  <2> HIDE DEF q
  <2> QED BY <2>1, <2>2, <2>3 DEF Waits
<1>13. CASE StartUpgrade
  <2> DEFINE q == Cancel(queue, "fota")
  <2>1. q \in Seq(Works) /\ Once(q) /\ Pending(q) = Pending(queue) \ {"fota"}
    BY <1>w, CancelFacts
  <2>2. Send(q, armed \cup {"fota"}, {}, <<>>)
    BY <1>13 DEF StartUpgrade
  <2>3. Waits(w, q, armed \cup {"fota"})
    BY <2>1 DEF Waits
  <2> QED BY <2>1, <2>2, <2>3, SendWaits
<1>14. CASE NoUpdate
  <2>1. \/ \E id \in Ids : Subscribe(Submit(queue, "ota_done"), armed, "app", id)
        \/ Send(queue, armed, {}, <<>>)
    BY <1>14 DEF NoUpdate
  <2>2. /\ Submit(queue, "ota_done") \in Seq(Works) /\ Once(Submit(queue, "ota_done"))
        /\ Waits(w, Submit(queue, "ota_done"), armed)
    BY <1>s DEF Works
  <2> QED BY <1>w, <2>1, <2>2, SendWaits, SubscribeWaits
<1>15. ASSUME NEW h \in DelayedWorks, Expires(h)
       PROVE  Waits(w, queue', armed')
  <2>1. h \in Works /\ queue' = Submit(queue, h) /\ armed' = armed \ {h}
    BY <1>15 DEF Expires, Works
  <2> QED BY <1>s, <2>1
<1>16. CASE TelemetryTick
  <2>1. queue' = Submit(queue, "telemetry") /\ armed' = armed
    BY <1>16 DEF TelemetryTick
  <2> QED BY <1>s, <2>1 DEF Works
<1>17. CASE MainConnected \/ MainProceeds \/ ReconnectSucceeds \/ ServerAnswers
              \/ ServerPushes \/ LinkDies \/ Download \/ UNCHANGED vars
  <2>1. UNCHANGED <<queue, armed>>
    BY <1>17 DEF MainConnected, MainProceeds, ReconnectSucceeds, ConnectSucceeds,
                 ServerAnswers, ServerPushes, LinkDies, Download, DownloadFinished,
                 DownloadFailed, DownloadEnds, vars
  <2> QED BY <1>u, <2>1
<1>18. CASE ThreadWakes \/ ThreadChecks \/ PollReturns \/ PollFails \/ ThreadLive \/ ReceiveOta
  <2>1. UNCHANGED <<queue, armed>>
    BY <1>18 DEF ThreadWakes, ThreadChecks, PollReturns, PollFails, ThreadLive, ReceiveOta
  <2> QED BY <1>u, <2>1
<1> QED
  BY <1>1, <1>2, <1>3, <1>4, <1>5, <1>6, <1>7, <1>8, <1>9, <1>10, <1>11, <1>12,
     <1>13, <1>14, <1>15, <1>16, <1>17, <1>18
  DEF Next, System, Outside, MainThread, WorkItem, CloudThread,
      MainConnectFails, FotaStartFails, WatchdogFires, RebootWork

(* A session that waits for its CONNACK has it, or the refusal, first on   *)
(* its way.                                                                *)
AnswerComing(packets) ==
  packets # <<>> /\ Head(packets).type \in {"connack", "refused"}

ConnackInv == client = "tcp" /\ link = "up" => AnswerComing(down)

LEMMA ConnackFrame ==
  ASSUME ConnackInv, client' = client, link' = link, down' = down
  PROVE  ConnackInv'
  BY DEF ConnackInv

LEMMA ConnackAppend ==
  ASSUME Typed, ConnackInv, client' = client, link' = link, NEW p, down' = Append(down, p)
  PROVE  ConnackInv'
<1>1. down \in Seq(Packets)
  BY DEF Typed, TypeOK, SessionTypes
<1>2. down # <<>> => down' # <<>> /\ Head(down') = Head(down)
  BY <1>1
<1> QED BY <1>2 DEF ConnackInv, AnswerComing

LEMMA SendConnack ==
  ASSUME ConnackInv, NEW q, NEW a, NEW s, NEW p, Send(q, a, s, p) \/ ConnectionLost(q, a)
  PROVE  ConnackInv'
<1>1. CASE ConnectionLost(q, a)
  BY <1>1 DEF ConnectionLost, ClientIdle, ConnackInv
<1>2. CASE Delivered /\ UNCHANGED clientVars
  BY <1>2 DEF Delivered, ConnackInv, clientVars
<1>3. CASE UNCHANGED sessionVars
  BY <1>3, ConnackFrame DEF sessionVars, clientVars
<1> QED BY <1>1, <1>2, <1>3 DEF Send

LEMMA ConnackStep == Typed /\ ConnackInv /\ [Next]_vars => ConnackInv'
<1> SUFFICES ASSUME Typed, ConnackInv, [Next]_vars
             PROVE  ConnackInv'
  OBVIOUS
<1> USE DEF mainVars, otaVars, localVars, threadVars, workVars, clientVars,
            sessionVars, flashVars, elsewhere
<1>1. CASE Reboot
  BY <1>1 DEF Reboot, ConnackInv
<1>2. CASE MainConnected \/ ReconnectSucceeds
  <2>1. down' = <<[type |-> "connack"]>> \/ down' = <<[type |-> "refused"]>>
    BY <1>2 DEF MainConnected, ReconnectSucceeds, ConnectSucceeds
  <2>2. AnswerComing(down')
    BY <2>1 DEF AnswerComing
  <2> QED BY <2>2 DEF ConnackInv
<1>3. CASE App \/ OtaRequest \/ PublishOnly
  BY <1>3, SendConnack DEF App, AppPublishes, AppDisconnects, OtaRequest, PublishOnly
<1>4. CASE OnConnect \/ NoUpdate \/ StartUpgrade
  BY <1>4, SendConnack DEF OnConnect, NoUpdate, StartUpgrade, Subscribe
<1>5. CASE OtaCheckSubscribed /\ ~ Reboot
  <2>1. UNCHANGED <<client, link, down>>
    BY <1>5, Zenon DEF OtaCheckSubscribed
  <2> QED BY <2>1, ConnackFrame
<1>6. CASE Reconnect
  BY <1>6, ConnackFrame DEF Reconnect, ClientIdle, ConnackInv
<1>7. CASE MainProceeds \/ FotaStarts \/ ReconnectFails \/ TelemetryTick \/ Download
             \/ \E w \in DelayedWorks : Expires(w)
  BY <1>7, ConnackFrame
  DEF MainProceeds, FotaStarts, ReconnectFails, TelemetryTick, Download, DownloadFinished,
      DownloadFailed, DownloadEnds, Expires
<1>8. CASE ThreadWakes \/ ThreadChecks \/ PollReturns \/ PollFails \/ ThreadLive \/ UNCHANGED vars
  BY <1>8, ConnackFrame
  DEF ThreadWakes, ThreadChecks, PollReturns, PollFails, ThreadLive, vars
<1>9. CASE ThreadPingFails \/ InputFails \/ ThreadAborts
  BY <1>9, SendConnack, ConnackFrame DEF ThreadPingFails, InputFails, ThreadAborts
<1>10. CASE ReceiveRefused \/ ReceiveUnreadable
  BY <1>10, SendConnack DEF ReceiveRefused, ReceiveUnreadable
<1>11. CASE ReceiveConnack
  BY <1>11 DEF ReceiveConnack, ConnackInv
<1>12. CASE ReceiveSuback \/ ReceiveOta
  <2>1. /\ Head(down).type \in {"suback", "publish"}
        /\ UNCHANGED <<client, link>>
    BY <1>12 DEF ReceiveSuback, ReceiveOta, Receives
  <2>2. ~ (client = "tcp" /\ link = "up")
    BY <2>1 DEF ConnackInv, AnswerComing
  <2> QED BY <2>1, <2>2 DEF ConnackInv
<1>13. CASE ServerAnswers \/ ServerPushes
  <2>1. UNCHANGED <<client, link>>
    BY <1>13 DEF ServerAnswers, ServerPushes
  <2>2. UNCHANGED down \/ \E p : down' = Append(down, p)
    BY <1>13 DEF ServerAnswers, ServerPushes, ToDevice
  <2> QED BY <2>1, <2>2, ConnackFrame, ConnackAppend
<1>14. CASE LinkDies
  BY <1>14 DEF LinkDies, ConnackInv
<1> QED
  BY <1>1, <1>2, <1>3, <1>4, <1>5, <1>6, <1>7, <1>8, <1>9, <1>10, <1>11, <1>12, <1>13, <1>14
  DEF Next, System, Outside, MainThread, WorkItem, CloudThread,
      MainConnectFails, FotaStartFails, WatchdogFires, RebootWork

(* An upgrade that was begun has its next event under way: the work that   *)
(* starts the download, the download, or the restart.  What is to be       *)
(* downloaded is known.                                                    *)
UpgradeInv ==
  /\ Waits("fota", queue, armed) \/ result => ota_data # None
  /\ ota_state_s = "started" => Waits("fota", queue, armed)
  /\ ota_state_s = "downloading" => download # None
  /\ ota_state_s \in {"done", "error"} => reboot_work

LEMMA UpgradeFrame ==
  ASSUME Typed, UpgradeInv, [Next]_vars, ~ Reboot, ~ FotaStarts, ~ StartUpgrade,
         UNCHANGED <<result, ota_data, ota_state_s, download, reboot_work>>
  PROVE  UpgradeInv'
<1>1. SchedulesNothing(queue', armed')
  BY SchedulesStep
<1>2. Waits("fota", queue, armed) => Waits("fota", queue', armed')
  BY WaitsStep DEF Works, DelayedWorks, Handles
<1> QED BY <1>1, <1>2 DEF UpgradeInv, SchedulesNothing, Waits

LEMMA UpgradeStep == Typed /\ UpgradeInv /\ [Next]_vars => UpgradeInv'
<1> SUFFICES ASSUME Typed, UpgradeInv, [Next]_vars
             PROVE  UpgradeInv'
  OBVIOUS
<1> USE DEF mainVars, otaVars, localVars, threadVars, workVars, clientVars,
            sessionVars, flashVars, elsewhere
<1>w. queue \in Seq(Works) /\ Once(queue)
  BY DEF Typed, TypeOK, WorkTypes
<1>1. CASE Reboot
  BY <1>1, PendingEmpty DEF Reboot, UpgradeInv, Waits
<1>2. CASE StartUpgrade
  <2> DEFINE q == Cancel(queue, "fota")
  <2>1. q \in Seq(Works) /\ Once(q)
    BY <1>w, CancelFacts
  <2>2. Send(q, armed \cup {"fota"}, {}, <<>>) /\ Waits("fota", q, armed \cup {"fota"})
    BY <1>2 DEF StartUpgrade, Waits
  <2>3. Waits("fota", queue', armed')
    BY <2>1, <2>2, SendWaits
  <2>4. ota_state_s' = "started" /\ ota_data # None /\ UNCHANGED ota_data
    BY <1>2 DEF StartUpgrade, UpgradeInv
  <2> QED BY <2>3, <2>4 DEF UpgradeInv
<1>3. CASE FotaStarts
  <2>1. Waits("fota", queue, armed)
    BY <1>3, TailFacts DEF FotaStarts, Runs, Typed, TypeOK, WorkTypes, Waits
  <2>2. ota_state_s' = "downloading" /\ UNCHANGED ota_data /\ ota_data # None
    BY <1>3, <2>1 DEF FotaStarts, UpgradeInv
  <2>3. download' # None
    BY <1>3, <2>2 DEF FotaStarts
  <2> QED BY <2>2, <2>3 DEF UpgradeInv
<1> SUFFICES ASSUME ~ Reboot, ~ StartUpgrade, ~ FotaStarts
             PROVE  UpgradeInv'
  BY <1>1, <1>2, <1>3
<1>s. SchedulesNothing(queue', armed')
  BY SchedulesStep
<1>k. Waits("fota", queue, armed) => Waits("fota", queue', armed')
  BY WaitsStep DEF Works, DelayedWorks, Handles
<1>f. CASE UNCHANGED <<result, ota_data, ota_state_s, download, reboot_work>>
  BY <1>f, UpgradeFrame
<1>4. CASE ReceiveOta
  <2> DEFINE m == Head(down).message
  <2>1. m \in OtaMessage
    BY <1>4, CloudAssumption DEF ReceiveOta, Receives, Packets, Typed, TypeOK, SessionTypes
  <2>2. /\ ota_data' = IF m.url THEN m.version ELSE ota_data
        /\ result' => m.ok
        /\ UNCHANGED <<ota_state_s, download, reboot_work>>
    BY <1>4 DEF ReceiveOta
  <2>3. m.url => m.version # None
    BY <2>1, CloudAssumption DEF OtaMessage
  <2>4. m.ok => m.url
    BY <2>1 DEF OtaMessage
  <2> HIDE DEF m
  <2>5. Waits("fota", queue', armed') => ota_data # None
    BY <1>s DEF UpgradeInv, SchedulesNothing, Waits
  <2>6. Waits("fota", queue', armed') \/ result' => ota_data' # None
    BY <2>2, <2>3, <2>4, <2>5
  <2> QED BY <1>k, <2>2, <2>6 DEF UpgradeInv
<1>5. CASE Download
  <2>1. ota_state_s' \in {"done", "error"} /\ reboot_work' /\ UNCHANGED <<result, ota_data>>
    BY <1>5 DEF Download, DownloadFinished, DownloadFailed, DownloadEnds, RebootSoon
  <2>2. Waits("fota", queue', armed') => Waits("fota", queue, armed)
    BY <1>s DEF SchedulesNothing, Waits
  <2> QED BY <2>1, <2>2 DEF UpgradeInv
<1>6. CASE MainConnected \/ MainProceeds \/ App
  BY <1>6, <1>f DEF MainConnected, MainProceeds, App, AppPublishes, AppDisconnects
<1>7. CASE OnConnect \/ OtaRequest \/ PublishOnly \/ Reconnect
  BY <1>7, <1>f DEF OnConnect, OtaRequest, PublishOnly, Reconnect
<1>8. CASE OtaCheckSubscribed
  <2>1. UNCHANGED <<result, ota_data, ota_state_s, download, reboot_work>>
    BY <1>8, Zenon DEF OtaCheckSubscribed
  <2> QED BY <1>f, <2>1
<1>9. CASE ReconnectSucceeds \/ ReconnectFails \/ TelemetryTick \/ \E w \in DelayedWorks : Expires(w)
  BY <1>9, <1>f DEF ReconnectSucceeds, ConnectSucceeds, ReconnectFails, TelemetryTick, Expires
<1>10. CASE ThreadWakes \/ ThreadChecks \/ PollReturns \/ PollFails \/ ThreadLive
             \/ ThreadPingFails \/ InputFails \/ ThreadAborts
  BY <1>10, <1>f DEF ThreadWakes, ThreadChecks, PollReturns, PollFails, ThreadLive,
                     ThreadPingFails, InputFails, ThreadAborts
<1>11. CASE ReceiveConnack \/ ReceiveRefused \/ ReceiveUnreadable \/ ReceiveSuback \/ NoUpdate
  BY <1>11, <1>f DEF ReceiveConnack, ReceiveRefused, ReceiveUnreadable, ReceiveSuback, NoUpdate
<1>12. CASE ServerAnswers \/ ServerPushes \/ LinkDies \/ UNCHANGED vars
  BY <1>12, <1>f DEF ServerAnswers, ServerPushes, LinkDies, vars
<1> QED
  BY <1>4, <1>5, <1>6, <1>7, <1>8, <1>9, <1>10, <1>11, <1>12
  DEF Next, System, Outside, MainThread, WorkItem, CloudThread,
      MainConnectFails, FotaStartFails, WatchdogFires, RebootWork

(* What the handshake of an open session waits for next, up to the answer: *)
(* the subscription, its acknowledgment, or the check that the answer came *)
(* (a request is on its way, and no answer is a restart).                  *)
HandshakeOn ==
  \/ ota_sub_message_id = 0
  \/ Waits("on_connect", queue, armed)
  \/ Waits("ota_check", queue, armed)
  \/ [type |-> "suback", id |-> ota_sub_message_id] \in ToSet(down)

HandshakeInv ==
  /\ main_pc = "connect" => ~ initial_ota_check
  /\ main_pc = "wait" /\ ota_state_s = "ready" =>
       IF initial_ota_check THEN proceed \/ pc = "publish"
       ELSE client = "connected" /\ link = "up" => HandshakeOn

(* A step before the answer that leaves the session and its packets.       *)
LEMMA HandshakeWaits ==
  ASSUME Typed, [Next]_vars, HandshakeOn, ~ Reboot, ~ OnConnect, ~ OtaCheckSubscribed,
         UNCHANGED ota_sub_message_id,
         \A p \in ToSet(down) : p.type = "suback" => p \in ToSet(down')
  PROVE  HandshakeOn'
<1>1. \A w \in {"on_connect", "ota_check"} :
        Waits(w, queue, armed) => Waits(w, queue', armed')
  BY WaitsStep DEF Works, DelayedWorks, Handles
<1> QED BY <1>1 DEF HandshakeOn

(* A step that neither answers, nor lets main() go on, nor opens a session. *)
LEMMA HandshakeFrame ==
  ASSUME HandshakeInv, UNCHANGED <<main_pc, initial_ota_check>>,
         ota_state_s' = "ready" => ota_state_s = "ready",
         proceed => proceed', pc = "publish" => pc' = "publish" \/ proceed',
         client' = "connected" /\ link' = "up" =>
           \/ initial_ota_check
           \/ client = "connected" /\ link = "up" /\ (HandshakeOn => HandshakeOn')
           \/ HandshakeOn'
  PROVE  HandshakeInv'
  BY DEF HandshakeInv

(* Writing to a session takes nothing from it, or closes it.               *)
LEMMA SendKeeps ==
  ASSUME Typed, NEW q, NEW a, NEW s, NEW p \in Seq(Packets),
         Send(q, a, s, p) \/ ConnectionLost(q, a), client' = "connected"
  PROVE  /\ client = "connected" /\ UNCHANGED link
         /\ ToSet(down) \subseteq ToSet(down')
         /\ link = "up" => down' = down \o p
<1>1. down \in Seq(Packets)
  BY DEF Typed, TypeOK, SessionTypes
<1>2. ToSet(down) \subseteq ToSet(down \o p)
  BY <1>1 DEF ToSet
<1>3. ~ ConnectionLost(q, a)
  BY DEF ConnectionLost, ClientIdle
<1>4. CASE down' = down \o p /\ UNCHANGED clientVars /\ Delivered
  BY <1>2, <1>4 DEF clientVars, Delivered
<1>5. CASE ~ Delivered /\ UNCHANGED sessionVars
  BY <1>5 DEF clientVars, sessionVars, Delivered
<1> QED BY <1>3, <1>4, <1>5 DEF Send

LEMMA HandshakeStep ==
  Typed /\ LinkInv /\ AnswerInv /\ BusyInv /\ HandshakeInv /\ [Next]_vars => HandshakeInv'
<1> SUFFICES ASSUME Typed, LinkInv, AnswerInv, BusyInv, HandshakeInv, [Next]_vars
             PROVE  HandshakeInv'
  OBVIOUS
<1> USE DEF mainVars, otaVars, localVars, threadVars, workVars, clientVars,
            sessionVars, flashVars, elsewhere
<1>w. queue \in Seq(Works) /\ Once(queue) /\ down \in Seq(Packets)
  BY DEF Typed, TypeOK, WorkTypes, SessionTypes
<1>e. <<>> \in Seq(Packets)
  OBVIOUS
<1>1. CASE Reboot
  BY <1>1 DEF Reboot, HandshakeInv
<1>2. CASE MainConnected
  BY <1>2 DEF MainConnected, ConnectSucceeds, HandshakeInv
<1>3. CASE MainProceeds
  BY <1>3 DEF MainProceeds, HandshakeInv
<1>4. CASE StartUpgrade
  <2>1. ota_state_s' = "started" /\ main_pc # "connect" /\ UNCHANGED main_pc
    BY <1>4 DEF StartUpgrade, LinkInv, AtReset
  <2> QED BY <2>1 DEF HandshakeInv
<1>5. CASE ReceiveOta
  <2>1. main_pc # "connect" /\ UNCHANGED main_pc /\ initial_ota_check' /\ pc' = "publish"
    BY <1>5 DEF ReceiveOta, Receives, LinkInv, AtReset
  <2> QED BY <2>1 DEF HandshakeInv
<1>6. CASE OtaCheckSubscribed
  <2>1. CASE initial_ota_check
    <3>1. UNCHANGED <<main_pc, proceed, initial_ota_check, ota_state_s, pc>> \/ Reboot
      BY <1>6, Zenon DEF OtaCheckSubscribed
    <3>2. CASE UNCHANGED <<main_pc, proceed, initial_ota_check, ota_state_s, pc>>
      BY <2>1, <3>2 DEF HandshakeInv
    <3> QED BY <1>1, <3>1, <3>2
  <2>2. CASE ~ initial_ota_check
    BY <1>1, <1>6, <2>2 DEF OtaCheckSubscribed, AssertAnswered
  <2> QED BY <2>1, <2>2
<1>7. CASE OnConnect
  <2>1. /\ UNCHANGED <<main_pc, proceed, initial_ota_check, ota_state_s, pc>>
        /\ queue # <<>>
    BY <1>7 DEF OnConnect, Runs
  <2>2. main_pc # "connect"
    BY <2>1 DEF LinkInv, AtReset
  <2>3. ASSUME ota_state_s = "ready", client' = "connected", link' = "up"
        PROVE  HandshakeOn'
    <3>1. PICK id \in Ids : ota_sub_message_id' = id /\ Subscribe(Tail(queue), armed, "ota", id)
      BY <1>7, <2>3 DEF OnConnect
    <3> DEFINE ack == [type |-> "suback", id |-> id]
    <3>2. CASE id # 0
      <4>1. Send(Tail(queue), armed, {"ota"}, <<ack>>)
        BY <3>1, <3>2 DEF Subscribe
      <4>2. ack \in Packets
        BY DEF Packets
      <4> HIDE DEF ack
      <4>3. link = "up" /\ down' = down \o <<ack>>
        <5>1. <<ack>> \in Seq(Packets)
          BY <4>2
        <5>2. UNCHANGED link /\ (link = "up" => down' = down \o <<ack>>)
          BY <2>3, <4>1, <5>1, SendKeeps
        <5> QED BY <2>3, <5>2
      <4>4. ack \in ToSet(down')
        <5>1. Len(down) + 1 \in DOMAIN (down \o <<ack>>) /\ (down \o <<ack>>)[Len(down) + 1] = ack
          BY <1>w, <4>2
        <5> QED BY <4>3, <5>1 DEF ToSet
      <4> QED BY <3>1, <4>4 DEF HandshakeOn, ack
    <3>3. CASE id = 0
      BY <3>1, <3>3 DEF HandshakeOn
    <3> QED BY <3>2, <3>3
  <2> QED BY <2>1, <2>2, <2>3 DEF HandshakeInv
<1>8. CASE NoUpdate
  <2>1. /\ UNCHANGED <<main_pc, initial_ota_check, ota_state_s>> /\ pc = "publish"
        /\ ota_state_s = "ready" => proceed'
    BY <1>8 DEF NoUpdate, LetMainGo
  <2>2. main_pc # "connect" /\ initial_ota_check
    BY <2>1 DEF LinkInv, AtReset, AnswerInv
  <2> QED BY <2>1, <2>2 DEF HandshakeInv
<1> SUFFICES ASSUME ~ Reboot, ~ OnConnect, ~ OtaCheckSubscribed
             PROVE  HandshakeInv'
  BY <1>1, <1>6, <1>7
<1>s. ASSUME UNCHANGED ota_sub_message_id,
             \A p \in ToSet(down) : p.type = "suback" => p \in ToSet(down')
      PROVE  HandshakeOn => HandshakeOn'
  BY <1>s, HandshakeWaits
<1>f. CASE UNCHANGED <<main_pc, proceed, initial_ota_check, ota_state_s, pc>>
             /\ (UNCHANGED <<client, link, down, ota_sub_message_id>> \/ client' # "connected")
  BY <1>f, <1>s, HandshakeFrame
<1>9. CASE App \/ OtaRequest \/ PublishOnly
  <2>1. /\ UNCHANGED <<main_pc, proceed, initial_ota_check, ota_state_s, pc, ota_sub_message_id>>
    BY <1>9 DEF App, AppPublishes, AppDisconnects, OtaRequest, PublishOnly
  <2>2. \E q, a : Send(q, a, {}, <<>>) \/ ConnectionLost(q, a)
    BY <1>9 DEF App, AppPublishes, AppDisconnects, OtaRequest, PublishOnly
  <2>3. client' = "connected" =>
          client = "connected" /\ UNCHANGED link /\ ToSet(down) \subseteq ToSet(down')
    BY <1>e, <2>2, SendKeeps
  <2> QED BY <1>s, <2>1, <2>3, HandshakeFrame
<1>10. CASE Reconnect \/ FotaStarts
  <2>1. Reconnect => UNCHANGED <<client, link, down>> \/ client' # "connected"
    BY DEF Reconnect, ClientIdle
  <2>2. UNCHANGED <<main_pc, proceed, initial_ota_check, pc, ota_sub_message_id>>
    BY <1>10 DEF Reconnect, FotaStarts
  <2>3. Reconnect => UNCHANGED ota_state_s
    BY DEF Reconnect
  <2>4. FotaStarts => ota_state_s' # "ready" /\ UNCHANGED <<client, link, down>>
    BY DEF FotaStarts
  <2> QED BY <1>10, <1>f, <1>s, <2>1, <2>2, <2>3, <2>4, HandshakeFrame
<1>11. CASE ReconnectSucceeds \/ ReconnectFails \/ TelemetryTick \/ \E w \in DelayedWorks : Expires(w)
  BY <1>11, <1>f DEF ReconnectSucceeds, ConnectSucceeds, ReconnectFails, TelemetryTick, Expires
<1>12. CASE ThreadWakes \/ ThreadChecks \/ PollReturns \/ PollFails \/ ThreadLive
  <2>1. /\ UNCHANGED <<main_pc, proceed, initial_ota_check, ota_state_s, client, link, down,
                       ota_sub_message_id>>
        /\ pc # "publish"
    BY <1>12 DEF ThreadWakes, ThreadChecks, PollReturns, PollFails, ThreadLive
  <2> QED BY <1>s, <2>1, HandshakeFrame
<1>13. CASE ThreadPingFails \/ InputFails \/ ThreadAborts \/ ReceiveRefused \/ ReceiveUnreadable
  <2>1. /\ UNCHANGED <<main_pc, proceed, initial_ota_check, ota_state_s, ota_sub_message_id>>
        /\ pc # "publish"
    BY <1>13 DEF ThreadPingFails, InputFails, ThreadAborts, ReceiveRefused, ReceiveUnreadable,
                 Receives
  <2>2. UNCHANGED <<client, link, down>> \/ client' # "connected"
    BY <1>13 DEF ThreadPingFails, InputFails, ThreadAborts, ReceiveRefused, ReceiveUnreadable,
                 ConnectionLost, ClientIdle
  <2> QED BY <1>s, <2>1, <2>2, HandshakeFrame
<1>14. CASE ReceiveConnack
  <2>1. /\ UNCHANGED <<main_pc, proceed, initial_ota_check, ota_state_s>>
        /\ pc # "publish" /\ queue' = Submit(queue, "on_connect")
    BY <1>14 DEF ReceiveConnack, Receives
  <2>2. HandshakeOn'
    BY <1>w, <2>1, SubmitFacts DEF HandshakeOn, Waits, Works
  <2> QED BY <2>1, <2>2, HandshakeFrame
<1>15. CASE ReceiveSuback
  <2>1. /\ UNCHANGED <<main_pc, proceed, initial_ota_check, ota_state_s, client, link,
                       ota_sub_message_id>>
        /\ pc # "publish" /\ down # <<>> /\ down' = Tail(down)
    BY <1>15 DEF ReceiveSuback, Receives
  <2>2. ASSUME ~ initial_ota_check, HandshakeOn
        PROVE  HandshakeOn'
    <3>1. CASE Head(down).id = ota_sub_message_id
      <4>1. "ota_check" \in armed'
        BY <1>15, <2>2, <3>1 DEF ReceiveSuback, Awaited
      <4> QED BY <4>1 DEF HandshakeOn, Waits
    <3>2. CASE Head(down).id # ota_sub_message_id
      <4> DEFINE ack == [type |-> "suback", id |-> ota_sub_message_id]
      <4>1. ack \in ToSet(down) => ack \in ToSet(down')
        <5>1. ToSet(down) = ToSet(Tail(down)) \cup {Head(down)}
          BY <1>w, <2>1, TailFacts DEF Pending
        <5>2. ack # Head(down)
          BY <3>2
        <5> QED BY <2>1, <5>1, <5>2
      <4>2. \A w \in {"on_connect", "ota_check"} :
              Waits(w, queue, armed) => Waits(w, queue', armed')
        BY WaitsStep DEF Works, DelayedWorks, Handles
      <4> QED BY <2>1, <2>2, <4>1, <4>2 DEF HandshakeOn
    <3> QED BY <3>1, <3>2
  <2> QED BY <2>1, <2>2, HandshakeFrame
<1>16. CASE Download
  <2>1. /\ UNCHANGED <<main_pc, proceed, initial_ota_check, pc>>
        /\ ota_state_s' # "ready"
    BY <1>16 DEF Download, DownloadFinished, DownloadFailed, DownloadEnds
  <2> QED BY <2>1 DEF HandshakeInv
<1>17. CASE ServerAnswers \/ ServerPushes
  <2>1. UNCHANGED <<main_pc, proceed, initial_ota_check, ota_state_s, pc, client, link,
                    ota_sub_message_id>>
    BY <1>17 DEF ServerAnswers, ServerPushes
  <2>2. UNCHANGED down \/ \E p : down' = Append(down, p)
    BY <1>17 DEF ServerAnswers, ServerPushes, ToDevice
  <2>3. ToSet(down) \subseteq ToSet(down')
    BY <1>w, <2>2 DEF ToSet
  <2> QED BY <1>s, <2>1, <2>3, HandshakeFrame
<1>18. CASE LinkDies
  <2>1. /\ UNCHANGED <<main_pc, proceed, initial_ota_check, ota_state_s, pc>>
        /\ link' = "dead"
    BY <1>18 DEF LinkDies
  <2> QED BY <2>1, HandshakeFrame
<1>19. CASE UNCHANGED vars
  BY <1>19, <1>f DEF vars
<1> QED
  BY <1>1, <1>2, <1>3, <1>4, <1>5, <1>8, <1>9, <1>10, <1>11, <1>12, <1>13,
     <1>14, <1>15, <1>16, <1>17, <1>18, <1>19
  DEF Next, System, Outside, MainThread, WorkItem, CloudThread,
      MainConnectFails, FotaStartFails, WatchdogFires, RebootWork

(* Whatever is lost, refused or fails on the way, the boot handshake and   *)
(* an upgrade that was begun always have their next event pending: when    *)
(* nothing is left to happen the device is connected, has run setup() and  *)
(* is not upgrading.  poll() has not to fail: that leaves a connection that *)
(* nobody serves or closes.                                                *)
THEOREM NothingStalls ==
  ASSUME "pollerr" \notin Environment
  PROVE  Spec => []NeverStalled
<1> DEFINE Stall == ConnackInv /\ UpgradeInv /\ HandshakeInv
<1>1. Init => Stall /\ ServedInv
  BY PendingEmpty DEF Init, ConnackInv, UpgradeInv, HandshakeInv, ServedInv, Waits
<1>2. Typed /\ LinkInv /\ AnswerInv /\ BusyInv /\ Stall /\ [Next]_vars => Stall'
  BY ConnackStep, UpgradeStep, HandshakeStep
<1>3. Typed /\ LinkInv /\ ServedInv /\ [Next]_vars => ServedInv'
  BY ServedStep
<1>4. Typed /\ BusyInv /\ [Next]_vars => BusyInv'
  BY BusyStep
<1>5. Typed /\ LinkInv /\ ServedInv /\ Stall => NeverStalled
  <2> SUFFICES ASSUME Typed, LinkInv, ServedInv, Stall, Quiescent
               PROVE  /\ client = "connected" /\ cloud_state_s = "connected" /\ pc = "poll"
                      /\ main_pc = "app" \/ ota_sub_message_id = 0
                      /\ ota_state_s = "ready"
    BY DEF NeverStalled
  <2>1. \A w : ~ Waits(w, queue, armed)
    BY PendingEmpty DEF Quiescent, Waits
  <2>2. cloud_state_s = "connected"
    <3>1. ~ ReconnectComing
      BY PendingEmpty DEF Quiescent, ReconnectComing
    <3>2. cloud_state_s # "disconnected"
      BY <3>1 DEF Quiescent, LinkInv, ReconnectExactlyWhenDown
    <3> QED BY <3>2 DEF Typed, TypeOK, SessionTypes
  <2>3. client = "connected"
    <3>1. client # "idle"
      BY <2>2 DEF LinkInv
    <3>2. client # "tcp"
      BY DEF Quiescent, ConnackInv, AnswerComing
    <3> QED BY <3>1, <3>2 DEF Typed, TypeOK, SessionTypes
  <2>4. pc = "poll"
    BY <2>2, <2>3 DEF ServedInv, Quiescent
  <2>5. ota_state_s = "ready"
    BY <2>1 DEF UpgradeInv, Quiescent, Typed, TypeOK, OtaTypes
  <2>6. ASSUME main_pc # "app"
        PROVE  ota_sub_message_id = 0
    <3>1. main_pc = "wait"
      BY <2>6 DEF Quiescent, Typed, TypeOK, ElsewhereTypes
    <3>2. HandshakeOn
      BY <2>3, <2>4, <2>5, <3>1 DEF HandshakeInv, Quiescent
    <3>3. ToSet(down) = {}
      BY DEF Quiescent, ToSet
    <3> QED BY <2>1, <3>2, <3>3 DEF HandshakeOn
  <2> QED BY <2>2, <2>3, <2>4, <2>5, <2>6
<1> QED
  BY <1>1, <1>2, <1>3, <1>4, <1>5, TypedInit, TypedStep, LinkInit, LinkStep, AnswerInit,
     AnswerStep, BusyInit, PTL DEF Spec

-----------------------------------------------------------------------------
(* While the server announces no older image, none is in ota_data, being   *)
(* downloaded, in the second slot or on its way; an upgrade that was found *)
(* is one.                                                                 *)
NoneOlder(packets) ==
  \A i \in DOMAIN packets :
    packets[i].type = "publish" => ver_comp(image, packets[i].message.version) # -1

AheadInv ==
  /\ \A v \in {ota_data, download, slot} : v # None => ver_comp(image, v) # -1
  /\ NoneOlder(down)
  /\ result => \E v \in Versions : ver_comp(image, v) = 1

(* The step sends the device no announcement.                              *)
NothingAnnounced ==
  \A i \in DOMAIN down' :
    down'[i].type = "publish" => \E j \in DOMAIN down : down'[i] = down[j]

LEMMA AheadFrame ==
  ASSUME AheadInv, UNCHANGED <<image, ota_data>>, result' => result, NothingAnnounced,
         download' \in {ota_data, download, None}, slot' \in {slot, download, None}
  PROVE  AheadInv'
<1>1. NoneOlder(down')
  BY DEF AheadInv, NoneOlder, NothingAnnounced
<1> QED BY <1>1 DEF AheadInv, NoneOlder

LEMMA EmptyAnnounces == down' = <<>> => NothingAnnounced
  BY DEF NothingAnnounced

LEMMA SameAnnounces == UNCHANGED down => NothingAnnounced
  BY DEF NothingAnnounced

LEMMA TailAnnounces ==
  ASSUME Typed, down # <<>>, down' = Tail(down)
  PROVE  NothingAnnounced
<1>1. down \in Seq(Packets)
  BY DEF Typed, TypeOK, SessionTypes
<1>2. \A i \in DOMAIN down' : i + 1 \in DOMAIN down /\ down'[i] = down[i + 1]
  BY <1>1
<1> QED BY <1>2 DEF NothingAnnounced

LEMMA SendAnnounces ==
  ASSUME Typed, NEW q, NEW a, NEW s, NEW p \in Seq(Packets),
         \A i \in DOMAIN p : p[i].type # "publish",
         Send(q, a, s, p) \/ ConnectionLost(q, a)
  PROVE  NothingAnnounced
<1>1. down \in Seq(Packets)
  BY DEF Typed, TypeOK, SessionTypes
<1>2. CASE down' = down \o p
  <2>1. \A i \in DOMAIN down' :
          \/ i \in DOMAIN down /\ down'[i] = down[i]
          \/ i - Len(down) \in DOMAIN p /\ down'[i] = p[i - Len(down)]
    BY <1>1, <1>2
  <2> QED BY <2>1 DEF NothingAnnounced
<1>3. down' = <<>> \/ UNCHANGED down \/ down' = down \o p
  BY DEF Send, ConnectionLost, ClientIdle, sessionVars
<1> QED BY <1>2, <1>3, EmptyAnnounces, SameAnnounces

LEMMA NoPacketAnnounces == <<>> \in Seq(Packets) /\ \A i \in DOMAIN <<>> : <<>>[i].type # "publish"
  OBVIOUS

LEMMA SubscribeAnnounces ==
  ASSUME Typed, NEW q, NEW a, NEW topic, NEW id \in Ids, Subscribe(q, a, topic, id)
  PROVE  NothingAnnounced
<1> DEFINE p == <<[type |-> "suback", id |-> id]>>
<1>1. p \in Seq(Packets) /\ \A i \in DOMAIN p : p[i].type # "publish"
  BY DEF Packets
<1>2. Send(q, a, {}, <<>>) \/ Send(q, a, {topic}, p)
  BY DEF Subscribe
<1> HIDE DEF p
<1> QED BY <1>1, <1>2, SendAnnounces, NoPacketAnnounces

(* What the server announces is not older.                                 *)
LEMMA AnnouncedAhead ==
  ASSUME "older" \notin Environment, Typed, AheadInv, NEW m, ToDevice(m),
         UNCHANGED <<image, ota_data, download, slot, result>>
  PROVE  AheadInv'
<1> DEFINE p == [type |-> "publish", message |-> m]
<1>1. down \in Seq(Packets) /\ ver_comp(image, m.version) # -1
  BY DEF Typed, TypeOK, SessionTypes, ToDevice, MayPublish
<1>2. CASE UNCHANGED down
  BY <1>2, SameAnnounces, AheadFrame
<1>3. CASE down' = Append(down, p)
  <2>1. \A i \in DOMAIN down' :
          (i \in DOMAIN down /\ down'[i] = down[i]) \/ down'[i] = p
    BY <1>1, <1>3
  <2>2. NoneOlder(down')
    BY <1>1, <2>1 DEF AheadInv, NoneOlder
  <2> QED BY <2>2 DEF AheadInv, NoneOlder
<1> QED BY <1>2, <1>3 DEF ToDevice

(* A message of ReceiveOta is one of the server's.                         *)
LEMMA ReceivedOta ==
  ASSUME Typed, AheadInv, ReceiveOta
  PROVE  AheadInv'
<1> DEFINE m == Head(down).message
<1>1. /\ down \in Seq(Packets) /\ down # <<>> /\ Head(down).type = "publish"
      /\ down' = Tail(down) /\ UNCHANGED <<image, download, slot>>
      /\ ota_data' = IF m.url THEN m.version ELSE ota_data
      /\ result' => ver_comp(image, m.version) = 1
  BY DEF ReceiveOta, Receives, Typed, TypeOK, SessionTypes, flashVars, elsewhere
<1>2. Head(down) = down[1] /\ 1 \in DOMAIN down /\ Head(down) \in Packets
  BY <1>1
<1>3. m \in OtaMessages
  BY <1>1, <1>2 DEF Packets
<1>4. m.version \in Versions
  BY <1>3, CloudAssumption DEF OtaMessage
<1>5. ver_comp(image, m.version) # -1
  BY <1>1, <1>2 DEF AheadInv, NoneOlder
<1> HIDE DEF m
<1>6. NoneOlder(down')
  BY <1>1, TailAnnounces DEF AheadInv, NoneOlder, NothingAnnounced
<1>7. \A v \in {ota_data', download', slot'} : v # None => ver_comp(image, v) # -1
  BY <1>1, <1>5 DEF AheadInv
<1>8. result' => \E v \in Versions : ver_comp(image, v) = 1
  BY <1>1, <1>4
<1> QED BY <1>1, <1>6, <1>7, <1>8 DEF AheadInv, NoneOlder

LEMMA AheadStep ==
  ASSUME "older" \notin Environment, Typed, AheadInv, [Next]_vars
  PROVE  AheadInv'
<1> USE DEF mainVars, otaVars, localVars, threadVars, workVars, clientVars,
            sessionVars, flashVars, elsewhere
<1>n. <<>> \in Seq(Packets) /\ \A i \in DOMAIN <<>> : <<>>[i].type # "publish"
  BY NoPacketAnnounces
<1>1. CASE Reboot
  <2>1. down' = <<>> /\ ota_data' = None /\ download' = None /\ slot' = None /\ ~ result'
    BY <1>1 DEF Reboot
  <2> QED BY <2>1 DEF AheadInv, NoneOlder
<1>f. CASE UNCHANGED <<image, ota_data, result, download, slot>> /\ NothingAnnounced
  BY <1>f, AheadFrame
<1>2. CASE MainConnected \/ ReconnectSucceeds
  <2>1. UNCHANGED <<image, ota_data, result, download, slot>>
    BY <1>2 DEF MainConnected, ReconnectSucceeds
  <2>2. down' = <<[type |-> "connack"]>> \/ down' = <<[type |-> "refused"]>>
    BY <1>2 DEF MainConnected, ReconnectSucceeds, ConnectSucceeds
  <2> QED BY <1>f, <2>1, <2>2 DEF NothingAnnounced
<1>3. CASE MainProceeds \/ ReconnectFails \/ TelemetryTick \/ (\E w \in DelayedWorks : Expires(w))
  <2>1. UNCHANGED <<image, ota_data, result, download, slot, down>>
    BY <1>3 DEF MainProceeds, ReconnectFails, TelemetryTick, Expires
  <2> QED BY <1>f, <2>1, SameAnnounces
<1>4. CASE App \/ OtaRequest \/ PublishOnly
  <2>1. UNCHANGED <<image, ota_data, result, download, slot>>
    BY <1>4 DEF App, AppPublishes, AppDisconnects, OtaRequest, PublishOnly
  <2>2. NothingAnnounced
    BY <1>4, <1>n, SendAnnounces DEF App, AppPublishes, AppDisconnects, OtaRequest, PublishOnly
  <2> QED BY <1>f, <2>1, <2>2
<1>5. CASE OnConnect
  <2>1. UNCHANGED <<image, ota_data, result, download, slot>>
    BY <1>5 DEF OnConnect
  <2>2. NothingAnnounced
    BY <1>5, <1>n, SendAnnounces, SubscribeAnnounces DEF OnConnect
  <2> QED BY <1>f, <2>1, <2>2
<1>6. CASE OtaCheckSubscribed /\ ~ Reboot
  <2>1. UNCHANGED <<image, ota_data, result, download, slot, down>>
    BY <1>6, Zenon DEF OtaCheckSubscribed
  <2> QED BY <1>f, <2>1, SameAnnounces
<1>7. CASE Reconnect
  <2>1. UNCHANGED <<image, ota_data, result, download, slot>> /\ (UNCHANGED down \/ down' = <<>>)
    BY <1>7 DEF Reconnect, ClientIdle
  <2> QED BY <1>f, <2>1, SameAnnounces, EmptyAnnounces
<1>8. CASE FotaStarts
  <2>1. UNCHANGED <<image, ota_data, result, slot, down>> /\ download' \in {ota_data, download}
    BY <1>8 DEF FotaStarts
  <2> QED BY <2>1, SameAnnounces, AheadFrame
<1>9. CASE ThreadWakes \/ ThreadChecks \/ PollReturns \/ PollFails \/ ThreadLive
  <2>1. UNCHANGED <<image, ota_data, result, download, slot, down>>
    BY <1>9 DEF ThreadWakes, ThreadChecks, PollReturns, PollFails, ThreadLive
  <2> QED BY <1>f, <2>1, SameAnnounces
<1>10. CASE ThreadPingFails \/ InputFails \/ ThreadAborts \/ ReceiveRefused \/ ReceiveUnreadable
  <2>1. UNCHANGED <<image, ota_data, result, download, slot>> /\ (UNCHANGED down \/ down' = <<>>)
    BY <1>10 DEF ThreadPingFails, InputFails, ThreadAborts, ReceiveRefused, ReceiveUnreadable,
                 ConnectionLost, ClientIdle
  <2> QED BY <1>f, <2>1, SameAnnounces, EmptyAnnounces
<1>11. CASE ReceiveConnack \/ ReceiveSuback
  <2>1. /\ UNCHANGED <<image, ota_data, result, download, slot>>
        /\ down # <<>> /\ down' = Tail(down)
    BY <1>11 DEF ReceiveConnack, ReceiveSuback, Receives
  <2> QED BY <1>f, <2>1, TailAnnounces
<1>12. CASE ReceiveOta
  BY <1>12, ReceivedOta
<1>13. CASE StartUpgrade
  <2>1. UNCHANGED <<image, ota_data, download, slot>> /\ ~ result'
    BY <1>13 DEF StartUpgrade
  <2>2. NothingAnnounced
    BY <1>13, <1>n, SendAnnounces DEF StartUpgrade
  <2> QED BY <2>1, <2>2, AheadFrame
<1>14. CASE NoUpdate
  <2>1. UNCHANGED <<image, ota_data, result, download, slot>>
    BY <1>14 DEF NoUpdate
  <2>2. NothingAnnounced
    BY <1>14, <1>n, SendAnnounces, SubscribeAnnounces DEF NoUpdate
  <2> QED BY <1>f, <2>1, <2>2
<1>15. CASE Download
  <2>1. /\ UNCHANGED <<image, ota_data, result, down>>
        /\ download' = None /\ slot' \in {slot, download}
    BY <1>15 DEF Download, DownloadFinished, DownloadFailed, DownloadEnds
  <2> QED BY <2>1, SameAnnounces, AheadFrame
<1>16. CASE ServerAnswers \/ ServerPushes
  <2>1. UNCHANGED <<image, ota_data, result, download, slot>>
    BY <1>16 DEF ServerAnswers, ServerPushes
  <2>2. UNCHANGED down \/ \E m \in OtaMessages : ToDevice(m)
    BY <1>16 DEF ServerAnswers, ServerPushes
  <2> QED BY <1>f, <2>1, <2>2, SameAnnounces, AnnouncedAhead
<1>17. CASE LinkDies
  BY <1>17, <1>f, EmptyAnnounces DEF LinkDies
<1>18. CASE UNCHANGED vars
  BY <1>18, <1>f, SameAnnounces DEF vars
<1> QED
  BY <1>1, <1>2, <1>3, <1>4, <1>5, <1>6, <1>7, <1>8, <1>9, <1>10, <1>11, <1>12,
     <1>13, <1>14, <1>15, <1>16, <1>17, <1>18
  DEF Next, System, Outside, MainThread, WorkItem, CloudThread,
      MainConnectFails, FotaStartFails, WatchdogFires, RebootWork

LEMMA AheadInit == Init => AheadInv
  BY DEF Init, AheadInv, NoneOlder

(* The image MCUboot boots is the running one or an upgrade of it.         *)
LEMMA BootsAhead ==
  ASSUME Typed, AheadInv, Reboot
  PROVE  image' = image \/ (image' \in Versions /\ slot # None /\ ver_comp(image, image') = 1)
<1>1. image' = IF slot # None THEN slot ELSE image
  BY DEF Reboot, BootImage
<1>2. CASE slot # None /\ image' # image
  <2>1. image' = slot /\ slot \in Versions /\ image \in Versions /\ ver_comp(image, slot) # -1
    BY <1>1, <1>2 DEF Typed, TypeOK, ElsewhereTypes, AheadInv
  <2>2. image \in Version /\ slot \in Version
    BY <2>1, CloudAssumption
  <2>3. ver_comp(image, slot) \in {-1, 0, 1} /\ (ver_comp(image, slot) = 0 <=> image = slot)
    BY <2>2, VerCompDecides
  <2> QED BY <1>2, <2>1, <2>3
<1> QED BY <1>1, <1>2

(* The image changes only to one ver_comp() finds newer, whatever is lost, *)
(* overwritten, downloaded twice or interrupted, as long as the server     *)
(* announces no older image than the one that runs.                        *)
THEOREM ImagesOnlyGetNewer ==
  ASSUME "older" \notin Environment
  PROVE  Spec => OnlyNewerImages
<1>1. Typed /\ BusyInv /\ AheadInv /\ [Next]_vars =>
        [image' # image => ver_comp(image, image') = 1]_vars
  <2> SUFFICES ASSUME Typed, BusyInv, AheadInv, [Next]_vars, image' # image
               PROVE  ver_comp(image, image') = 1
    OBVIOUS
  <2>1. CASE Reboot
    BY <2>1, BootsAhead
  <2>2. CASE MainProceeds \/ StartUpgrade
    BY <2>2 DEF MainProceeds, StartUpgrade, elsewhere, flashVars
  <2> QED BY <2>1, <2>2, StepKinds
<1>2. Typed /\ BusyInv /\ [Next]_vars => BusyInv'
  BY BusyStep
<1>3. Typed /\ AheadInv /\ [Next]_vars => AheadInv'
  BY AheadStep
<1> QED
  BY <1>1, <1>2, <1>3, TypedInit, TypedStep, BusyInit, AheadInit, PTL DEF Spec, OnlyNewerImages

(* The lifecycle compares as the device does. *)
LEMMA LifecycleCompares == \A v, w : Lifecycle!ver_comp(v, w) = ver_comp(v, w)
  BY DEF Lifecycle!ver_comp, ver_comp, Lifecycle!VER_ENTIRES, VER_ENTIRES

(* So does its order.                                                      *)
LEMMA LifecycleOrders ==
  \A v, w : /\ Lifecycle!NumLess(v, w) <=> NumLess(v, w)
            /\ Lifecycle!Upgrade(v, w) <=> Upgrade(v, w)
<1>1. \A v, w : Lifecycle!NumLess(v, w) <=> NumLess(v, w)
  BY DEF Lifecycle!NumLess, NumLess, Lifecycle!VER_ENTIRES, VER_ENTIRES
<1>2. \A v, w : Lifecycle!SameNumbers(v, w) <=> SameNumbers(v, w)
  BY DEF Lifecycle!SameNumbers, SameNumbers, Lifecycle!VER_ENTIRES, VER_ENTIRES
<1> QED BY <1>1, <1>2 DEF Lifecycle!Upgrade, Upgrade

(* The types of the lifecycle's variables, which are functions of those of *)
(* the device.                                                             *)
THEOREM LifecycleTypes == Spec => []Lifecycle!TypeOK
<1>1. Typed => Lifecycle!TypeOK
  BY DEF Typed, TypeOK, ElsewhereTypes, Lifecycle!TypeOK, Phase
<1> QED BY <1>1, TypedInit, TypedStep, PTL DEF Spec

(* For every set of versions: what the device makes of any announcement,   *)
(* whatever image it runs by then, is what the reference order says.       *)
THEOREM ComparisonCorrect == Spec => []Lifecycle!ComparisonIsLexicographic
<1>1. Typed => Lifecycle!ComparisonIsLexicographic
  <2> SUFFICES ASSUME Typed, NEW v \in Versions
               PROVE  /\ Lifecycle!ver_comp(image, v) = 1 <=> Lifecycle!Upgrade(image, v)
                      /\ Lifecycle!ver_comp(image, v) = -1 <=> Lifecycle!NumLess(v, image)
                      /\ Lifecycle!ver_comp(image, v) = 0 <=> v = image
    BY DEF Lifecycle!ComparisonIsLexicographic
  <2>1. image \in Version /\ v \in Version
    BY CloudAssumption DEF Typed, TypeOK, ElsewhereTypes
  <2> QED BY <2>1, VerCompDecides, LifecycleCompares, LifecycleOrders
<1> QED BY <1>1, TypedInit, TypedStep, PTL DEF Spec

(* As long as the server announces no older image than the one that runs,  *)
(* no sequence of announcements, downloads, restarts and failures lowers   *)
(* the numbers of the version that runs.                                   *)
THEOREM NoDowngrade ==
  ASSUME "older" \notin Environment
  PROVE  Spec => Lifecycle!NumbersNeverDecrease
<1>1. Typed /\ Typed' /\ [image' # image => ver_comp(image, image') = 1]_vars
        => [~ Lifecycle!NumLess(image', image)]_(Lifecycle!vars)
  <2> SUFFICES ASSUME Typed, Typed', [image' # image => ver_comp(image, image') = 1]_vars,
                      ~ UNCHANGED Lifecycle!vars
               PROVE  ~ NumLess(image', image)
    BY LifecycleOrders
  <2>1. image \in Version /\ image' \in Version
    BY CloudAssumption DEF Typed, TypeOK, ElsewhereTypes
  <2>2. image' = image \/ ver_comp(image, image') = 1
    BY DEF vars, elsewhere, flashVars
  <2>3. ver_comp(image, image') # -1
    <3>1. ver_comp(image, image) = 0
      BY <2>1, VerCompDecides
    <3> QED BY <2>2, <3>1
  <2> QED BY <2>1, <2>3, VerCompDecides
<1> QED
  BY <1>1, ImagesOnlyGetNewer, TypedInit, TypedStep, PTL
  DEF Spec, OnlyNewerImages, Lifecycle!NumbersNeverDecrease

(* However the threads interleave and the connection fails, the device is  *)
(* checking, running or upgrading, and moves between them as the lifecycle *)
(* allows: an upgrade is begun only for a newer image and ends in a        *)
(* restart.                                                                *)
THEOREM LifecycleImplemented ==
  ASSUME "older" \notin Environment
  PROVE  Spec => Refines
<1> USE DEF mainVars, otaVars, localVars, threadVars, workVars, clientVars,
            sessionVars, flashVars, elsewhere
<1>1. Init => Lifecycle!Init
  BY DEF Init, Lifecycle!Init, Phase
<1>2. Typed /\ BusyInv /\ AheadInv /\ [Next]_vars => [Lifecycle!Next]_(Lifecycle!vars)
  <2> SUFFICES ASSUME Typed, BusyInv, AheadInv, [Next]_vars
               PROVE  [Lifecycle!Next]_(Lifecycle!vars)
    OBVIOUS
  <2>1. CASE Reboot
    <3>1. Phase' = "checking"
      BY <2>1 DEF Reboot, Phase
    <3>2. CASE Phase = "upgrading"
      BY <2>1, <3>1, <3>2, BootsAhead, LifecycleCompares
      DEF Lifecycle!Next, Lifecycle!Restart
    <3>3. CASE Phase # "upgrading"
      <4>1. ota_state_s = "ready" /\ Phase \in {"running", "checking"}
        BY <3>3 DEF Phase
      <4>2. slot = None
        BY <4>1 DEF BusyInv
      <4>3. image' = image
        BY <2>1, <4>2, BootsAhead
      <4> QED BY <3>1, <4>1, <4>3 DEF Lifecycle!Next, Lifecycle!Reset, Lifecycle!vars
    <3> QED BY <3>2, <3>3
  <2>2. CASE MainProceeds
    <3>1. UNCHANGED <<image, ota_state_s>> /\ main_pc = "wait" /\ main_pc' = "app"
      BY <2>2 DEF MainProceeds
    <3> QED BY <3>1 DEF Phase, Lifecycle!Next, Lifecycle!Proceed, Lifecycle!vars
  <2>3. CASE StartUpgrade
    <3>1. UNCHANGED <<image, main_pc>> /\ ota_state_s' = "started" /\ result
      BY <2>3 DEF StartUpgrade
    <3>2. \E v \in Versions : ver_comp(image, v) = 1
      BY <3>1 DEF AheadInv
    <3>3. Phase' = "upgrading"
      BY <3>1 DEF Phase
    <3> QED BY <3>1, <3>2, <3>3, LifecycleCompares
        DEF Lifecycle!Next, Lifecycle!BeginUpgrade, Lifecycle!vars
  <2>4. CASE ~ Reboot /\ ~ MainProceeds /\ ~ StartUpgrade
    <3>1. /\ UNCHANGED main_pc \/ (main_pc # "app" /\ main_pc' # "app")
          /\ UNCHANGED ota_state_s \/ (ota_state_s # "ready" /\ ota_state_s' # "ready")
          /\ UNCHANGED image
      BY <2>4, StepKinds
    <3>2. Phase' = Phase
      BY <3>1 DEF Phase
    <3> QED BY <3>1, <3>2 DEF Lifecycle!vars
  <2> QED BY <2>1, <2>2, <2>3, <2>4
<1>3. Typed /\ BusyInv /\ [Next]_vars => BusyInv'
  BY BusyStep
<1>4. Typed /\ AheadInv /\ [Next]_vars => AheadInv'
  BY AheadStep
<1> QED
  BY <1>1, <1>2, <1>3, <1>4, TypedInit, TypedStep, BusyInit, AheadInit, PTL
  DEF Spec, Refines, Lifecycle!Spec
=============================================================================
