------------------------ MODULE HomeAssistant_proofs -------------------------
(* Proofs about HomeAssistant: the voice switch, the refresh a call awaits,  *)
(* and the options of the selectors, for any number of calls, any capability *)
(* tables and any budgets.                                                   *)
EXTENDS HomeAssistant, TLAPS

Kinds == {None, "move", "voice", "mode", "fan"}
Values == {None} \union {c.value : c \in Commands}
Calls ==
  [at : {"idle", "posted", "answered", "refreshing", "refreshed"},
   what : Kinds, value : Values, answer : {None, "200", "400", "409"}, nth : Nat]

TypesOK ==
  /\ call \in [Users -> Calls]
  /\ refresh = [at |-> refresh.at, got |-> refresh.got, seen |-> refresh.seen,
                owner |-> refresh.owner]
  /\ refresh.at \in {"idle", "asked", "answered"}
  /\ refresh.seen \in Nat /\ robot.sent \in Nat /\ seen \in Nat

\* A call under way carries a command that was offered; one that awaits a refresh
\* was accepted.
CallOK(u) ==
  /\ call[u].at = "idle" => call[u] = Idle
  /\ call[u].at # "idle" =>
       [what |-> call[u].what, value |-> call[u].value] \in Commands
  /\ call[u].at = "posted" => call[u].answer = None
  /\ call[u].at \in {"refreshing", "refreshed"} => call[u].answer = "200"

\* The refresh a call awaits is the one it started; a status that is on its way
\* was read after the commands of all calls that await or awaited one.
RefreshOK(u) ==
  /\ call[u].nth <= robot.sent
  /\ call[u].at = "refreshing" <=> refresh.owner = u
  /\ refresh.at = "answered" /\ call[u].at \in {"refreshing", "refreshed"}
       => call[u].nth <= refresh.seen
  /\ call[u].at = "refreshed" /\ ok => call[u].nth <= seen

\* Without overlapping or abandoned voice calls there is one at most; the
\* switch is right until its command was sent.
VoiceOK ==
  ~muddled =>
    /\ \A c \in late : c.what # "voice"
    /\ \A u, v \in Users :
         call[u].what = "voice" /\ call[v].what = "voice" => u = v
    /\ (\A u \in Users : call[u].what # "voice") => voice = robot.voice
    /\ \A u \in Users : call[u].what = "voice" =>
         IF call[u].answer = "200" THEN call[u].value = robot.voice
                                   ELSE voice = robot.voice

IInv ==
  /\ TypesOK
  /\ \A u \in Users : CallOK(u) /\ RefreshOK(u)
  /\ refresh.at = "idle" => refresh.owner = None
  /\ VoiceOK

-----------------------------------------------------------------------------

\* The server accepts whatever was offered.
LEMMA OfferedIsAccepted ==
  /\ \A c \in Commands : Accepted(c) /\ c.what \in Kinds /\ c.value \in Values
  /\ \A c \in Commands : c.what # None
  /\ \A c \in Commands : c = [what |-> c.what, value |-> c.value]
<1>1. ASSUME NEW c \in Commands
      PROVE  /\ c = [what |-> c.what, value |-> c.value]
             /\ c.what \in {"move", "voice", "mode", "fan"}
             /\ c.what \in {"mode", "fan"} => c.value \in Offered(c.what)
  BY DEF Commands
<1>2. ASSUME NEW c \in Commands PROVE Accepted(c)
  BY <1>1, <1>2 DEF Accepted, Offered
<1> QED
  BY <1>1, <1>2, NoneIsNew DEF Kinds, Values

\* A call that is not under way.
LEMMA IdleCall ==
  Idle \in Calls /\ Idle.at = "idle" /\ Idle.what = None /\ Idle.nth = 0
    /\ Idle.answer = None
BY DEF Idle, Calls, Kinds, Values

\* A call is the record of its fields.
LEMMA CallFields ==
  \A c \in Calls : c = [at |-> c.at, what |-> c.what, value |-> c.value,
                        answer |-> c.answer, nth |-> c.nth]
BY DEF Calls

\* The invariant holds at first.
LEMMA InvInit == Init => IInv
<1> SUFFICES ASSUME Init PROVE IInv
  OBVIOUS
<1>1. /\ call = [u \in Users |-> Idle] /\ late = {} /\ seen = 0
      /\ refresh = [at |-> "idle", got |-> None, seen |-> 0, owner |-> None]
      /\ robot.sent = 0 /\ robot.voice = voice
  BY DEF Init, NoRefresh
<1>2. TypesOK
  BY <1>1, IdleCall DEF TypesOK
<1>3. ASSUME NEW u \in Users PROVE CallOK(u) /\ RefreshOK(u)
  BY <1>1, IdleCall, NoneIsNew DEF CallOK, RefreshOK
<1>4. VoiceOK
  BY <1>1, IdleCall, NoneIsNew DEF VoiceOK
<1> QED
  BY <1>1, <1>2, <1>3, <1>4 DEF IInv

\* Steps of the server, the robot, the config flow and the browser.
LEMMA ElsewhereKeeps ==
  ASSUME IInv,
         UNCHANGED <<robot, late, refresh, call, voice, seen, ok, muddled>>
  PROVE  IInv'
BY DEF IInv, TypesOK, CallOK, RefreshOK, VoiceOK

\* A poll starts.
LEMMA PollKeeps ==
  ASSUME IInv, Poll
  PROVE  IInv'
<1>1. /\ refresh.at = "idle" /\ refresh.owner = None
      /\ refresh' = [at |-> "asked", got |-> None, seen |-> 0, owner |-> None]
      /\ UNCHANGED <<robot, late, call, voice, seen, ok, muddled>>
  BY DEF Poll, NoRefresh, IInv, outside, entities
<1>2. TypesOK'
  BY <1>1 DEF IInv, TypesOK
<1>3. ASSUME NEW u \in Users PROVE (CallOK(u) /\ RefreshOK(u))'
  BY <1>1, <1>3 DEF IInv, CallOK, RefreshOK
<1>4. VoiceOK'
  BY <1>1 DEF IInv, VoiceOK
<1> QED
  BY <1>1, <1>2, <1>3, <1>4 DEF IInv

\* The status is read: all commands so far were sent before.
LEMMA ServeStatusKeeps ==
  ASSUME IInv, ServeStatus
  PROVE  IInv'
<1>1. /\ refresh.at = "asked"
      /\ refresh' = [at |-> "answered", got |-> Snapshot, seen |-> robot.sent,
                     owner |-> refresh.owner]
      /\ UNCHANGED <<robot, late, call, voice, seen, ok, muddled>>
  BY DEF ServeStatus, IInv, TypesOK, outside, entities
<1>2. TypesOK'
  BY <1>1 DEF IInv, TypesOK
<1>3. ASSUME NEW u \in Users PROVE (CallOK(u) /\ RefreshOK(u))'
  BY <1>1, <1>3 DEF IInv, CallOK, RefreshOK
<1>4. VoiceOK'
  BY <1>1 DEF IInv, VoiceOK
<1> QED
  BY <1>1, <1>2, <1>3, <1>4 DEF IInv

\* What the end of a refresh does to the calls.
LEMMA EndRefreshCalls ==
  ASSUME IInv, EndRefresh
  PROVE  /\ call' \in [Users -> Calls]
         /\ \A u \in Users :
              /\ call'[u].what = call[u].what /\ call'[u].value = call[u].value
              /\ call'[u].answer = call[u].answer /\ call'[u].nth = call[u].nth
              /\ call'[u].at = IF u = refresh.owner THEN "refreshed"
                                                    ELSE call[u].at
              /\ u # refresh.owner => call'[u] = call[u]
<1>1. call \in [Users -> Calls]
  BY DEF IInv, TypesOK
<1>2. ASSUME NEW u \in Users
      PROVE  /\ call'[u] = IF u = refresh.owner
                             THEN [call[u] EXCEPT !.at = "refreshed"]
                             ELSE call[u]
             /\ call[u] \in Calls
  BY <1>1 DEF EndRefresh
<1>3. ASSUME NEW u \in Users
      PROVE  /\ call'[u] \in Calls
             /\ call'[u].what = call[u].what /\ call'[u].value = call[u].value
             /\ call'[u].answer = call[u].answer /\ call'[u].nth = call[u].nth
             /\ call'[u].at = IF u = refresh.owner THEN "refreshed"
                                                   ELSE call[u].at
  <2>1. CASE u = refresh.owner
    <3>1. call[u] \in Calls
      BY <1>2
    <3>2. [call[u] EXCEPT !.at = "refreshed"] \in Calls
      BY <3>1 DEF Calls
    <3>3. call'[u] = [call[u] EXCEPT !.at = "refreshed"]
      BY <1>2, <2>1
    <3> QED
      BY <2>1, <3>1, <3>2, <3>3 DEF Calls
  <2>2. CASE u # refresh.owner
    BY <1>2, <2>2
  <2> QED
    BY <2>1, <2>2
<1>4. call' = [u \in Users |-> call'[u]]
  BY DEF EndRefresh
<1> QED
  BY <1>2, <1>3, <1>4

\* A refresh succeeds or fails, and whoever awaited it goes on.
LEMMA RefreshKeeps ==
  ASSUME IInv, RefreshEnds \/ RefreshFails
  PROVE  IInv'
<1>1. /\ EndRefresh
      /\ refresh' = [at |-> "idle", got |-> None, seen |-> 0, owner |-> None]
      /\ UNCHANGED <<robot, late, voice, muddled>>
  BY DEF RefreshEnds, RefreshFails, EndRefresh, NoRefresh, outside
<1>2. \/ refresh.at = "answered" /\ seen' = refresh.seen
      \/ ok' = FALSE /\ seen' = seen
  BY DEF RefreshEnds, RefreshFails, AfterFailure
<1>3. TypesOK'
  BY <1>1, <1>2, EndRefreshCalls DEF IInv, TypesOK
<1>4. ASSUME NEW u \in Users PROVE (CallOK(u) /\ RefreshOK(u))'
  <2>1. /\ call'[u].what = call[u].what /\ call'[u].value = call[u].value
        /\ call'[u].answer = call[u].answer /\ call'[u].nth = call[u].nth
        /\ call'[u].at = IF u = refresh.owner THEN "refreshed" ELSE call[u].at
        /\ u # refresh.owner => call'[u] = call[u]
    BY <1>1, EndRefreshCalls
  <2>2. CallOK(u) /\ RefreshOK(u) /\ u # None
    BY NoneIsNew DEF IInv
  <2>3. CallOK(u)'
    BY <2>1, <2>2 DEF CallOK, RefreshOK
  <2>4. RefreshOK(u)'
    BY <1>1, <1>2, <2>1, <2>2 DEF RefreshOK
  <2> QED
    BY <2>3, <2>4
<1>5. VoiceOK'
  BY <1>1, EndRefreshCalls DEF IInv, VoiceOK
<1> QED
  BY <1>1, <1>3, <1>4, <1>5 DEF IInv

-----------------------------------------------------------------------------

\* A service call is made with a command that is offered.
LEMMA PressKeeps ==
  ASSUME IInv, NEW u \in Users, Press(u)
  PROVE  IInv'
<1>1. PICK c \in Commands :
        /\ call' = [call EXCEPT ![u] = [Idle EXCEPT !.at = "posted",
                                           !.what = c.what, !.value = c.value]]
        /\ muddled' = (muddled \/ (c.what = "voice" /\ VoiceCalls # {}))
  BY DEF Press
<1>2. /\ call[u].at = "idle" /\ call[u] = Idle
      /\ UNCHANGED <<robot, late, refresh, voice, seen, ok>>
  BY DEF Press, outside, coordinator, entities, IInv, CallOK
<1>3. c.what \in Kinds /\ c.value \in Values /\ c.what # None
        /\ c = [what |-> c.what, value |-> c.value]
  BY OfferedIsAccepted
<1> DEFINE new == [at |-> "posted", what |-> c.what, value |-> c.value,
                   answer |-> None, nth |-> 0]
<1>4. new \in Calls /\ call \in [Users -> Calls]
  BY <1>3 DEF Calls, IInv, TypesOK
<1>5. call' = [call EXCEPT ![u] = new]
  <2> DEFINE made == [Idle EXCEPT !.at = "posted", !.what = c.what,
                                  !.value = c.value]
  <2>1. /\ made.at = "posted" /\ made.what = c.what /\ made.value = c.value
        /\ made.answer = None /\ made.nth = 0
    BY DEF Idle
  <2>2. made \in Calls
    BY <1>3, IdleCall DEF Calls
  <2> HIDE DEF made
  <2>3. made = new
    BY <2>1, <2>2, CallFields
  <2> USE DEF made
  <2> QED
    BY <1>1, <2>3
<1>6. call' \in [Users -> Calls] /\ call'[u] = new
        /\ \A v \in Users : v # u => call'[v] = call[v]
  BY <1>4, <1>5
<1>7. TypesOK'
  BY <1>2, <1>6 DEF IInv, TypesOK
<1>8. ASSUME NEW v \in Users PROVE (CallOK(v) /\ RefreshOK(v))'
  <2>1. CASE v = u
    <3>1. refresh.owner # u /\ robot.sent \in Nat
      BY <1>2 DEF IInv, TypesOK, RefreshOK
    <3> QED
      BY <1>2, <1>3, <1>6, <2>1, <3>1, NoneIsNew DEF CallOK, RefreshOK
  <2>2. CASE v # u
    BY <1>2, <1>6, <2>2 DEF IInv, CallOK, RefreshOK
  <2> QED
    BY <2>1, <2>2
<1>9. VoiceOK'
  <2> SUFFICES ASSUME ~muddled' PROVE VoiceOK'
    BY DEF VoiceOK
  <2>1. ~muddled /\ (c.what = "voice" => \A v \in Users : call[v].what # "voice")
    BY <1>1 DEF VoiceCalls
  <2>2. call[u].what # "voice"
    BY <1>2, IdleCall, NoneIsNew
  <2> QED
    BY <1>2, <1>6, <2>1, <2>2, NoneIsNew DEF IInv, VoiceOK
<1> QED
  BY <1>2, <1>7, <1>8, <1>9 DEF IInv

\* The server answers a command, and sends what it answers with 200.
LEMMA ServeCommandKeeps ==
  ASSUME IInv, NEW u \in Users, ServeCommand(u)
  PROVE  IInv'
<1>1. /\ call[u].at = "posted" /\ call[u].answer = None
      /\ UNCHANGED <<late, refresh, voice, seen, ok, muddled>>
      /\ [what |-> call[u].what, value |-> call[u].value] \in Commands
      /\ call \in [Users -> Calls] /\ call[u] \in Calls /\ robot.sent \in Nat
      /\ CallOK(u) /\ RefreshOK(u)
  BY DEF ServeCommand, coordinator, entities, IInv, TypesOK, CallOK
<1>3. PICK answer \in {"400", "409", "200"}, nth \in Nat :
        /\ Answers(u, answer, nth)
        /\ answer # "200" => nth = 0 /\ robot' = robot
        /\ answer = "200" => SendToRobot(call[u]) /\ nth = robot'.sent
  BY <1>1, NoneIsNew DEF ServeCommand, SendToRobot
<1>4. /\ robot'.sent \in Nat /\ nth <= robot'.sent /\ robot.sent <= robot'.sent
      /\ call[u].what # "voice" => robot'.voice = robot.voice
      /\ answer = "200" /\ call[u].what = "voice" => robot'.voice = call[u].value
      /\ answer # "200" => robot' = robot
  BY <1>1, <1>3 DEF SendToRobot
<1> DEFINE new == [at |-> "answered", what |-> call[u].what,
                   value |-> call[u].value, answer |-> answer, nth |-> nth]
<1>5. new \in Calls
  BY <1>1 DEF Calls
<1>6. call' = [call EXCEPT ![u] = new]
  <2> DEFINE made == [call[u] EXCEPT !.at = "answered", !.answer = answer,
                                     !.nth = nth]
  <2>1. made = new
    <3>1. /\ made.at = "answered" /\ made.answer = answer /\ made.nth = nth
          /\ made.what = call[u].what /\ made.value = call[u].value
      BY <1>1 DEF Calls
    <3>2. made \in Calls
      BY <1>1 DEF Calls
    <3> HIDE DEF made
    <3> QED
      BY <3>1, <3>2, CallFields
  <2>2. call' = [call EXCEPT ![u] = made]
    BY <1>1, <1>3 DEF Answers
  <2> QED
    BY <2>1, <2>2
<1>7. call' \in [Users -> Calls] /\ call'[u] = new
        /\ \A v \in Users : v # u => call'[v] = call[v]
  BY <1>1, <1>5, <1>6
<1>8. TypesOK'
  BY <1>1, <1>4, <1>7 DEF IInv, TypesOK
<1>9. ASSUME NEW v \in Users PROVE (CallOK(v) /\ RefreshOK(v))'
  <2>1. CASE v = u
    <3>1. answer # None
      BY NoneIsNew
    <3> QED
      BY <1>1, <1>4, <1>7, <2>1, <3>1 DEF CallOK, RefreshOK
  <2>2. CASE v # u
    <3>1. CallOK(v) /\ RefreshOK(v) /\ call[v].nth \in Nat
      BY <1>1 DEF IInv, Calls
    <3> QED
      BY <1>1, <1>4, <1>7, <2>2, <3>1 DEF CallOK, RefreshOK
  <2> QED
    BY <2>1, <2>2
<1>10. VoiceOK'
  <2> SUFFICES ASSUME ~muddled PROVE VoiceOK'
    BY <1>1 DEF VoiceOK
  <2>1. /\ \A c \in late : c.what # "voice"
        /\ \A v, w \in Users :
             call[v].what = "voice" /\ call[w].what = "voice" => v = w
        /\ (\A v \in Users : call[v].what # "voice") => voice = robot.voice
        /\ \A v \in Users : call[v].what = "voice" =>
             IF call[v].answer = "200" THEN call[v].value = robot.voice
                                       ELSE voice = robot.voice
    BY DEF IInv, VoiceOK
  <2>2. \A v \in Users : call'[v].what = call[v].what
                           /\ call'[v].value = call[v].value
    BY <1>7
  <2>3. ASSUME call[u].what = "voice" PROVE VoiceOK'
    BY <1>1, <1>4, <1>7, <2>1, <2>2, <2>3, NoneIsNew DEF VoiceOK
  <2>4. ASSUME call[u].what # "voice" PROVE VoiceOK'
    <3>1. robot'.voice = robot.voice
      BY <1>4, <2>4
    <3> QED
      BY <1>1, <1>7, <2>1, <2>2, <2>4, <3>1 DEF VoiceOK
  <2> QED
    BY <2>3, <2>4
<1> QED
  BY <1>1, <1>8, <1>9, <1>10 DEF IInv

\* What the end of a call does to the calls and the refresh.
LEMMA EndsKeeps ==
  ASSUME IInv, NEW u \in Users, Ends(u), refresh.owner # u,
         UNCHANGED <<robot, refresh, seen, ok>>
  PROVE  /\ TypesOK'
         /\ \A v \in Users : (CallOK(v) /\ RefreshOK(v))'
         /\ call'[u] = Idle /\ \A v \in Users : v # u => call'[v] = call[v]
<1>1. call \in [Users -> Calls] /\ call' = [call EXCEPT ![u] = Idle]
  BY DEF IInv, TypesOK, Ends
<1>2. call' \in [Users -> Calls] /\ call'[u] = Idle
        /\ \A v \in Users : v # u => call'[v] = call[v]
  BY <1>1, IdleCall
<1>3. TypesOK'
  BY <1>2 DEF IInv, TypesOK
<1>4. ASSUME NEW v \in Users PROVE (CallOK(v) /\ RefreshOK(v))'
  <2>1. CASE v = u
    BY <1>2, <2>1, IdleCall, NoneIsNew DEF IInv, TypesOK, CallOK, RefreshOK
  <2>2. CASE v # u
    BY <1>2, <2>2 DEF IInv, CallOK, RefreshOK
  <2> QED
    BY <2>1, <2>2
<1> QED
  BY <1>2, <1>3, <1>4

\* A refusal ends a call and leaves the switch alone; an accepted command has
\* set the robot to what the switch now shows.
LEMMA CallEndsKeeps ==
  ASSUME IInv, NEW u \in Users, Refused(u) \/ Finish(u)
  PROVE  IInv'
<1>1. /\ Ends(u) /\ UNCHANGED <<robot, late, refresh, seen, ok, muddled>>
      /\ call[u].at \in {"answered", "refreshed"}
  BY DEF Refused, Finish, outside, coordinator
<1>2. refresh.owner # u
  BY <1>1 DEF IInv, RefreshOK
<1>3. /\ TypesOK'
      /\ \A v \in Users : (CallOK(v) /\ RefreshOK(v))'
      /\ call'[u] = Idle /\ \A v \in Users : v # u => call'[v] = call[v]
  BY <1>1, <1>2, EndsKeeps
<1>4. IF call[u].answer = "200"
        THEN voice' = IF call[u].what = "voice" THEN call[u].value ELSE voice
        ELSE voice' = voice
  BY DEF Refused, Finish, VoiceAfterRefusal, IInv, CallOK
<1>5. VoiceOK'
  <2> SUFFICES ASSUME ~muddled PROVE VoiceOK'
    BY <1>1 DEF VoiceOK
  <2>1. /\ \A c \in late : c.what # "voice"
        /\ \A v, w \in Users :
             call[v].what = "voice" /\ call[w].what = "voice" => v = w
        /\ (\A v \in Users : call[v].what # "voice") => voice = robot.voice
        /\ \A v \in Users : call[v].what = "voice" =>
             IF call[v].answer = "200" THEN call[v].value = robot.voice
                                       ELSE voice = robot.voice
    BY DEF IInv, VoiceOK
  <2>2. call'[u].what # "voice"
    BY <1>3, IdleCall, NoneIsNew
  <2>3. ASSUME call[u].what = "voice" PROVE VoiceOK'
    <3>1. voice' = robot.voice /\ \A v \in Users : call'[v].what # "voice"
      BY <1>3, <1>4, <2>1, <2>2, <2>3
    <3> QED
      BY <1>1, <2>1, <3>1 DEF VoiceOK
  <2>4. ASSUME call[u].what # "voice" PROVE VoiceOK'
    <3>1. voice' = voice
      BY <1>4, <2>4
    <3> QED
      BY <1>1, <1>3, <2>1, <2>2, <2>4, <3>1 DEF VoiceOK
  <2> QED
    BY <2>3, <2>4
<1> QED
  BY <1>1, <1>3, <1>5 DEF IInv

\* A call is abandoned; if it set the voice, what the switch shows is unknown.
LEMMA AbandonKeeps ==
  ASSUME IInv, NEW u \in Users, Abandon(u)
  PROVE  IInv'
<1>1. /\ Ends(u) /\ UNCHANGED <<robot, refresh, seen, ok, voice>>
      /\ call[u].at \in {"posted", "answered"}
      /\ muddled' = (muddled \/ call[u].what = "voice")
      /\ \A c \in late' : c \in late \/ c.what = call[u].what
  BY DEF Abandon, MayFail, coordinator, entities
<1>2. refresh.owner # u
  BY <1>1 DEF IInv, RefreshOK
<1>3. /\ TypesOK'
      /\ \A v \in Users : (CallOK(v) /\ RefreshOK(v))'
      /\ call'[u] = Idle /\ \A v \in Users : v # u => call'[v] = call[v]
  BY <1>1, <1>2, EndsKeeps
<1>4. VoiceOK'
  <2> SUFFICES ASSUME ~muddled, call[u].what # "voice" PROVE VoiceOK'
    BY <1>1 DEF VoiceOK
  <2>1. call'[u].what # "voice"
    BY <1>3, IdleCall, NoneIsNew
  <2> QED
    BY <1>1, <1>3, <2>1 DEF IInv, VoiceOK
<1> QED
  BY <1>1, <1>3, <1>4 DEF IInv

\* The server serves a request that was given up: no voice command.
LEMMA ServeLateKeeps ==
  ASSUME IInv, ServeLate
  PROVE  IInv'
<1>1. PICK c \in late :
        /\ late' = late \ {c}
        /\ SendToRobot(c) \/ UNCHANGED robot
  BY DEF ServeLate
<1>2. UNCHANGED <<refresh, call, voice, seen, ok, muddled>>
  BY DEF ServeLate, coordinator, entities
<1>3. /\ robot'.sent \in Nat /\ robot.sent \in Nat /\ robot.sent <= robot'.sent
      /\ c.what # "voice" => robot'.voice = robot.voice
  BY <1>1 DEF SendToRobot, IInv, TypesOK
<1>4. TypesOK'
  BY <1>2, <1>3 DEF IInv, TypesOK
<1>5. ASSUME NEW v \in Users PROVE (CallOK(v) /\ RefreshOK(v))'
  <2>1. CallOK(v) /\ RefreshOK(v) /\ call[v].nth \in Nat
    BY DEF IInv, TypesOK, Calls
  <2> QED
    BY <1>2, <1>3, <2>1 DEF CallOK, RefreshOK
<1>6. VoiceOK'
  BY <1>1, <1>2, <1>3 DEF IInv, VoiceOK
<1> QED
  BY <1>2, <1>4, <1>5, <1>6 DEF IInv

\* A refresh is asked for, and awaited, by the call whose command was sent.
LEMMA StartRefreshKeeps ==
  ASSUME IInv, NEW u \in Users, StartRefresh(u)
  PROVE  IInv'
<1>1. /\ call[u].answer = "200" /\ call[u].at = "answered"
      /\ refresh.at = "idle" /\ refresh.owner = None
      /\ refresh' = [at |-> "asked", got |-> None, seen |-> 0, owner |-> u]
      /\ UNCHANGED <<robot, late, voice, seen, ok, muddled>>
      /\ call \in [Users -> Calls] /\ call[u] \in Calls
      /\ CallOK(u) /\ RefreshOK(u)
  BY DEF StartRefresh, OwnRefresh, NoRefresh, outside, entities, IInv, TypesOK
<1> DEFINE new == [at |-> "refreshing", what |-> call[u].what,
                   value |-> call[u].value, answer |-> call[u].answer,
                   nth |-> call[u].nth]
<1>2. new \in Calls
  BY <1>1 DEF Calls
<1>3. call' = [call EXCEPT ![u] = new]
  <2>1. call[u] = [at |-> call[u].at, what |-> call[u].what,
                   value |-> call[u].value, answer |-> call[u].answer,
                   nth |-> call[u].nth]
    BY <1>1, CallFields
  <2>2. [call[u] EXCEPT !.at = "refreshing"] = new
    BY <2>1
  <2>3. call' = [call EXCEPT ![u] = [call[u] EXCEPT !.at = "refreshing"]]
    BY <1>1 DEF StartRefresh, Continues
  <2> QED
    BY <2>2, <2>3
<1>4. call' \in [Users -> Calls] /\ call'[u] = new
        /\ \A v \in Users : v # u => call'[v] = call[v]
  BY <1>1, <1>2, <1>3
<1>5. TypesOK'
  BY <1>1, <1>4 DEF IInv, TypesOK
<1>6. ASSUME NEW v \in Users PROVE (CallOK(v) /\ RefreshOK(v))'
  <2>1. CASE v = u
    BY <1>1, <1>4, <2>1 DEF CallOK, RefreshOK
  <2>2. CASE v # u
    BY <1>1, <1>4, <2>2, NoneIsNew DEF IInv, CallOK, RefreshOK
  <2> QED
    BY <2>1, <2>2
<1>7. VoiceOK'
  <2>1. \A v \in Users : call'[v].what = call[v].what
          /\ call'[v].value = call[v].value /\ call'[v].answer = call[v].answer
    BY <1>4
  <2> QED
    BY <1>1, <2>1 DEF IInv, VoiceOK
<1> QED
  BY <1>1, <1>5, <1>6, <1>7 DEF IInv

-----------------------------------------------------------------------------

\* Every step keeps the invariant.
LEMMA InvNext == IInv /\ [Next]_vars => IInv'
<1> SUFFICES ASSUME IInv, [Next]_vars PROVE IInv'
  OBVIOUS
<1>1. ASSUME RobotReports \/ RobotSendsMap \/ ComesAndGoes \/ Restart
               \/ Configure \/ Look \/ ServeImage \/ UNCHANGED vars
      PROVE  IInv'
  <2>1. UNCHANGED <<robot, late, refresh, call, voice, seen, ok, muddled>>
    BY <1>1 DEF RobotReports, RobotSendsMap, ComesAndGoes, Restart, Server,
      Configure, Look, ServeImage, vars, outside, coordinator, entities
  <2> QED
    BY <2>1, ElsewhereKeeps
<1>2. ASSUME NEW u \in Users, Press(u) \/ Abandon(u) \/ Continue(u) \/ ServeCommand(u)
      PROVE  IInv'
  BY <1>2, PressKeeps, AbandonKeeps, CallEndsKeeps, StartRefreshKeeps,
    ServeCommandKeeps DEF Continue
<1>3. ASSUME Poll \/ RefreshEnds \/ RefreshFails \/ ServeStatus \/ ServeLate
      PROVE  IInv'
  BY <1>3, PollKeeps, RefreshKeeps, ServeStatusKeeps, ServeLateKeeps
<1> QED
  BY <1>1, <1>2, <1>3 DEF Next, Serve

\* The inductive invariant: who awaits the refresh and since when, and what the
\* robot was last told, for every call that is under way.
THEOREM Invariant == Spec => []IInv
BY InvInit, InvNext, PTL DEF Spec

\* The voice switch shows the last voice command that was sent as soon as no
\* voice call is under way, unless calls overlapped or one was abandoned.
THEOREM SwitchIsRight == Spec => []VoiceAgrees
<1>1. IInv => VoiceAgrees
  BY DEF IInv, VoiceOK, VoiceAgrees, VoiceCalls
<1> QED
  BY <1>1, Invariant, PTL

\* A call that goes on after its refresh finds a status read after its command.
THEOREM RefreshIsFresh == Spec => []RefreshSeesCommand
<1>1. IInv => RefreshSeesCommand
  BY DEF IInv, TypesOK, Calls, RefreshOK, RefreshSeesCommand
<1> QED
  BY <1>1, Invariant, PTL

-----------------------------------------------------------------------------
(* The kinds of the variables.                                              *)

Servers ==
  [up : BOOLEAN, connected : BOOLEAN, ready : BOOLEAN, report : RobotValues,
   map : Nat, maps : Seq(MapKinds)]
Statuses == [connected : BOOLEAN, report : RobotValues, map : Nat]
Switch == {None, "on", "off"}

\* What TypeOK says and IInv does not.
KindsOK ==
  /\ server \in Servers /\ server.map <= Len(server.maps)
  /\ robot.voice \in Switch /\ voice \in Switch
  /\ late \subseteq Commands
  /\ entry \in {"none", "created", "loaded"} /\ (entry = "loaded" <=> data # None)
  /\ data # None => data \in Statuses
  /\ ok \in BOOLEAN /\ muddled \in BOOLEAN
  /\ refresh.at = "answered" => refresh.got \in Statuses
  /\ refresh.owner \in Users \union {None}
  /\ image.revision \in Nat
  /\ viewer.at \in {"idle", "asked"} /\ viewer.map \in {None} \union Nat

\* A voice command sets the switch to one of its values.
LEMMA VoiceValue ==
  \A c \in Commands : c.what = "voice" => c.value \in Switch
BY Groups DEF Commands, Switch

\* A call that is under way carries a command.
LEMMA CallCommand ==
  ASSUME IInv, NEW u \in Users, call[u].at # "idle"
  PROVE  /\ [what |-> call[u].what, value |-> call[u].value] \in Commands
         /\ call[u].what = "voice" => call[u].value \in Switch
<1>1. [what |-> call[u].what, value |-> call[u].value] \in Commands
  BY DEF IInv, CallOK
<1> QED
  BY <1>1, VoiceValue

\* What the voice switch is told last is on or off.
LEMMA SentVoice ==
  ASSUME KindsOK, NEW c, c.what = "voice" => c.value \in Switch,
         SendToRobot(c) \/ UNCHANGED robot
  PROVE  robot'.voice \in Switch
BY DEF KindsOK, SendToRobot

\* The first states are of their kinds.
LEMMA KindsInit == Init => KindsOK
<1> SUFFICES ASSUME Init PROVE KindsOK
  OBVIOUS
<1>1. server \in [up : BOOLEAN, connected : BOOLEAN, ready : BOOLEAN,
                  report : RobotValues, map : {0}, maps : {<<>>}]
  BY DEF Init
<1>2. server.map = 0 /\ server.maps = <<>> /\ <<>> \in Seq(MapKinds) /\ 0 \in Nat
  BY <1>1
<1>3. server \in Servers
  BY <1>1, <1>2 DEF Servers
<1>4. server.map <= Len(server.maps)
  BY <1>2
<1> QED
  BY <1>3, <1>4 DEF Init, KindsOK, NoRefresh, Switch

\* Every step keeps the kinds.
LEMMA KindsNext == IInv /\ KindsOK /\ [Next]_vars => KindsOK'
<1> SUFFICES ASSUME IInv, KindsOK, [Next]_vars PROVE KindsOK'
  OBVIOUS
<1>1. ASSUME NEW new \in Servers, new.map <= Len(new.maps), Server(new)
      PROVE  KindsOK'
  BY <1>1 DEF KindsOK, Server, coordinator, entities
<1>2. CASE RobotReports
  <2>1. PICK report \in Reports, connected, ready \in BOOLEAN :
          Server([server EXCEPT !.report = report, !.connected = connected,
                                !.ready = ready])
    BY <1>2 DEF RobotReports
  <2> DEFINE new == [server EXCEPT !.report = report, !.connected = connected,
                                   !.ready = ready]
  <2>2. new \in Servers /\ new.map <= Len(new.maps)
    BY DEF KindsOK, Servers, RobotValues
  <2> QED
    BY <1>1, <2>1, <2>2
<1>3. CASE RobotSendsMap
  <2>1. PICK kind \in MapKinds :
          Server([server EXCEPT !.map = Len(server.maps) + 1,
                                !.maps = Append(@, kind)])
    BY <1>3 DEF RobotSendsMap
  <2>2. server \in Servers
    BY DEF KindsOK
  <2> DEFINE maps == Append(server.maps, kind)
  <2>3. maps \in Seq(MapKinds) /\ Len(maps) = Len(server.maps) + 1
          /\ Len(maps) \in Nat
    BY <2>2 DEF Servers
  <2> HIDE DEF maps
  <2>4. Server([server EXCEPT !.map = Len(maps), !.maps = maps])
    BY <2>1, <2>2, <2>3 DEF maps
  <2> DEFINE new == [server EXCEPT !.map = Len(maps), !.maps = maps]
  <2>5. new \in Servers
    BY <2>2, <2>3 DEF Servers
  <2>6. new.map = Len(maps) /\ new.maps = maps
    BY <2>2 DEF Servers
  <2>7. new.map <= Len(new.maps)
    BY <2>3, <2>6
  <2> QED
    BY <1>1, <2>4, <2>5, <2>7
<1>4. CASE ComesAndGoes
  <2> DEFINE new == [server EXCEPT !.up = ~@]
  <2>1. new \in Servers /\ new.map <= Len(new.maps)
    BY DEF KindsOK, Servers
  <2> QED
    BY <1>1, <1>4, <2>1 DEF ComesAndGoes
<1>5. CASE Restart
  <2>1. PICK report \in RobotValues, map \in 0..server.map :
          Server([server EXCEPT !.report = report, !.map = map,
                                !.connected = FALSE, !.ready = FALSE])
    BY <1>5 DEF Restart
  <2>2. server \in Servers /\ map \in Nat /\ server.map \in Nat
          /\ Len(server.maps) \in Nat /\ map <= Len(server.maps)
    BY DEF KindsOK, Servers
  <2> DEFINE new == [server EXCEPT !.report = report, !.map = map,
                                   !.connected = FALSE, !.ready = FALSE]
  <2>3. new \in Servers /\ new.map <= Len(new.maps)
    BY <2>2 DEF Servers
  <2> QED
    BY <1>1, <2>1, <2>3
<1>6. CASE Configure
  BY <1>6 DEF Configure, AfterFlow, KindsOK, outside, entities
<1>7. CASE Poll
  BY <1>7 DEF Poll, NoRefresh, KindsOK, outside, entities
<1>8. CASE ServeStatus
  <2>1. /\ refresh'.got = Snapshot /\ refresh'.owner = refresh.owner
        /\ UNCHANGED <<outside, entry, data, ok, call, entities, viewer, muddled>>
    BY <1>8 DEF ServeStatus, IInv, TypesOK
  <2>2. Snapshot \in Statuses
    BY DEF Snapshot, KindsOK, Servers, Statuses
  <2> QED
    BY <2>1, <2>2 DEF KindsOK, outside, entities
<1>9. CASE RefreshEnds
  <2>1. /\ refresh.got \in Statuses /\ data' = refresh.got /\ ok' = TRUE
        /\ entry' = "loaded" /\ refresh' = NoRefresh
        /\ image' = UpdatedImage(refresh.got)
        /\ UNCHANGED <<outside, voice, viewer, muddled>>
    BY <1>9 DEF RefreshEnds, EndRefresh, KindsOK
  <2>2. refresh.got # None /\ refresh.got.map \in Nat
    BY <2>1, NoneIsNoStatus DEF Statuses
  <2>3. image'.revision \in Nat
    BY <2>1, <2>2 DEF UpdatedImage, KindsOK
  <2> QED
    BY <2>1, <2>2, <2>3 DEF KindsOK, NoRefresh, outside
<1>10. CASE RefreshFails
  BY <1>10 DEF RefreshFails, EndRefresh, AfterFailure, KindsOK, NoRefresh, outside
<1>11. CASE Look
  <2>1. viewer'.at \in {"idle", "asked"} /\ viewer'.map \in {None} \union Nat
    BY <1>11 DEF Look, KindsOK
  <2> QED
    BY <1>11, <2>1 DEF Look, KindsOK, outside, coordinator, entities
<1>12. CASE ServeImage
  <2>1. PICK map \in {None} \union Nat :
          viewer' = [viewer EXCEPT !.at = "idle", !.map = map]
    BY <1>12 DEF ServeImage, KindsOK, Servers
  <2>2. viewer'.at \in {"idle", "asked"} /\ viewer'.map \in {None} \union Nat
    BY <2>1 DEF KindsOK
  <2> QED
    BY <1>12, <2>2 DEF ServeImage, KindsOK, outside, coordinator, entities
<1>13. CASE ServeLate
  <2>1. PICK c \in late :
          /\ late' = late \ {c}
          /\ SendToRobot(c) \/ UNCHANGED robot
    BY <1>13 DEF ServeLate
  <2>2. c.what = "voice" => c.value \in Switch
    BY VoiceValue DEF KindsOK
  <2>3. robot'.voice \in Switch /\ late' \subseteq Commands
    BY <2>1, <2>2, SentVoice DEF KindsOK
  <2> QED
    BY <1>13, <2>3 DEF ServeLate, KindsOK, coordinator, entities
<1>14. ASSUME NEW u \in Users, Press(u) PROVE KindsOK'
  BY <1>14 DEF Press, KindsOK, outside, coordinator, entities
<1>15. ASSUME NEW u \in Users, ServeCommand(u) PROVE KindsOK'
  <2>1. call[u].what = "voice" => call[u].value \in Switch
    BY <1>15, CallCommand DEF ServeCommand
  <2>2. /\ SendToRobot(call[u]) \/ UNCHANGED robot
        /\ server' = server \/ server' = [server EXCEPT !.ready = FALSE]
    BY <1>15 DEF ServeCommand
  <2>3. robot'.voice \in Switch
    BY <2>1, <2>2, SentVoice
  <2>4. server' \in Servers /\ server'.map <= Len(server'.maps)
    BY <2>2 DEF KindsOK, Servers
  <2> QED
    BY <1>15, <2>3, <2>4 DEF ServeCommand, KindsOK, coordinator, entities
<1>16. ASSUME NEW u \in Users, Abandon(u) PROVE KindsOK'
  <2>1. call[u].at = "posted" =>
          [what |-> call[u].what, value |-> call[u].value] \in Commands
    BY CallCommand
  <2>2. late' \subseteq Commands
    BY <1>16, <2>1 DEF Abandon, KindsOK
  <2> QED
    BY <1>16, <2>2 DEF Abandon, KindsOK, coordinator, entities
<1>17. ASSUME NEW u \in Users, Refused(u) PROVE KindsOK'
  BY <1>17 DEF Refused, VoiceAfterRefusal, KindsOK, outside, coordinator
<1>18. ASSUME NEW u \in Users, StartRefresh(u) PROVE KindsOK'
  BY <1>18 DEF StartRefresh, OwnRefresh, NoRefresh, KindsOK, outside, entities
<1>19. ASSUME NEW u \in Users, Finish(u) PROVE KindsOK'
  <2>1. call[u].what = "voice" => call[u].value \in Switch
    BY <1>19, CallCommand DEF Finish
  <2> QED
    BY <1>19, <2>1 DEF Finish, KindsOK, outside, coordinator
<1>20. CASE UNCHANGED vars
  BY <1>20 DEF vars, KindsOK, outside, coordinator, entities
<1> QED
  BY <1>2, <1>3, <1>4, <1>5, <1>6, <1>7, <1>8, <1>9, <1>10, <1>11, <1>12, <1>13,
    <1>14, <1>15, <1>16, <1>17, <1>18, <1>19, <1>20 DEF Next, Serve, Continue

\* Every variable holds a value of its kind, for any number of calls, reports
\* and capabilities.
THEOREM TypeCorrect == Spec => []TypeOK
<1>1. Spec => []KindsOK
  BY KindsInit, KindsNext, Invariant, PTL DEF Spec
<1>2. IInv /\ KindsOK => TypeOK
  BY DEF IInv, TypesOK, Calls, KindsOK, Servers, Statuses, Switch, TypeOK
<1> QED
  BY <1>1, <1>2, Invariant, PTL

\* An option that was offered is refused as invalid only when a login without
\* credentials comes while the command is served (RefusedOnlyByLogin).
THEOREM OptionsAreAccepted == Spec => RefusedOnlyByLogin
<1>1. ASSUME IInv, TypeOK, [Next]_vars, NEW u \in Users,
             call[u].answer # "400", call'[u].answer = "400"
      PROVE  server.ready /\ ~server'.ready
  <2>1. call \in [Users -> Calls]
    BY <1>1 DEF IInv, TypesOK
  <2>2. ASSUME NEW v \in Users, ServeCommand(v) PROVE server.ready /\ ~server'.ready
    <3>1. call[v].at = "posted" /\ Accepted(call[v])
      <4>1. call[v].at = "posted"
        BY <2>2 DEF ServeCommand
      <4>2. [what |-> call[v].what, value |-> call[v].value] \in Commands
        BY <1>1, <4>1 DEF IInv, CallOK
      <4> QED
        BY <4>1, <4>2, OfferedIsAccepted DEF Accepted
    <3>2. CASE /\ Spend("reports")
               /\ server.ready
               /\ server' = [server EXCEPT !.ready = FALSE]
      BY <1>1, <3>2 DEF TypeOK
    <3>3. ASSUME NEW answer, NEW nth, Answers(v, answer, nth), answer # "400"
          PROVE  FALSE
      BY <1>1, <2>1, <3>3, IdleCall DEF Answers, Calls
    <3> QED
      BY <2>2, <3>1, <3>2, <3>3 DEF ServeCommand
  <2>3. ASSUME NEW v \in Users, Press(v) \/ Abandon(v) \/ Continue(v) PROVE FALSE
    <3>1. CASE Press(v)
      <4>1. PICK c \in Commands :
              call' = [call EXCEPT ![v] = [Idle EXCEPT !.at = "posted",
                                              !.what = c.what, !.value = c.value]]
        BY <3>1 DEF Press
      <4>2. [Idle EXCEPT !.at = "posted", !.what = c.what, !.value = c.value].answer
              = None
        BY DEF Idle
      <4> QED
        BY <1>1, <2>1, <4>1, <4>2, NoneIsNew
    <3>2. CASE Ends(v)
      BY <1>1, <2>1, <3>2, IdleCall, NoneIsNew DEF Ends
    <3>3. CASE Continues(v, "refreshing")
      <4>1. [call[v] EXCEPT !.at = "refreshing"].answer = call[v].answer
        BY <2>1 DEF Calls
      <4>2. call' = [call EXCEPT ![v] = [call[v] EXCEPT !.at = "refreshing"]]
        BY <3>3 DEF Continues
      <4> QED
        BY <1>1, <2>1, <4>1, <4>2
    <3> QED
      BY <2>3, <3>1, <3>2, <3>3 DEF Abandon, Continue, Refused, StartRefresh, Finish
  <2>4. ASSUME RefreshEnds \/ RefreshFails PROVE FALSE
    <3>1. EndRefresh
      BY <2>4 DEF RefreshEnds, RefreshFails
    <3> QED
      BY <1>1, <3>1, EndRefreshCalls
  <2>5. ASSUME \/ RobotReports \/ RobotSendsMap \/ ComesAndGoes \/ Restart
               \/ Configure \/ Poll \/ Look \/ ServeStatus \/ ServeImage
               \/ ServeLate \/ UNCHANGED vars
        PROVE  FALSE
    <3>1. call' = call
      BY <2>5 DEF RobotReports, RobotSendsMap, ComesAndGoes, Restart, Server,
        Configure, Poll, Look, ServeStatus, ServeImage, ServeLate, vars
    <3> QED
      BY <1>1, <3>1
  <2> QED
    BY <1>1, <2>2, <2>3, <2>4, <2>5 DEF Next, Serve
<1>2. IInv /\ TypeOK /\ [Next]_vars =>
        [\A u \in Users : call[u].answer # "400" /\ call'[u].answer = "400"
           => server.ready /\ ~server'.ready]_vars
  BY <1>1
<1> QED
  BY <1>2, Invariant, TypeCorrect, PTL DEF Spec, RefusedOnlyByLogin
=============================================================================
