--------------------------- MODULE HomeAssistant ---------------------------
(***************************************************************************)
(* The Home Assistant integration (custom_components/proscenic_790t_local) *)
(* as a client of the local API: config entry, coordinator with its polls, *)
(* service calls that post a command and then ask for a refresh, the       *)
(* entities that show the last status, and the map image.                  *)
(*                                                                         *)
(* Home Assistant's DataUpdateCoordinator is external: it runs one refresh *)
(* at a time and keeps its data when one fails; a requested refresh starts *)
(* at once and is awaited, or, while one runs or shortly after one, the    *)
(* request returns immediately.                                            *)
(*                                                                         *)
(* Abstractions.  A status is one read of the server (Status has the torn  *)
(* ones).  Maps, each with its track, are numbered as they arrive, 0 is    *)
(* none; the server can draw a good one only, and with a foreign one, not  *)
(* all ASCII, it cannot compute the revision that every status carries.  A *)
(* command is what it sets: "voice", "mode", "fan", or a plain move of the *)
(* vacuum.                                                                 *)
(***************************************************************************)
EXTENDS Naturals, Sequences, FiniteSets

CONSTANTS
  Users,         \* service calls that may be under way at the same time
  None,          \* Python's None
  Capabilities,  \* per group, value -> [name, evidence] (capabilities.py)
  Reports,       \* the states a robot may report
  Moves,         \* the buttons of the vacuum: start, stop, home
  Budgets        \* the bounds: how many reports, maps, service calls, restarts
                 \* and failing reads of a live server a behaviour may have

ASSUME NoneIsNew ==
  None \notin {"move", "voice", "mode", "fan", "on", "off", "200", "400", "409"}
    \union Users

\* What the server knows of a robot that has not reported yet.
Empty == [work |-> None, error |-> None, mode |-> None, fan |-> None]
RobotValues == Reports \union {Empty}

ASSUME NoneIsNoStatus ==
  None \notin [connected : BOOLEAN, report : RobotValues, map : Nat]
ASSUME Groups == DOMAIN Capabilities = {"mode", "fan"}
ASSUME NamesDiffer ==
  \A g \in DOMAIN Capabilities : \A v, w \in DOMAIN Capabilities[g] :
    Capabilities[g][v].name = Capabilities[g][w].name => v = w
Bounded == {"reports", "maps", "calls", "restarts", "faults"}
ASSUME Bounds == Budgets \subseteq [Bounded -> Nat]

VARIABLES
  server,   \* what the server knows: connected, ready (the credentials of
            \* commands), report, map, and the kinds of the maps so far; up:
            \* it can be reached
  robot,    \* last voice command that was sent, number of commands sent
  late,     \* commands of abandoned requests that may still be served
  entry,    \* the config entry
  data,     \* coordinator.data, None before the first refresh
  ok,       \* coordinator.last_update_success
  refresh,  \* the refresh under way: where it is, its status, who awaits it
  call,     \* the service calls
  voice,    \* _is_on of the voice switch
  image,    \* _last_revision of the map image; how often it was updated
  viewer,   \* a browser that shows the image: for which update, which map
  left,     \* what is left of the budget
  \* The rest records the past; the code does not keep it.
  seen,     \* how many commands had been sent when data was read
  muddled   \* voice calls have overlapped, or one was abandoned

outside == <<server, robot, late>>
coordinator == <<entry, data, ok, refresh, seen>>
entities == <<voice, image>>
vars == <<outside, coordinator, call, entities, viewer, left, muddled>>

Idle == [at |-> "idle", what |-> None, value |-> None, answer |-> None,
         nth |-> 0]
NoRefresh == [at |-> "idle", got |-> None, seen |-> 0, owner |-> None]
Snapshot ==
  [connected |-> server.connected, report |-> server.report, map |-> server.map]
Spend(what) == left[what] > 0 /\ left' = [left EXCEPT ![what] = @ - 1]

Init ==
  /\ server \in [up : BOOLEAN, connected : BOOLEAN, ready : BOOLEAN,
                 report : RobotValues, map : {0}, maps : {<<>>}]
  /\ robot = [voice |-> None, sent |-> 0]
  /\ late = {}
  /\ entry = "none" /\ data = None /\ ok = FALSE /\ refresh = NoRefresh
  /\ call = [u \in Users |-> Idle]
  /\ voice = None
  /\ image = [revision |-> 0, stamp |-> 0]
  /\ viewer = [at |-> "idle", stamp |-> 0, map |-> 0]
  /\ left \in Budgets
  /\ seen = 0 /\ muddled = FALSE

-----------------------------------------------------------------------------
(* The server and the robot behind it.                                      *)

Server(new) ==
  /\ server' = new
  /\ UNCHANGED <<robot, late, coordinator, call, entities, viewer, muddled>>

\* A status, a login, or the end of a connection.
RobotReports ==
  /\ Spend("reports")
  /\ \E report \in Reports, connected, ready \in BOOLEAN :
       Server([server EXCEPT !.report = report, !.connected = connected,
                             !.ready = ready])

MapKinds == {"good", "undecodable", "foreign"}
Kind(map) == IF map = 0 THEN "none" ELSE server.maps[map]

RobotSendsMap ==
  /\ Spend("maps")
  /\ \E kind \in MapKinds :
       Server([server EXCEPT !.map = Len(server.maps) + 1,
                             !.maps = Append(@, kind)])

\* The server cannot be reached, or can be again.
ComesAndGoes == Server([server EXCEPT !.up = ~@]) /\ UNCHANGED left

\* What was not saved is lost: older values or none come back, an older map or
\* none, never a foreign one (its save fails).  Credentials are not saved.
Restart ==
  /\ Spend("restarts")
  /\ \E report \in RobotValues, map \in 0..server.map :
       /\ Kind(map) # "foreign"
       /\ Server([server EXCEPT !.report = report, !.map = map,
                                !.connected = FALSE, !.ready = FALSE])

-----------------------------------------------------------------------------
(* Set-up and polls: config_flow.py, __init__.py, coordinator.py.           *)

\* Mutant: the set-up does not wait for a first refresh.
LoadedAtOnce == "loaded"

\* The server has a status to give: the digest of a foreign map raises a
\* UnicodeEncodeError, a ValueError, which becomes a 400 for as long as the map
\* is the current one.
StatusKnown == server.up /\ Kind(server.map) # "foreign"

\* async_setup_entry creates the entities after a first refresh.
AfterFlow == "created"

\* A status request of the config flow succeeds; the entry is created.
Configure ==
  /\ entry = "none" /\ StatusKnown
  /\ entry' = AfterFlow
  /\ UNCHANGED <<outside, data, ok, refresh, call, entities, viewer, left,
                 seen, muddled>>

\* The first refresh of an entry, repeated until it succeeds, or a poll.
Poll ==
  /\ entry # "none"
  /\ refresh.at = "idle"
  /\ refresh' = [NoRefresh EXCEPT !.at = "asked"]
  /\ UNCHANGED <<outside, entry, data, ok, seen, call, entities, viewer, left,
                 muddled>>

\* The server reads the status for GET /api/status.
ServeStatus ==
  /\ refresh.at = "asked" /\ StatusKnown
  /\ refresh' = [refresh EXCEPT !.at = "answered", !.got = Snapshot,
                                !.seen = robot.sent]
  /\ UNCHANGED <<outside, entry, data, ok, seen, call, entities, viewer, left,
                 muddled>>

\* Mutant: only the first map changes the time stamp of the image.
FirstImageOnly(new) ==
  IF image.revision = 0 /\ new.map # 0
    THEN [revision |-> new.map, stamp |-> image.stamp + 1] ELSE image

\* _handle_coordinator_update, and async_added_to_hass on the first data.
UpdatedImage(new) ==
  IF new.map = image.revision THEN image
  ELSE [revision |-> new.map,
        stamp |-> IF new.map = 0 THEN image.stamp ELSE image.stamp + 1]

\* Whoever awaits the refresh goes on later, in a turn of its own.
EndRefresh ==
  /\ refresh' = NoRefresh
  /\ call' = [u \in Users |->
       IF u = refresh.owner THEN [call[u] EXCEPT !.at = "refreshed"] ELSE call[u]]
  /\ UNCHANGED <<outside, voice, viewer, muddled>>

RefreshEnds ==
  /\ refresh.at = "answered"
  /\ EndRefresh
  /\ data' = refresh.got /\ seen' = refresh.seen /\ ok' = TRUE
  /\ entry' = "loaded"
  /\ image' = UpdatedImage(refresh.got)
  /\ UNCHANGED left

\* Mutant: a failed refresh leaves the entities available.
OkAfterFailure == ok

\* ProscenicApiError becomes UpdateFailed: the data stays, the success flag
\* does not.
AfterFailure == FALSE

\* Connection refused, a time-out of 10 s, a fault of the network, or a status
\* that the server could not read in one go (state.py:81-85).
RequestFails ==
  \/ ~server.up /\ UNCHANGED left
  \/ Spend("faults")

RefreshFails ==
  /\ \/ refresh.at # "idle" /\ RequestFails
     \/ refresh.at = "asked" /\ server.up /\ ~StatusKnown /\ UNCHANGED left
  /\ EndRefresh
  /\ ok' = AfterFailure
  /\ UNCHANGED <<data, seen, entry, image>>

-----------------------------------------------------------------------------
(* What the entities show: vacuum.py, select.py, and the label of state.py  *)
(* that the server sends instead of the number.                             *)

Available == ok /\ data.connected

Label(work) ==
  CASE work = "1" -> "cleaning"
    [] work = "2" -> "pending_or_transitional"
    [] work = "4" -> "returning_or_docking"
    [] work = "5" -> "docked_or_charging"
    [] work = "6" -> "docked_full_or_charging"
    [] OTHER -> "unknown"

Activity(report) ==
  LET label == Label(report.work)
  IN  IF report.error \notin {None, "", "0"} THEN "error"
      ELSE CASE label = "cleaning" -> "cleaning"
             [] label = "returning_or_docking" -> "returning"
             [] label \in {"docked_or_charging", "docked_full_or_charging"} -> "docked"
             [] label = "pending_or_transitional" -> "idle"
             [] OTHER -> None

Confirmed(group) ==
  {v \in DOMAIN Capabilities[group] :
     Capabilities[group][v].evidence = "confirmed"}

\* Mutant: the mode selector offers unconfirmed modes as well.
OfferedEverything(group) == DOMAIN Capabilities[group]

\* _capability_map: the values a selector offers, under their names.
Offered(group) ==
  IF group = "mode" THEN Confirmed(group) ELSE DOMAIN Capabilities[group]

-----------------------------------------------------------------------------
(* Service calls: async_run_command and the entities that use it.           *)

Continues(u, place) == call' = [call EXCEPT ![u].at = place]
Ends(u) == call' = [call EXCEPT ![u] = Idle]
Answers(u, answer, nth) ==
  call' = [call EXCEPT ![u].at = "answered", ![u].answer = answer, ![u].nth = nth]

Commands ==
  [what : {"move"}, value : Moves] \union [what : {"voice"}, value : {"on", "off"}]
    \union UNION {[what : {g}, value : Offered(g)] : g \in {"mode", "fan"}}

VoiceCalls == {u \in Users : call[u].what = "voice"}

Press(u) ==
  /\ call[u].at = "idle"
  /\ data # None /\ Available
  /\ Spend("calls")
  /\ \E c \in Commands :
       /\ call' = [call EXCEPT ![u] = [Idle EXCEPT !.at = "posted",
                                          !.what = c.what, !.value = c.value]]
       /\ muddled' = (muddled \/ (c.what = "voice" /\ VoiceCalls # {}))
  /\ UNCHANGED <<outside, coordinator, entities, viewer>>

\* RobotService.set_mode wants a confirmed mode, set_fan any known value.
Accepted(c) ==
  CASE c.what = "mode" -> c.value \in Confirmed("mode")
    [] c.what = "fan" -> c.value \in DOMAIN Capabilities["fan"]
    [] OTHER -> TRUE

\* The command is sent to the robot.
SendToRobot(c) ==
  robot' = [voice |-> IF c.what = "voice" THEN c.value ELSE robot.voice,
            sent |-> robot.sent + 1]

\* The server serves the POST: 400 for a value it does not take, 409 without a
\* connection or credentials, or the command is sent and 200.  A login without
\* an auth code that comes between the check of the credentials and their use
\* is a ValueError, and so a 400, of a command that is as valid as before.
ServeCommand(u) ==
  /\ call[u].at = "posted" /\ server.up
  /\ \/ /\ ~Accepted(call[u])
        /\ Answers(u, "400", 0)
        /\ UNCHANGED <<server, robot, left>>
     \/ /\ Accepted(call[u]) /\ ~(server.connected /\ server.ready)
        /\ Answers(u, "409", 0)
        /\ UNCHANGED <<server, robot, left>>
     \/ /\ Accepted(call[u]) /\ server.connected /\ server.ready
        /\ SendToRobot(call[u])
        /\ Answers(u, "200", robot'.sent)
        /\ UNCHANGED <<server, left>>
     \/ /\ Accepted(call[u]) /\ server.connected /\ server.ready
        /\ Spend("reports")
        /\ server' = [server EXCEPT !.ready = FALSE]
        /\ Answers(u, "400", 0)
        /\ UNCHANGED robot
  /\ UNCHANGED <<late, coordinator, entities, viewer, muddled>>

\* Mutant: the switch shows what was asked for, whatever the answer.
VoiceAsAsked(u) == IF call[u].what = "voice" THEN call[u].value ELSE voice

\* The exception leaves async_turn_on before _is_on is assigned.
VoiceAfterRefusal(u) == voice

\* UpdateFailed reaches the caller of the service.
Refused(u) ==
  /\ call[u].at = "answered" /\ call[u].answer # "200"
  /\ voice' = VoiceAfterRefusal(u)
  /\ Ends(u)
  /\ UNCHANGED <<outside, coordinator, image, viewer, left, muddled>>

\* Mutant: without a time-out, a silent server is waited for.
WaitsForAnswer(u) == call[u].at = "answered"

\* ClientTimeout: ten seconds for the whole request.
MayFail(u) == call[u].at \in {"posted", "answered"}

\* Connection error or time-out: a request that was sent may still be served.
Abandon(u) ==
  /\ MayFail(u)
  /\ late' \in {late, late \union {c \in {[what |-> call[u].what,
                                           value |-> call[u].value]} :
                                     call[u].at = "posted"}}
  /\ muddled' = (muddled \/ call[u].what = "voice")
  /\ Ends(u)
  /\ UNCHANGED <<server, robot, coordinator, entities, viewer, left>>

\* Nobody hears of its answer, nor of a failing send.
ServeLate ==
  /\ server.up
  /\ \E c \in late :
       /\ late' = late \ {c}
       /\ \/ UNCHANGED robot
          \/ /\ Accepted(c) /\ server.connected /\ server.ready
             /\ SendToRobot(c)
  /\ UNCHANGED <<server, coordinator, call, entities, viewer, left, muddled>>

\* Mutant: the caller awaits a refresh that already runs.
JoinRefresh(u) ==
  /\ refresh.owner = None
  /\ refresh' = [refresh EXCEPT !.at = IF @ = "idle" THEN "asked" ELSE @,
                                !.owner = u]

OwnRefresh(u) ==
  /\ refresh.at = "idle"
  /\ refresh' = [NoRefresh EXCEPT !.at = "asked", !.owner = u]

\* The command was accepted: a refresh is started and awaited.
StartRefresh(u) ==
  /\ call[u].answer = "200" /\ call[u].at = "answered"
  /\ OwnRefresh(u)
  /\ Continues(u, "refreshing")
  /\ UNCHANGED <<outside, entry, data, ok, seen, entities, viewer, left, muddled>>

\* async_turn_on and async_turn_off continue: the assumed state is set.  The
\* refresh is over, or async_request_refresh returned at once.
Finish(u) ==
  /\ \/ call[u].at = "refreshed"
     \/ call[u].at = "answered" /\ call[u].answer = "200"
  /\ voice' = IF call[u].what = "voice" THEN call[u].value ELSE voice
  /\ Ends(u)
  /\ UNCHANGED <<outside, coordinator, image, viewer, left, muddled>>

-----------------------------------------------------------------------------
(* The browser fetches the image when its time stamp has changed.           *)

Look ==
  /\ viewer.at = "idle" /\ viewer.stamp # image.stamp
  /\ viewer' = [viewer EXCEPT !.at = "asked", !.stamp = image.stamp]
  /\ UNCHANGED <<outside, coordinator, call, entities, left, muddled>>

\* async_map_png: the map of the server, None for a 404 or an error, such as the
\* 422 for a map that cannot be drawn.
ServeImage ==
  /\ viewer.at = "asked"
  /\ \/ /\ server.up
        /\ viewer' = [viewer EXCEPT !.at = "idle",
                        !.map = IF Kind(server.map) = "good" THEN server.map
                                                             ELSE None]
        /\ UNCHANGED left
     \/ /\ RequestFails
        /\ viewer' = [viewer EXCEPT !.at = "idle", !.map = None]
  /\ UNCHANGED <<outside, coordinator, call, entities, muddled>>

-----------------------------------------------------------------------------

Serve == ServeStatus \/ ServeImage \/ ServeLate \/ \E u \in Users : ServeCommand(u)

Continue(u) == Refused(u) \/ StartRefresh(u) \/ Finish(u)

Next ==
  \/ RobotReports \/ RobotSendsMap \/ ComesAndGoes \/ Restart
  \/ Configure \/ Poll \/ RefreshEnds \/ RefreshFails \/ Look \/ Serve
  \/ \E u \in Users : Press(u) \/ Abandon(u) \/ Continue(u)

Spec == Init /\ [][Next]_vars

\* Polls and time-outs are timers of the event loop; the server answers while
\* it can be reached.  Robots, users and the network are free.
FairSpec ==
  /\ Spec
  /\ WF_vars(Poll) /\ WF_vars(RefreshEnds)
  /\ WF_vars(ServeStatus \/ RefreshFails)
  /\ WF_vars(Look) /\ WF_vars(ServeImage)
  /\ \A u \in Users : WF_vars(ServeCommand(u) \/ Abandon(u) \/ Continue(u))

-----------------------------------------------------------------------------
(* Properties.                                                              *)

\* Every variable holds a value of its kind.
TypeOK ==
  /\ server \in [up : BOOLEAN, connected : BOOLEAN, ready : BOOLEAN,
                 report : RobotValues, map : Nat, maps : Seq(MapKinds)]
  /\ server.map <= Len(server.maps)
  /\ robot.voice \in {None, "on", "off"} /\ robot.sent \in Nat
  /\ late \subseteq Commands
  /\ entry \in {"none", "created", "loaded"} /\ (entry = "loaded" <=> data # None)
  /\ data # None => data \in [connected : BOOLEAN, report : RobotValues,
                              map : Nat]
  /\ ok \in BOOLEAN
  /\ refresh.at \in {"idle", "asked", "answered"}
  /\ refresh.owner \in Users \union {None}
  /\ \A u \in Users :
       /\ call[u].at \in {"idle", "posted", "answered", "refreshing", "refreshed"}
       /\ call[u].answer \in {None, "200", "400", "409"}
  /\ voice \in {None, "on", "off"}
  /\ image.revision \in Nat
  /\ viewer.at \in {"idle", "asked"} /\ viewer.map \in {None} \union Nat
  /\ seen \in Nat /\ muddled \in BOOLEAN

\* The voice switch, whose state no robot reports, shows the last voice command
\* that was sent as soon as no voice call is under way, as long as voice calls
\* did not overlap and none was abandoned: a refused one must leave it alone
\* (switch.py:38-45, coordinator.py:41-46).
VoiceAgrees ==
  ~muddled /\ VoiceCalls = {} => voice = robot.voice

\* When a service call that awaited a refresh goes on and the entities are
\* available, the status they show was read after its command was sent: the
\* refresh comes after the POST and is the call's own (coordinator.py:41-46).
RefreshSeesCommand ==
  \A u \in Users : call[u].at = "refreshed" /\ ok => seen >= call[u].nth

\* An option that a selector offers is refused as invalid (400) only in the one
\* race the server has: a login without credentials comes while the command is
\* served.  Otherwise the two sides apply the same notion of evidence to the
\* same table, at any time between the offer and the answer (select.py:34-65,
\* service.py:84-99, tcp_server.py:64-71).
RefusedOnlyByLogin ==
  [][\A u \in Users : call[u].answer # "400" /\ call'[u].answer = "400"
       => server.ready /\ ~server'.ready]_vars

\* The activity of each documented work state, error codes first
\* (docs/confirmed-behavior.md:145-163).
Documented(report) ==
  IF report.error \notin {None, "", "0"} THEN {"error"}
  ELSE CASE report.work = "1" -> {"cleaning"}
         [] report.work = "2" -> {"idle"}
         [] report.work = "4" -> {"returning"}
         [] report.work \in {"5", "6"} -> {"docked"}
         [] OTHER -> {None}

Still == <>[][UNCHANGED <<server, robot>>]_<<server, robot>>

\* Once server and robot rest, the vacuum shows what the server has, connected
\* or not, with the documented activity, whatever calls, failures and refreshes
\* went before; its entities are unavailable only if the server cannot be
\* reached or its current map is foreign, so that every status is a 400
\* (service.py:56).
EntitiesSettle ==
  Still /\ <>(entry # "none") =>
    \/ <>[](server.up /\ data = Snapshot /\ ok
              /\ Activity(data.report) \in Documented(server.report))
    \/ <>[](~StatusKnown /\ ~ok)

\* Once they rest, and the server has a status to give, the browser shows the map
\* the server has, one that a restart of the server lost after it was fetched, or
\* none because the last fetch failed, never an older one: any other revision, a
\* restored one included, moves the time stamp of the image (image.py:47-53).
ImageSettles ==
  Still /\ <>(entry # "none") =>
    \/ <>[](server.map # 0 => viewer.map = None \/ viewer.map >= server.map)
    \/ <>[]~StatusKnown

\* Every service call ends, whatever becomes of server and refreshes.
CallsEnd == \A u \in Users : (call[u].at # "idle") ~> (call[u].at = "idle")
=============================================================================
