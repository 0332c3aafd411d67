------------------------------- MODULE Pickup --------------------------------
(***************************************************************************)
(* Picking up guests and staff in a multiplayer session                    *)
(* (PeepPickupAction.cpp, the pickup tool of Guest.cpp and Staff.cpp).     *)
(*                                                                         *)
(* That a peep is being carried is part of the simulation (PeepState       *)
(* picked); who carries it is a field of the player list, pickupPeep; and  *)
(* the tool that moves it belongs to the UI of one machine.  The three are *)
(* kept in step by pickup, place and cancel actions, which the host        *)
(* executes and relays, and by callbacks on the machine that issued them.  *)
(*                                                                         *)
(* Lockstep is taken for granted: a client executes what the host executed *)
(* and installs the lists the host sent, in the host's order.              *)
(***************************************************************************)
EXTENDS Integers, Sequences, FiniteSets

CONSTANTS
  Client, Host,  \* the machines of the session, each with its player
  Peep,
  None,          \* no peep
  MaxIssued      \* bound: clicks of the players, and joins

Machine == Client \union {Host}

ASSUME PickupAssumption ==
  /\ Host \notin Client /\ None \notin Peep
  /\ MaxIssued \in Nat

VARIABLES
  park,      \* each machine: peeps in PeepState::picked
  holds,     \* each machine's player list: pickupPeep
  known,     \* each machine's player list: pickupPeepOldX is a place in the park
  tool,      \* each machine: the peep whose pickup tool is active
  clicked,   \* each machine: _pickedPeepX of a peep's window is a place in the park
  open,      \* each machine: peeps whose window is open
  member,    \* players in the host's list
  toHost,    \* actions on their way to the host's queue, its own included
  toClient,  \* actions and lists on their way to each client
  dirty,     \* _playerListInvalidated
  renewed,   \* history: the list of players has changed
  cleared,   \* history: machines where CancelConcurrentPickups cleared an entry
  stranded,  \* history: peeps the host put back without a place to put them
  crossed,   \* history: a click about a peep another player was after, or made
             \* before the player's last one had come back
  issued     \* bound: clicks and joins so far

history == <<renewed, cleared, stranded, crossed>>
vars == <<park, holds, known, tool, clicked, open, member, toHost, toClient, dirty, history, issued>>

Action == [op : {"pickup", "place", "cancel"}, peep : Peep, owner : Machine,
           known : BOOLEAN]

UiAction(m, op, peep, place) == [op |-> op, peep |-> peep, owner |-> m, known |-> place]

\* The cancel that onToolAbort issues.
Cancel(m, peep) == UiAction(m, "cancel", peep, clicked[m][peep])

-----------------------------------------------------------------------------
(***************************************************************************)
(* What one machine has in hand while it executes an action; out is what   *)
(* its tool sends meanwhile.                                               *)
(***************************************************************************)
Desk(m) ==
  [park |-> park[m], holds |-> holds[m], known |-> known[m], tool |-> tool[m], out |-> <<>>]

\* Peep::pickupAbort: a peep without a place to return to stays picked.
PutBack(desk, peep, place) ==
  IF place THEN [desk EXCEPT !.park = @ \ {peep}] ELSE desk

ToolCancel(m, desk) ==
  IF desk.tool = None THEN desk
  ELSE [desk EXCEPT !.tool = None, !.out = Append(@, Cancel(m, desk.tool))]

\* ToolSet for the window of peep: a second time, it puts the tool away.
ToolSet(m, desk, peep) ==
  IF desk.tool = peep THEN ToolCancel(m, desk)
  ELSE [ToolCancel(m, desk) EXCEPT !.tool = peep]

\* The cancel of Execute, for the owner of the action.
Drop(desk, owner, place) ==
  LET put == IF desk.holds[owner] = None THEN desk ELSE PutBack(desk, desk.holds[owner], place)
  IN [put EXCEPT !.holds[owner] = None]

Take(desk, owner, peep) ==
  [desk EXCEPT !.known[owner] = peep \notin desk.park, !.holds[owner] = peep,
               !.park = @ \union {peep}]

\* Mutant: the first peep is not put back when another one is picked up.
PickupKeepsFirst(m, a, desk) ==
  IF desk.holds[a.owner] = a.peep THEN Drop(desk, a.owner, desk.known[a.owner])
  ELSE [Take(desk, a.owner, a.peep) EXCEPT !.tool = IF m = a.owner THEN None ELSE @]

(***************************************************************************)
(* PeepPickupType::pickup: what the owner already carries is put back      *)
(* first; the same peep again is only put back.                            *)
(***************************************************************************)
Pickup(m, a, desk) ==
  LET existing == desk.holds[a.owner]
      dropped == Drop(desk, a.owner, desk.known[a.owner])
  IN IF existing = None THEN Take(desk, a.owner, a.peep)
     ELSE IF existing = a.peep THEN dropped
     ELSE [Take(dropped, a.owner, a.peep) EXCEPT !.tool = IF m = a.owner THEN None ELSE @]

\* CancelConcurrentPickups: the player of this machine carries the peep as well.
Clears(m, a, carries) == a.op = "place" /\ m # a.owner /\ carries[m] = a.peep

\* The peep that is put back although no place is known: it stays in the air.
Strands(a, desk) ==
  {p \in Peep : /\ desk.holds[a.owner] = p
               /\ \/ a.op = "cancel" /\ ~a.known
                  \/ a.op = "pickup" /\ ~desk.known[a.owner]}

\* Mutant: the entry that is cleared is the one of whoever places.
PlaceClearsOwner(m, a, desk) ==
  LET put == [desk EXCEPT !.park = @ \ {a.peep}]
  IN IF Clears(m, a, desk.holds) THEN ToolCancel(m, [put EXCEPT !.holds[a.owner] = None]) ELSE put

(***************************************************************************)
(* PeepPickupType::place with CancelConcurrentPickups: the owner's entry   *)
(* stays until the cancel of its tool; of the other players who carry the  *)
(* peep only the one of this machine is cleared.                           *)
(***************************************************************************)
Place(m, a, desk) ==
  LET put == [desk EXCEPT !.park = @ \ {a.peep}]
  IN IF Clears(m, a, desk.holds) THEN ToolCancel(m, [put EXCEPT !.holds[m] = None]) ELSE put

\* PeepPickupAction::Query, as far as machines can differ.
Accepts(m, a) == a.op = "place" => holds[m][a.owner] = a.peep

\* The callback, on the machine that issued the action; a window that has been
\* closed since gets no tool.
Callback(m, a, desk) ==
  IF m # a.owner THEN desk
  ELSE CASE a.op = "pickup" -> IF a.peep \in open[m] THEN ToolSet(m, desk, a.peep) ELSE desk
         [] a.op = "place" -> ToolCancel(m, desk)
         [] OTHER -> desk

Outcome(m, a) ==
  LET desk == Desk(m)
  IN IF ~Accepts(m, a) THEN desk
     ELSE Callback(m, a, CASE a.op = "pickup" -> Pickup(m, a, desk)
                           [] a.op = "place" -> Place(m, a, desk)
                           [] a.op = "cancel" -> Drop(desk, a.owner, a.known))

Executes(m, a, desk) ==
  /\ park' = [park EXCEPT ![m] = desk.park]
  /\ holds' = [holds EXCEPT ![m] = desk.holds]
  /\ known' = [known EXCEPT ![m] = desk.known]
  /\ tool' = [tool EXCEPT ![m] = desk.tool]
  /\ cleared' = IF Accepts(m, a) /\ Clears(m, a, holds[m]) THEN cleared \union {m} ELSE cleared
  /\ stranded' = IF m = Host /\ Accepts(m, a) THEN stranded \union Strands(a, Desk(m)) ELSE stranded

Relay(packet) ==
  toClient' = [c \in Client |-> IF c \in member THEN Append(toClient[c], packet) ELSE toClient[c]]

-----------------------------------------------------------------------------
Init ==
  /\ park = [m \in Machine |-> {}]
  /\ holds = [m \in Machine |-> [n \in Machine |-> None]]
  /\ known = [m \in Machine |-> [n \in Machine |-> FALSE]]
  /\ tool = [m \in Machine |-> None]
  /\ clicked = [m \in Machine |-> [p \in Peep |-> FALSE]]
  /\ open = [m \in Machine |-> Peep]
  /\ member = Machine
  /\ toHost = [m \in Machine |-> <<>>]
  /\ toClient = [c \in Client |-> <<>>]
  /\ dirty = FALSE
  /\ renewed = FALSE /\ cleared = {} /\ stranded = {} /\ crossed = FALSE
  /\ issued = 0

\* GameActions::Execute from the UI: sent to the host's queue.
Issue(m, a) ==
  /\ issued < MaxIssued
  /\ issued' = issued + 1
  /\ toHost' = [toHost EXCEPT ![m] = Append(@, a)]

\* The actions of player n that are on their way.
UnderWay(n) ==
  {a \in UNION {{toHost[m][i] : i \in 1 .. Len(toHost[m])} : m \in Machine}
         \union UNION {{toClient[c][i] : i \in 1 .. Len(toClient[c])} : c \in Client} :
     a.op # "list" /\ a.owner = n}

\* Player n carries the peep, as far as any machine knows, or his actions are about it.
IsAfter(n, peep) ==
  \/ tool[n] = peep
  \/ \E m \in Machine : holds[m][n] = peep
  \/ \E a \in UnderWay(n) : a.peep = peep

\* What the player has clicked before has not yet come back to his machine.
Waits(m) ==
  \/ toHost[m] # <<>>
  \/ m # Host /\ \E i \in 1 .. Len(toClient[m]) : toClient[m][i].op # "list" /\ toClient[m][i].owner = m

\* The pickup button of a peep's window, also for a peep that is in the air.
ClickPickup(m, peep) ==
  /\ m \in member /\ peep \in open[m]
  /\ Issue(m, UiAction(m, "pickup", peep, FALSE))
  /\ clicked' = [clicked EXCEPT ![m][peep] = peep \notin park[m]]
  /\ crossed' = (crossed \/ Waits(m) \/ \E n \in Machine \ {m} : IsAfter(n, peep))
  /\ UNCHANGED <<park, holds, known, tool, open, member, toClient, dirty, renewed, cleared, stranded>>

\* A click into the park with the pickup tool.
ClickPark(m) ==
  /\ m \in member
  /\ tool[m] # None
  /\ holds[m][m] = tool[m]
  /\ Issue(m, UiAction(m, "place", tool[m], FALSE))
  /\ UNCHANGED <<park, holds, known, tool, clicked, open, member, toClient, dirty, history>>

\* The player puts the tool away.
ClickAway(m) ==
  /\ m \in member
  /\ tool[m] # None
  /\ Issue(m, Cancel(m, tool[m]))
  /\ tool' = [tool EXCEPT ![m] = None]
  /\ UNCHANGED <<park, holds, known, clicked, open, member, toClient, dirty, history>>

\* onClose: the tool of the window is put away with it.
CloseWindow(m, peep) ==
  /\ m \in member /\ peep \in open[m]
  /\ open' = [open EXCEPT ![m] = @ \ {peep}]
  /\ IF tool[m] = peep
       THEN /\ Issue(m, Cancel(m, peep))
            /\ tool' = [tool EXCEPT ![m] = None]
       ELSE /\ issued < MaxIssued
            /\ issued' = issued + 1
            /\ UNCHANGED <<toHost, tool>>
  /\ crossed' = (crossed \/ Waits(m))
  /\ UNCHANGED <<park, holds, known, clicked, member, toClient, dirty, renewed, cleared, stranded>>

\* A window that is opened anew knows no place of the peep.
OpenWindow(m, peep) ==
  /\ m \in member /\ peep \notin open[m]
  /\ open' = [open EXCEPT ![m] = @ \union {peep}]
  /\ clicked' = [clicked EXCEPT ![m][peep] = FALSE]
  /\ UNCHANGED <<park, holds, known, tool, member, toHost, toClient, dirty, history, issued>>

(***************************************************************************)
(* ProcessQueue of the host takes the next action of one of the players,   *)
(* executes it and relays it.                                              *)
(***************************************************************************)
HostExecutes(m) ==
  /\ toHost[m] # <<>>
  /\ LET a == Head(toHost[m])
         desk == Outcome(Host, a)
         rest == [toHost EXCEPT ![m] = Tail(@)]
     IN /\ Executes(Host, a, desk)
        /\ toHost' = [rest EXCEPT ![Host] = @ \o desk.out]
        /\ IF Accepts(Host, a) THEN Relay(a) ELSE UNCHANGED toClient
  /\ UNCHANGED <<clicked, open, member, dirty, renewed, crossed, issued>>

\* Mutant: the host relays an action before it knows that it is allowed.
HostRefusesLate(m) ==
  /\ toHost[m] # <<>>
  /\ Head(toHost[m]).op # "cancel"
  /\ toHost' = [toHost EXCEPT ![m] = Tail(@)]
  /\ Relay(Head(toHost[m]))
  /\ UNCHANGED <<park, holds, known, tool, clicked, open, member, dirty, history, issued>>

(***************************************************************************)
(* The host drops an action without effect: a peep cannot be picked up     *)
(* (canBePickedUp, which one in the air can) or put down there             *)
(* (Peep::place).  Nothing refuses a cancel as long as the permissions of  *)
(* the player's group stay.                                                *)
(***************************************************************************)
HostRefuses(m) ==
  /\ toHost[m] # <<>>
  /\ \/ Head(toHost[m]).op = "place"
     \/ Head(toHost[m]).op = "pickup" /\ Head(toHost[m]).peep \notin park[Host]
  /\ toHost' = [toHost EXCEPT ![m] = Tail(@)]
  /\ UNCHANGED <<park, holds, known, tool, clicked, open, member, toClient, dirty, history, issued>>

ClientExecutes(c) ==
  /\ c \in member
  /\ toClient[c] # <<>>
  /\ Head(toClient[c]).op # "list"
  /\ LET a == Head(toClient[c])
         desk == Outcome(c, a)
     IN /\ Executes(c, a, desk)
        /\ toHost' = [toHost EXCEPT ![c] = @ \o desk.out]
  /\ toClient' = [toClient EXCEPT ![c] = Tail(@)]
  /\ UNCHANGED <<clicked, open, member, dirty, renewed, crossed, issued>>

(***************************************************************************)
(* ProcessPlayerList on a client: every player is replaced by the one of   *)
(* the list, and Player::read leaves pickupPeep at nullptr.                *)
(***************************************************************************)
ClientInstallsList(c) ==
  /\ c \in member
  /\ toClient[c] # <<>>
  /\ Head(toClient[c]).op = "list"
  /\ holds' = [holds EXCEPT ![c] = [n \in Machine |-> None]]
  /\ known' = [known EXCEPT ![c] = [n \in Machine |-> FALSE]]
  /\ toClient' = [toClient EXCEPT ![c] = Tail(@)]
  /\ UNCHANGED <<park, tool, clicked, open, member, toHost, dirty, history, issued>>

\* AddPlayer for somebody who joins.
Join ==
  /\ issued < MaxIssued
  /\ issued' = issued + 1
  /\ dirty' = TRUE
  /\ renewed' = TRUE
  /\ UNCHANGED <<park, holds, known, tool, clicked, open, member, toHost, toClient, cleared, stranded, crossed>>

\* PostTick of a host whose players have changed.
HostSendsList ==
  /\ dirty
  /\ dirty' = FALSE
  /\ Relay([op |-> "list"])
  /\ UNCHANGED <<park, holds, known, tool, clicked, open, member, toHost, history, issued>>

\* Mutant: whoever leaves is taken to carry a peep.
ClientLeavesUnchecked(c) ==
  /\ c \in member
  /\ member' = member \ {c}
  /\ toHost' = [toHost EXCEPT ![c] = <<>>,
       ![Host] = Append(@, UiAction(Host, "cancel", holds[Host][c], known[Host][c]))]
  /\ dirty' = TRUE
  /\ renewed' = TRUE
  /\ UNCHANGED <<park, holds, known, tool, clicked, open, toClient, cleared, stranded, crossed, issued>>

(***************************************************************************)
(* ServerClientDisconnected cancels what the player carries, with the      *)
(* host's own player as the owner, then RemovePlayer.                      *)
(***************************************************************************)
ClientLeaves(c) ==
  /\ c \in member
  /\ member' = member \ {c}
  /\ LET carried == holds[Host][c]
         rest == [toHost EXCEPT ![c] = <<>>]
     IN toHost' = IF carried = None THEN rest
                  ELSE [rest EXCEPT ![Host] = Append(@, UiAction(Host, "cancel", carried, known[Host][c]))]
  /\ holds' = [holds EXCEPT ![Host][c] = None]
  /\ known' = [known EXCEPT ![Host][c] = FALSE]
  /\ dirty' = TRUE
  /\ renewed' = TRUE
  /\ toClient' = [toClient EXCEPT ![c] = <<>>]
  /\ UNCHANGED <<park, tool, clicked, open, cleared, stranded, crossed, issued>>

Next ==
  \/ \E m \in Machine : ClickPark(m) \/ ClickAway(m) \/ HostExecutes(m) \/ HostRefuses(m)
  \/ \E m \in Machine, p \in Peep : ClickPickup(m, p) \/ CloseWindow(m, p) \/ OpenWindow(m, p)
  \/ \E c \in Client : ClientExecutes(c) \/ ClientInstallsList(c) \/ ClientLeaves(c)
  \/ Join
  \/ HostSendsList

Spec == Init /\ [][Next]_vars

-----------------------------------------------------------------------------
\* Parks, player lists, tools and queues have values the code can give them.
TypeOK ==
  /\ park \in [Machine -> SUBSET Peep]
  /\ holds \in [Machine -> [Machine -> Peep \union {None}]]
  /\ known \in [Machine -> [Machine -> BOOLEAN]]
  /\ tool \in [Machine -> Peep \union {None}]
  /\ clicked \in [Machine -> [Peep -> BOOLEAN]]
  /\ open \in [Machine -> SUBSET Peep]
  /\ member \subseteq Machine
  /\ toHost \in [Machine -> Seq(Action)]
  /\ toClient \in [Client -> Seq(Action \union [op : {"list"}])]
  /\ {dirty, renewed, crossed} \subseteq BOOLEAN
  /\ cleared \subseteq Machine /\ stranded \subseteq Peep
  /\ issued \in 0 .. MaxIssued

\* The clients in the session that have executed everything they have been sent.
UpToDate == {c \in Client \intersect member : toClient[c] = <<>>}

\* However many players click on the same or on different peeps, and however their
\* actions cross, a client that has executed everything has the same peeps in the
\* air as the host.  It stops at the first concurrent pickup that is cancelled,
\* and at the first player list after the one the session began with.
SimulationsAgree ==
  ~renewed /\ cleared = {} => \A c \in UpToDate : park[c] = park[Host]

\* A concurrent pickup that is cancelled disturbs nobody else: a client that has
\* executed everything agrees with the host about what each player carries,
\* except for its own player and the host's if the pickup of that one was cancelled.
CarriersAgree ==
  ~renewed =>
    \A c \in UpToDate, n \in Machine :
      n \in cleared \intersect {c, Host} \/ holds[c][n] = holds[Host][n]

\* Player lists that make a client forget who carries what, and players who leave,
\* do not make it put down a peep that the host has in the air, as long as
\* no player goes after a peep that another one is after, or is ahead of the answers
\* to his own clicks.
NobodyPutDownEarly ==
  ~crossed => \A c \in UpToDate : park[Host] \subseteq park[c]

\* Until somebody leaves, a peep that the host has in the air has a player who can
\* put it down, unless a cancel or another pickup had no place to put it back to.
\* Refused placements, pickups of a second peep and of one that somebody else
\* carries, closed windows and cancelled concurrent pickups do not strand it.
NoPeepLeftInTheAir ==
  member = Machine =>
    \A p \in park[Host] \ stranded : \E m \in Machine : holds[Host][m] = p
=============================================================================
