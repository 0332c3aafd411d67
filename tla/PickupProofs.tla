---------------------------- MODULE PickupProofs -----------------------------
(***************************************************************************)
(* What Pickup promises for any number of players, peeps and clicks, in    *)
(* any order.                                                              *)
(*                                                                         *)
(* First what one machine does when it executes an action: what it makes   *)
(* of park and player list is a function of the action and of these two    *)
(* (After), up to its own player's entry, which CancelConcurrentPickups    *)
(* may clear.  Then the types, that nobody is stranded at the host, and    *)
(* the invariant behind the agreement of the machines: what is on the way  *)
(* to a client takes what it has to what the host has (Runs).              *)
(***************************************************************************)
EXTENDS Pickup, TLAPS

-----------------------------------------------------------------------------
(* One machine that executes an action. *)

Desks ==
  [park : SUBSET Peep, holds : [Machine -> Peep \union {None}], known : [Machine -> BOOLEAN],
   tool : Peep \union {None}, out : Seq(Action)]

Packet == Action \union [op : {"list"}]

LEMMA DeskType ==
  ASSUME TypeOK, NEW m \in Machine
  PROVE  Desk(m) \in Desks
  BY DEF TypeOK, Desk, Desks

LEMMA CancelType ==
  ASSUME TypeOK, NEW m \in Machine, NEW desk \in Desks, desk.tool # None
  PROVE  Cancel(m, desk.tool) \in Action
  BY DEF TypeOK, Desks, Cancel, UiAction, Action

LEMMA DropFields ==
  ASSUME NEW desk \in Desks, NEW owner \in Machine, NEW place \in BOOLEAN
  PROVE  /\ Drop(desk, owner, place) \in Desks
         /\ Drop(desk, owner, place).holds = [desk.holds EXCEPT ![owner] = None]
         /\ place => Drop(desk, owner, place).park = desk.park \ {desk.holds[owner]}
         /\ ~place => Drop(desk, owner, place).park = desk.park
         /\ Drop(desk, owner, place).known = desk.known
         /\ Drop(desk, owner, place).tool = desk.tool
         /\ Drop(desk, owner, place).out = desk.out
  <1>1. desk = [park |-> desk.park, holds |-> desk.holds, known |-> desk.known,
                tool |-> desk.tool, out |-> desk.out]
    BY DEF Desks
  <1>2. None \notin Peep
    BY PickupAssumption
  <1>3. CASE desk.holds[owner] = None \/ ~place
    <2>1. Drop(desk, owner, place) = [desk EXCEPT !.holds[owner] = None]
      BY <1>3 DEF Drop, PutBack
    <2>2. QED
      BY <1>1, <1>2, <1>3, <2>1 DEF Desks
  <1>4. CASE desk.holds[owner] # None /\ place
    <2>1. Drop(desk, owner, place)
            = [[desk EXCEPT !.park = @ \ {desk.holds[owner]}] EXCEPT !.holds[owner] = None]
      BY <1>4 DEF Drop, PutBack
    <2>2. PICK put \in Desks : put = [desk EXCEPT !.park = @ \ {desk.holds[owner]}]
      BY DEF Desks
    <2>3. /\ put.park = desk.park \ {desk.holds[owner]} /\ put.holds = desk.holds
          /\ put.known = desk.known /\ put.tool = desk.tool /\ put.out = desk.out
      BY <2>2 DEF Desks
    <2>4. Drop(desk, owner, place) = [put EXCEPT !.holds[owner] = None]
      BY <2>1, <2>2
    <2>5. PICK d \in Desks : d = [put EXCEPT !.holds[owner] = None]
      BY DEF Desks
    <2>6. /\ d.park = put.park /\ d.holds = [put.holds EXCEPT ![owner] = None]
          /\ d.known = put.known /\ d.tool = put.tool /\ d.out = put.out
      BY <2>5 DEF Desks
    <2>7. QED
      BY <1>4, <2>3, <2>4, <2>5, <2>6
  <1>5. QED
    BY <1>3, <1>4

LEMMA TakeFields ==
  ASSUME NEW desk \in Desks, NEW owner \in Machine, NEW peep \in Peep
  PROVE  /\ Take(desk, owner, peep) \in Desks
         /\ Take(desk, owner, peep).holds = [desk.holds EXCEPT ![owner] = peep]
         /\ Take(desk, owner, peep).park = desk.park \union {peep}
         /\ Take(desk, owner, peep).known = [desk.known EXCEPT ![owner] = peep \notin desk.park]
         /\ Take(desk, owner, peep).tool = desk.tool
         /\ Take(desk, owner, peep).out = desk.out
  <1>1. desk = [park |-> desk.park, holds |-> desk.holds, known |-> desk.known,
                tool |-> desk.tool, out |-> desk.out]
    BY DEF Desks
  <1>2. (peep \notin desk.park) \in BOOLEAN
    OBVIOUS
  <1>3. QED
    BY <1>1, <1>2 DEF Desks, Take

LEMMA ToolCancelFields ==
  ASSUME TypeOK, NEW m \in Machine, NEW desk \in Desks
  PROVE  /\ ToolCancel(m, desk) \in Desks
         /\ ToolCancel(m, desk).holds = desk.holds
         /\ ToolCancel(m, desk).park = desk.park
         /\ ToolCancel(m, desk).known = desk.known
  <1>1. desk = [park |-> desk.park, holds |-> desk.holds, known |-> desk.known,
                tool |-> desk.tool, out |-> desk.out]
    BY DEF Desks
  <1>2. CASE desk.tool = None
    BY <1>2 DEF ToolCancel
  <1>3. CASE desk.tool # None
    <2>1. PICK x \in Action : x = Cancel(m, desk.tool)
      BY <1>3, CancelType
    <2>2. ToolCancel(m, desk) = [desk EXCEPT !.tool = None, !.out = Append(@, x)]
      BY <1>3, <2>1 DEF ToolCancel
    <2>3. desk.out \in Seq(Action) /\ Append(desk.out, x) \in Seq(Action)
      BY DEF Desks
    <2>4. QED
      BY <1>1, <2>2, <2>3 DEF Desks
  <1>4. QED
    BY <1>2, <1>3

LEMMA ToolSetFields ==
  ASSUME TypeOK, NEW m \in Machine, NEW desk \in Desks, NEW peep \in Peep
  PROVE  /\ ToolSet(m, desk, peep) \in Desks
         /\ ToolSet(m, desk, peep).holds = desk.holds
         /\ ToolSet(m, desk, peep).park = desk.park
         /\ ToolSet(m, desk, peep).known = desk.known
  <1>1. CASE desk.tool = peep
    BY <1>1, ToolCancelFields DEF ToolSet
  <1>2. CASE desk.tool # peep
    <2>1. PICK d \in Desks : d = ToolCancel(m, desk)
      BY ToolCancelFields
    <2>2. ToolSet(m, desk, peep) = [d EXCEPT !.tool = peep]
      BY <1>2, <2>1 DEF ToolSet
    <2>3. d = [park |-> d.park, holds |-> d.holds, known |-> d.known, tool |-> d.tool, out |-> d.out]
      BY DEF Desks
    <2>4. d.holds = desk.holds /\ d.park = desk.park /\ d.known = desk.known
      BY <2>1, ToolCancelFields
    <2>5. QED
      BY <2>2, <2>3, <2>4 DEF Desks
  <1>3. QED
    BY <1>1, <1>2

\* The callback sends and sets tools; it leaves park and list alone.
LEMMA CallbackFields ==
  ASSUME TypeOK, NEW m \in Machine, NEW a \in Action, NEW desk \in Desks
  PROVE  /\ Callback(m, a, desk) \in Desks
         /\ Callback(m, a, desk).holds = desk.holds
         /\ Callback(m, a, desk).park = desk.park
         /\ Callback(m, a, desk).known = desk.known
  <1>0. a.op \in {"pickup", "place", "cancel"} /\ a.peep \in Peep
    BY DEF Action
  <1>1. CASE m # a.owner \/ a.op = "cancel"
    BY <1>1 DEF Callback
  <1>2. CASE m = a.owner /\ a.op = "pickup"
    BY <1>0, <1>2, ToolSetFields DEF Callback
  <1>3. CASE m = a.owner /\ a.op = "place"
    BY <1>3, ToolCancelFields DEF Callback
  <1>4. QED
    BY <1>0, <1>1, <1>2, <1>3

-----------------------------------------------------------------------------
(* What an action makes of park and player list. *)

State ==
  [park : SUBSET Peep, holds : [Machine -> Peep \union {None}], known : [Machine -> BOOLEAN]]

View(m) == [park |-> park[m], holds |-> holds[m], known |-> known[m]]

\* What a player with the entry h carries after the action.
Carried(a, h) ==
  CASE a.op = "place" -> h
    [] a.op = "cancel" -> None
    [] a.op = "pickup" -> IF h = a.peep THEN None ELSE a.peep

\* The park after the owner has put back what he carries, if its place is known.
PutDown(a, x) ==
  IF (IF a.op = "cancel" THEN a.known ELSE x.known[a.owner])
    THEN x.park \ {x.holds[a.owner]} ELSE x.park

ParkAfter(a, x) ==
  CASE a.op = "place" -> IF x.holds[a.owner] = a.peep THEN x.park \ {a.peep} ELSE x.park
    [] a.op = "cancel" -> PutDown(a, x)
    [] a.op = "pickup" -> IF x.holds[a.owner] = a.peep THEN PutDown(a, x)
                          ELSE PutDown(a, x) \union {a.peep}

KnownAfter(a, x) ==
  IF a.op = "pickup" /\ x.holds[a.owner] # a.peep
    THEN [x.known EXCEPT ![a.owner] = a.peep \notin PutDown(a, x)] ELSE x.known

After(a, x) ==
  [park |-> ParkAfter(a, x), known |-> KnownAfter(a, x),
   holds |-> [x.holds EXCEPT ![a.owner] = Carried(a, @)]]

LEMMA AfterType ==
  ASSUME NEW a \in Action, NEW x \in State
  PROVE  After(a, x) \in State
  <1>1. /\ a.op \in {"pickup", "place", "cancel"} /\ a.owner \in Machine /\ a.peep \in Peep
        /\ x.park \subseteq Peep /\ x.holds \in [Machine -> Peep \union {None}]
        /\ x.known \in [Machine -> BOOLEAN]
    BY DEF Action, State
  <1>2. PutDown(a, x) \subseteq Peep
    BY <1>1 DEF PutDown
  <1>3. ParkAfter(a, x) \in SUBSET Peep
    BY <1>1, <1>2 DEF ParkAfter
  <1>4. KnownAfter(a, x) \in [Machine -> BOOLEAN]
    BY <1>1 DEF KnownAfter
  <1>5. Carried(a, x.holds[a.owner]) \in Peep \union {None}
    BY <1>1 DEF Carried
  <1>6. [x.holds EXCEPT ![a.owner] = Carried(a, x.holds[a.owner])] \in [Machine -> Peep \union {None}]
    BY <1>1, <1>5
  <1>7. QED
    BY <1>3, <1>4, <1>6 DEF After, State

\* d has the park and the list of After, with the entry of m itself cleared.
Follows(m, a, d) ==
  LET x == After(a, View(m)) IN
  /\ d.park = x.park /\ d.known = x.known
  /\ d.holds = IF Accepts(m, a) /\ Clears(m, a, holds[m])
                 THEN [x.holds EXCEPT ![m] = None] ELSE x.holds

LEMMA PickupFollows ==
  ASSUME TypeOK, NEW m \in Machine, NEW a \in Action, a.op = "pickup"
  PROVE  Pickup(m, a, Desk(m)) \in Desks /\ Follows(m, a, Pickup(m, a, Desk(m)))
  <1> DEFINE desk == Desk(m)
             dropped == Drop(desk, a.owner, desk.known[a.owner])
             x == After(a, View(m))
  <1>0. None \notin Peep /\ a.owner \in Machine /\ a.peep \in Peep
    BY PickupAssumption DEF Action
  <1>1. /\ desk \in Desks /\ desk.park = park[m] /\ desk.holds = holds[m] /\ desk.known = known[m]
    BY DeskType DEF Desk
  <1>2. /\ park[m] \subseteq Peep /\ holds[m] \in [Machine -> Peep \union {None}]
        /\ known[m] \in [Machine -> BOOLEAN]
    BY DEF TypeOK
  <1>3. /\ View(m).park = park[m] /\ View(m).holds = holds[m] /\ View(m).known = known[m]
    BY DEF View
  <1>4. /\ dropped \in Desks /\ dropped.holds = [holds[m] EXCEPT ![a.owner] = None]
        /\ dropped.park = PutDown(a, View(m)) /\ dropped.known = known[m]
    <2>1. /\ dropped \in Desks /\ dropped.holds = [holds[m] EXCEPT ![a.owner] = None]
          /\ dropped.known = known[m]
          /\ known[m][a.owner] => dropped.park = park[m] \ {holds[m][a.owner]}
          /\ ~known[m][a.owner] => dropped.park = park[m]
      <3>1. known[m][a.owner] \in BOOLEAN
        BY <1>0, <1>2
      <3>2. QED
        BY <1>0, <1>1, <3>1, DropFields
    <2>2. a.op # "cancel"
      OBVIOUS
    <2>3. QED
      BY <1>3, <2>1, <2>2 DEF PutDown
  <1>5. /\ x.park = ParkAfter(a, View(m)) /\ x.known = KnownAfter(a, View(m))
        /\ x.holds = [holds[m] EXCEPT ![a.owner] = Carried(a, holds[m][a.owner])]
    BY <1>3 DEF After
  <1>6. Follows(m, a, Pickup(m, a, desk)) <=>
          /\ Pickup(m, a, desk).park = x.park /\ Pickup(m, a, desk).known = x.known
          /\ Pickup(m, a, desk).holds = x.holds
    BY DEF Follows, Clears
  <1>7. CASE holds[m][a.owner] = None
    <2>1. Pickup(m, a, desk) = Take(desk, a.owner, a.peep)
      BY <1>1, <1>7 DEF Pickup
    <2>2. PutDown(a, View(m)) = park[m]
      BY <1>0, <1>2, <1>3, <1>7 DEF PutDown
    <2>3. /\ x.park = park[m] \union {a.peep}
          /\ x.known = [known[m] EXCEPT ![a.owner] = a.peep \notin park[m]]
          /\ x.holds = [holds[m] EXCEPT ![a.owner] = a.peep]
      BY <1>0, <1>3, <1>5, <1>7, <2>2 DEF ParkAfter, KnownAfter, Carried
    <2>4. QED
      BY <1>0, <1>1, <1>6, <2>1, <2>3, TakeFields
  <1>8. CASE holds[m][a.owner] = a.peep
    <2>1. Pickup(m, a, desk) = dropped
      BY <1>0, <1>1, <1>8 DEF Pickup
    <2>2. /\ x.park = PutDown(a, View(m)) /\ x.known = known[m]
          /\ x.holds = [holds[m] EXCEPT ![a.owner] = None]
      BY <1>0, <1>3, <1>5, <1>8 DEF ParkAfter, KnownAfter, Carried
    <2>3. QED
      BY <1>4, <1>6, <2>1, <2>2
  <1>9. CASE holds[m][a.owner] # None /\ holds[m][a.owner] # a.peep
    <2>1. PICK e \in Desks : e = dropped
      BY <1>4
    <2>2. PICK d \in Desks : d = Take(e, a.owner, a.peep)
      BY <1>0, TakeFields
    <2>3. /\ d.holds = [e.holds EXCEPT ![a.owner] = a.peep] /\ d.park = e.park \union {a.peep}
          /\ d.known = [e.known EXCEPT ![a.owner] = a.peep \notin e.park]
      BY <1>0, <2>2, TakeFields
    <2>4. Pickup(m, a, desk) = [d EXCEPT !.tool = IF m = a.owner THEN None ELSE @]
      BY <1>1, <1>9, <2>1, <2>2 DEF Pickup
    <2>5. PICK f \in Desks : /\ f = Pickup(m, a, desk)
                             /\ f.holds = d.holds /\ f.park = d.park /\ f.known = d.known
      BY <2>4 DEF Desks
    <2>6. /\ x.park = PutDown(a, View(m)) \union {a.peep}
          /\ x.known = [known[m] EXCEPT ![a.owner] = a.peep \notin PutDown(a, View(m))]
          /\ x.holds = [holds[m] EXCEPT ![a.owner] = a.peep]
      BY <1>0, <1>3, <1>5, <1>9 DEF ParkAfter, KnownAfter, Carried
    <2>7. f.holds = [holds[m] EXCEPT ![a.owner] = a.peep]
      BY <1>0, <1>2, <1>4, <2>1, <2>3, <2>5
    <2>8. f.park = x.park /\ f.known = x.known
      BY <1>4, <2>1, <2>3, <2>5, <2>6
    <2>9. QED
      BY <1>6, <2>5, <2>6, <2>7, <2>8
  <1>10. QED
    BY <1>7, <1>8, <1>9

LEMMA PlaceFollows ==
  ASSUME TypeOK, NEW m \in Machine, NEW a \in Action, a.op = "place", Accepts(m, a)
  PROVE  Place(m, a, Desk(m)) \in Desks /\ Follows(m, a, Place(m, a, Desk(m)))
  <1> DEFINE x == After(a, View(m))
  <1>0. a.owner \in Machine /\ a.peep \in Peep /\ holds[m][a.owner] = a.peep
    BY DEF Action, Accepts
  <1>1. PICK desk \in Desks : /\ desk = Desk(m) /\ desk.park = park[m]
                              /\ desk.holds = holds[m] /\ desk.known = known[m]
    BY DeskType DEF Desk
  <1>2. PICK put \in Desks : put = [desk EXCEPT !.park = @ \ {a.peep}]
    BY DEF Desks
  <1>3. put.park = park[m] \ {a.peep} /\ put.holds = holds[m] /\ put.known = known[m]
    BY <1>1, <1>2 DEF Desks
  <1>4. holds[m] \in [Machine -> Peep \union {None}]
    BY DEF TypeOK
  <1>5. x.park = park[m] \ {a.peep} /\ x.holds = holds[m] /\ x.known = known[m]
    BY <1>0, <1>4 DEF After, ParkAfter, KnownAfter, Carried, View
  <1>6. CASE Clears(m, a, holds[m])
    <2>1. PICK e \in Desks : e = [put EXCEPT !.holds[m] = None]
      BY DEF Desks
    <2>2. e.park = put.park /\ e.holds = [holds[m] EXCEPT ![m] = None] /\ e.known = known[m]
      BY <1>3, <2>1 DEF Desks
    <2>3. Place(m, a, Desk(m)) = ToolCancel(m, e)
      BY <1>1, <1>2, <1>6, <2>1 DEF Place
    <2>4. QED
      BY <1>3, <1>5, <1>6, <2>2, <2>3, ToolCancelFields DEF Follows
  <1>7. CASE ~Clears(m, a, holds[m])
    <2>1. Place(m, a, Desk(m)) = put
      BY <1>1, <1>2, <1>7 DEF Place
    <2>2. QED
      BY <1>3, <1>5, <1>7, <2>1 DEF Follows
  <1>8. QED
    BY <1>6, <1>7

\* The outcome of an action on a machine.
LEMMA OutcomeFollows ==
  ASSUME TypeOK, NEW m \in Machine, NEW a \in Action
  PROVE  Outcome(m, a) \in Desks /\ Follows(m, a, Outcome(m, a))
  <1>0. /\ a.op \in {"pickup", "place", "cancel"} /\ a.owner \in Machine /\ a.peep \in Peep
        /\ a.known \in BOOLEAN
    BY DEF Action
  <1>1. PICK desk \in Desks : /\ desk = Desk(m) /\ desk.park = park[m]
                              /\ desk.holds = holds[m] /\ desk.known = known[m]
    BY DeskType DEF Desk
  <1>2. holds[m] \in [Machine -> Peep \union {None}] /\ park[m] \subseteq Peep
    BY DEF TypeOK
  <1>3. CASE ~Accepts(m, a)
    <2>1. a.op = "place" /\ holds[m][a.owner] # a.peep
      BY <1>3 DEF Accepts
    <2>2. Outcome(m, a) = desk
      BY <1>1, <1>3 DEF Outcome
    <2>3. Follows(m, a, desk)
      BY <1>0, <1>1, <1>2, <1>3, <2>1 DEF Follows, After, ParkAfter, KnownAfter, Carried, View
    <2>4. QED
      BY <2>2, <2>3
  <1>4. ASSUME Accepts(m, a), NEW d \in Desks, Follows(m, a, d), Outcome(m, a) = Callback(m, a, d)
        PROVE  Outcome(m, a) \in Desks /\ Follows(m, a, Outcome(m, a))
    BY <1>4, CallbackFields DEF Follows
  <1>5. CASE Accepts(m, a) /\ a.op = "place"
    <2>1. Outcome(m, a) = Callback(m, a, Place(m, a, Desk(m)))
      BY <1>5 DEF Outcome
    <2>2. QED
      BY <1>4, <1>5, <2>1, PlaceFollows
  <1>6. CASE a.op = "pickup"
    <2>1. Accepts(m, a) /\ Outcome(m, a) = Callback(m, a, Pickup(m, a, Desk(m)))
      BY <1>6 DEF Outcome, Accepts
    <2>2. QED
      BY <1>4, <1>6, <2>1, PickupFollows
  <1>7. CASE a.op = "cancel"
    <2>1. Accepts(m, a) /\ Outcome(m, a) = Callback(m, a, Drop(desk, a.owner, a.known))
      BY <1>1, <1>7 DEF Outcome, Accepts
    <2>2. PICK d \in Desks : d = Drop(desk, a.owner, a.known)
      BY <1>0, DropFields
    <2>3. /\ d.holds = [holds[m] EXCEPT ![a.owner] = None] /\ d.known = known[m]
          /\ a.known => d.park = park[m] \ {holds[m][a.owner]}
          /\ ~a.known => d.park = park[m]
      BY <1>0, <1>1, <2>2, DropFields
    <2>4. Follows(m, a, d)
      BY <1>0, <1>7, <2>3 DEF Follows, Clears, After, ParkAfter, PutDown, KnownAfter, Carried, View
    <2>5. QED
      BY <1>4, <2>1, <2>2, <2>4
  <1>8. QED
    BY <1>0, <1>3, <1>5, <1>6, <1>7


LEMMA ExecutesFields ==
  ASSUME TypeOK, NEW m \in Machine, NEW a \in Action, NEW d \in Desks, Executes(m, a, d)
  PROVE  /\ park' \in [Machine -> SUBSET Peep] /\ park'[m] = d.park
         /\ holds' \in [Machine -> [Machine -> Peep \union {None}]] /\ holds'[m] = d.holds
         /\ known' \in [Machine -> [Machine -> BOOLEAN]] /\ known'[m] = d.known
         /\ tool' \in [Machine -> Peep \union {None}]
         /\ cleared' \subseteq Machine /\ stranded' \subseteq Peep
         /\ \A n \in Machine : n # m => /\ park'[n] = park[n] /\ holds'[n] = holds[n]
                                        /\ known'[n] = known[n]
  <1>1. /\ d.park \in SUBSET Peep /\ d.holds \in [Machine -> Peep \union {None}]
        /\ d.known \in [Machine -> BOOLEAN] /\ d.tool \in Peep \union {None}
    BY DEF Desks
  <1>2. /\ park \in [Machine -> SUBSET Peep] /\ holds \in [Machine -> [Machine -> Peep \union {None}]]
        /\ known \in [Machine -> [Machine -> BOOLEAN]] /\ tool \in [Machine -> Peep \union {None}]
        /\ cleared \subseteq Machine /\ stranded \subseteq Peep
    BY DEF TypeOK
  <1>3. /\ park' = [park EXCEPT ![m] = d.park] /\ holds' = [holds EXCEPT ![m] = d.holds]
        /\ known' = [known EXCEPT ![m] = d.known] /\ tool' = [tool EXCEPT ![m] = d.tool]
        /\ cleared' \subseteq cleared \union {m}
        /\ stranded' \subseteq stranded \union Strands(a, Desk(m))
    BY DEF Executes
  <1>4. Strands(a, Desk(m)) \subseteq Peep
    BY DEF Strands
  <1>5. QED
    BY <1>1, <1>2, <1>3, <1>4

-----------------------------------------------------------------------------
(* Types. *)

LEMMA HeadTail ==
  ASSUME NEW S, NEW s \in Seq(S), s # <<>>
  PROVE  Head(s) \in S /\ Tail(s) \in Seq(S)
  OBVIOUS

LEMMA IssueType ==
  ASSUME TypeOK, NEW m \in Machine, NEW x \in Action, Issue(m, x)
  PROVE  toHost' \in [Machine -> Seq(Action)] /\ issued' \in 0 .. MaxIssued
  <1>1. toHost \in [Machine -> Seq(Action)] /\ issued \in 0 .. MaxIssued /\ MaxIssued \in Nat
    BY PickupAssumption DEF TypeOK
  <1>2. Append(toHost[m], x) \in Seq(Action)
    BY <1>1
  <1>3. QED
    BY <1>1, <1>2 DEF Issue

LEMMA RelayType ==
  ASSUME TypeOK, NEW x \in Packet, Relay(x)
  PROVE  toClient' \in [Client -> Seq(Packet)]
  <1>1. toClient \in [Client -> Seq(Packet)]
    BY DEF TypeOK, Packet
  <1>2. \A c \in Client : Append(toClient[c], x) \in Seq(Packet)
    BY <1>1
  <1>3. QED
    BY <1>1, <1>2 DEF Relay

\* The action that the host takes from m, and what it makes of it.
LEMMA HostTakes ==
  ASSUME TypeOK, NEW m \in Machine, HostExecutes(m)
  PROVE  \E a \in Action :
           /\ Outcome(Host, a) \in Desks /\ Follows(Host, a, Outcome(Host, a))
           /\ Executes(Host, a, Outcome(Host, a))
           /\ IF Accepts(Host, a) THEN Relay(a) ELSE UNCHANGED toClient
           /\ toHost' \in [Machine -> Seq(Action)] /\ toClient' \in [Client -> Seq(Packet)]
           /\ UNCHANGED <<clicked, open, member, dirty, renewed, crossed, issued>>
  <1>0. toHost \in [Machine -> Seq(Action)] /\ Host \in Machine /\ toHost[m] # <<>>
    BY DEF TypeOK, Machine, HostExecutes
  <1>1. toHost[m] \in Seq(Action)
    BY <1>0
  <1>2. PICK a \in Action : a = Head(toHost[m])
    BY <1>0, <1>1, HeadTail
  <1>3. PICK d \in Desks : d = Outcome(Host, a) /\ Follows(Host, a, d)
    BY <1>0, OutcomeFollows
  <1>4. /\ Executes(Host, a, d)
        /\ toHost' = [[toHost EXCEPT ![m] = Tail(@)] EXCEPT ![Host] = @ \o d.out]
        /\ IF Accepts(Host, a) THEN Relay(a) ELSE UNCHANGED toClient
        /\ UNCHANGED <<clicked, open, member, dirty, renewed, crossed, issued>>
    BY <1>2, <1>3 DEF HostExecutes
  <1>5. PICK rest \in [Machine -> Seq(Action)] : rest = [toHost EXCEPT ![m] = Tail(@)]
    BY <1>0, <1>1, HeadTail
  <1>6. rest[Host] \o d.out \in Seq(Action)
    BY <1>0, <1>5 DEF Desks
  <1>7. toHost' \in [Machine -> Seq(Action)]
    BY <1>0, <1>4, <1>5, <1>6
  <1>8. toClient' \in [Client -> Seq(Packet)]
    BY <1>4, RelayType DEF Packet, TypeOK
  <1>9. QED
    BY <1>3, <1>4, <1>7, <1>8

\* The action that client c takes, and what it makes of it.
LEMMA ClientTakes ==
  ASSUME TypeOK, NEW c \in Client, ClientExecutes(c)
  PROVE  \E a \in Action :
           /\ c \in Machine /\ toClient[c] # <<>> /\ a = Head(toClient[c])
           /\ Outcome(c, a) \in Desks /\ Follows(c, a, Outcome(c, a))
           /\ Executes(c, a, Outcome(c, a))
           /\ toClient' = [toClient EXCEPT ![c] = Tail(@)]
           /\ toHost' \in [Machine -> Seq(Action)] /\ toClient' \in [Client -> Seq(Packet)]
           /\ UNCHANGED <<clicked, open, member, dirty, renewed, crossed, issued>>
  <1>0. /\ c \in Machine /\ toClient[c] # <<>> /\ Head(toClient[c]).op # "list"
        /\ toClient \in [Client -> Seq(Packet)] /\ toHost \in [Machine -> Seq(Action)]
    BY DEF Machine, ClientExecutes, TypeOK, Packet
  <1>1. Head(toClient[c]) \in Packet /\ Tail(toClient[c]) \in Seq(Packet)
    BY <1>0, HeadTail
  <1>2. PICK a \in Action : a = Head(toClient[c])
    BY <1>0, <1>1 DEF Packet
  <1>3. PICK d \in Desks : d = Outcome(c, a) /\ Follows(c, a, d)
    BY <1>0, OutcomeFollows
  <1>4. /\ Executes(c, a, d) /\ toHost' = [toHost EXCEPT ![c] = @ \o d.out]
        /\ toClient' = [toClient EXCEPT ![c] = Tail(@)]
        /\ UNCHANGED <<clicked, open, member, dirty, renewed, crossed, issued>>
    BY <1>2, <1>3 DEF ClientExecutes
  <1>5. toHost[c] \o d.out \in Seq(Action)
    BY <1>0 DEF Desks
  <1>6. toHost' \in [Machine -> Seq(Action)] /\ toClient' \in [Client -> Seq(Packet)]
    BY <1>0, <1>1, <1>4, <1>5
  <1>7. QED
    BY <1>0, <1>2, <1>3, <1>4, <1>6

\* What the players do, and what the host refuses, leaves park and lists alone.
UiStep(m) ==
  \/ ClickPark(m) \/ ClickAway(m) \/ HostRefuses(m)
  \/ \E p \in Peep : ClickPickup(m, p) \/ CloseWindow(m, p) \/ OpenWindow(m, p)

Idle ==
  UNCHANGED <<park, holds, known, member, toClient, dirty, renewed, cleared, stranded>>

LEMMA UiType ==
  ASSUME TypeOK, NEW m \in Machine, UiStep(m)
  PROVE  TypeOK' /\ Idle
  <1>0. /\ tool \in [Machine -> Peep \union {None}] /\ clicked \in [Machine -> [Peep -> BOOLEAN]]
        /\ open \in [Machine -> SUBSET Peep] /\ toHost \in [Machine -> Seq(Action)]
        /\ crossed \in BOOLEAN /\ issued \in 0 .. MaxIssued
        /\ None \notin Peep /\ MaxIssued \in Nat
    BY PickupAssumption DEF TypeOK
  <1>1. ASSUME NEW op \in {"pickup", "place", "cancel"}, NEW p \in Peep, NEW b \in BOOLEAN
        PROVE  UiAction(m, op, p, b) \in Action
    BY DEF UiAction, Action
  <1>2. ASSUME NEW p \in Peep PROVE Cancel(m, p) \in Action
    BY <1>0, <1>1 DEF Cancel
  <1> DEFINE Typed == /\ toHost' \in [Machine -> Seq(Action)] /\ issued' \in 0 .. MaxIssued
                      /\ tool' \in [Machine -> Peep \union {None}]
                      /\ clicked' \in [Machine -> [Peep -> BOOLEAN]]
                      /\ open' \in [Machine -> SUBSET Peep] /\ crossed' \in BOOLEAN
  <1>3. CASE ClickPark(m)
    <2>1. tool[m] \in Peep
      BY <1>0, <1>3 DEF ClickPark
    <2>2. Typed
      BY <1>0, <1>1, <1>3, <2>1, IssueType DEF ClickPark, history
    <2>3. QED
      BY <1>3, <2>2 DEF ClickPark, history, Idle, TypeOK
  <1>4. CASE ClickAway(m)
    <2>1. tool[m] \in Peep
      BY <1>0, <1>4 DEF ClickAway
    <2>2. Typed
      BY <1>0, <1>2, <1>4, <2>1, IssueType DEF ClickAway, history
    <2>3. QED
      BY <1>4, <2>2 DEF ClickAway, history, Idle, TypeOK
  <1>5. CASE HostRefuses(m)
    <2>1. Tail(toHost[m]) \in Seq(Action)
      BY <1>0, <1>5, HeadTail DEF HostRefuses
    <2>2. Typed
      BY <1>0, <1>5, <2>1 DEF HostRefuses, history
    <2>3. QED
      BY <1>5, <2>2 DEF HostRefuses, history, Idle, TypeOK
  <1>6. ASSUME NEW p \in Peep, ClickPickup(m, p) PROVE TypeOK' /\ Idle
    <2>1. (p \notin park[m]) \in BOOLEAN /\ crossed' \in BOOLEAN
      BY <1>6 DEF ClickPickup
    <2>2. Typed
      BY <1>0, <1>1, <1>6, <2>1, IssueType DEF ClickPickup
    <2>3. QED
      BY <1>6, <2>2 DEF ClickPickup, Idle, TypeOK
  <1>7. ASSUME NEW p \in Peep, CloseWindow(m, p) PROVE TypeOK' /\ Idle
    <2>1. crossed' \in BOOLEAN
      BY <1>7 DEF CloseWindow
    <2>2. open' \in [Machine -> SUBSET Peep]
      BY <1>0, <1>7 DEF CloseWindow
    <2>3. toHost' \in [Machine -> Seq(Action)] /\ issued' \in 0 .. MaxIssued
      BY <1>0, <1>2, <1>7, IssueType DEF CloseWindow
    <2>4. tool' \in [Machine -> Peep \union {None}] /\ clicked' = clicked
      BY <1>0, <1>7 DEF CloseWindow
    <2>5. QED
      BY <1>7, <2>1, <2>2, <2>3, <2>4 DEF CloseWindow, Idle, TypeOK
  <1>8. ASSUME NEW p \in Peep, OpenWindow(m, p) PROVE TypeOK' /\ Idle
    <2>1. Typed
      BY <1>0, <1>8 DEF OpenWindow, history
    <2>2. QED
      BY <1>8, <2>1 DEF OpenWindow, history, Idle, TypeOK
  <1>9. QED
    BY <1>3, <1>4, <1>5, <1>6, <1>7, <1>8 DEF UiStep

LEMMA TypeInit == Init => TypeOK
  <1> SUFFICES ASSUME Init PROVE TypeOK
    OBVIOUS
  <1>1. 0 \in 0 .. MaxIssued
    BY PickupAssumption
  <1>2. <<>> \in Seq(Action) /\ <<>> \in Seq(Action \union [op : {"list"}])
    OBVIOUS
  <1>3. QED
    BY <1>1, <1>2 DEF Init, TypeOK

LEMMA TypeStep ==
  ASSUME TypeOK, [Next]_vars
  PROVE  TypeOK'
  <1>1. ASSUME NEW m \in Machine, UiStep(m) PROVE TypeOK'
    BY <1>1, UiType
  <1>2. ASSUME NEW m \in Machine, HostExecutes(m) PROVE TypeOK'
    <2>1. Host \in Machine
      BY DEF Machine
    <2>2. QED
      BY <1>2, <2>1, HostTakes, ExecutesFields DEF TypeOK, Packet
  <1>3. ASSUME NEW c \in Client, ClientExecutes(c) PROVE TypeOK'
    BY <1>3, ClientTakes, ExecutesFields DEF TypeOK, Packet
  <1>4. ASSUME NEW c \in Client, ClientInstallsList(c) PROVE TypeOK'
    <2>1. toClient \in [Client -> Seq(Packet)] /\ toClient[c] # <<>>
      BY <1>4 DEF TypeOK, Packet, ClientInstallsList
    <2>2. Tail(toClient[c]) \in Seq(Packet)
      BY <2>1, HeadTail
    <2>3. toClient' \in [Client -> Seq(Packet)]
      BY <1>4, <2>1, <2>2 DEF ClientInstallsList
    <2>4. /\ holds' \in [Machine -> [Machine -> Peep \union {None}]]
          /\ known' \in [Machine -> [Machine -> BOOLEAN]]
      BY <1>4 DEF ClientInstallsList, TypeOK
    <2>5. QED
      BY <1>4, <2>3, <2>4 DEF ClientInstallsList, history, TypeOK, Packet
  <1>5. ASSUME NEW c \in Client, ClientLeaves(c) PROVE TypeOK'
    <2>0. Host \in Machine /\ c \in Machine /\ c # Host
      BY PickupAssumption DEF Machine
    <2>1. /\ toHost \in [Machine -> Seq(Action)] /\ known[Host][c] \in BOOLEAN
          /\ holds[Host][c] \in Peep \union {None}
      BY <2>0 DEF TypeOK
    <2>2. [toHost EXCEPT ![c] = <<>>] \in [Machine -> Seq(Action)]
      <3>1. <<>> \in Seq(Action)
        OBVIOUS
      <3>2. QED
        BY <2>1, <3>1
    <2>3. ASSUME holds[Host][c] # None
          PROVE  Append(toHost[Host], UiAction(Host, "cancel", holds[Host][c], known[Host][c]))
                   \in Seq(Action)
      <3>1. PICK x \in Action : x = UiAction(Host, "cancel", holds[Host][c], known[Host][c])
        BY <2>0, <2>1, <2>3 DEF UiAction, Action
      <3>2. toHost[Host] \in Seq(Action)
        BY <2>0, <2>1
      <3>3. Append(toHost[Host], x) \in Seq(Action)
        BY <3>2
      <3>4. QED
        BY <3>1, <3>3
    <2>4. toHost' \in [Machine -> Seq(Action)]
      BY <1>5, <2>0, <2>1, <2>2, <2>3 DEF ClientLeaves
    <2>5. /\ holds' \in [Machine -> [Machine -> Peep \union {None}]]
          /\ known' \in [Machine -> [Machine -> BOOLEAN]]
          /\ toClient' \in [Client -> Seq(Action \union [op : {"list"}])]
          /\ member' \subseteq Machine
      BY <1>5, <2>0 DEF ClientLeaves, TypeOK
    <2>6. QED
      BY <1>5, <2>4, <2>5 DEF ClientLeaves, TypeOK
  <1>6. CASE Join
    BY <1>6, PickupAssumption DEF Join, TypeOK
  <1>7. CASE HostSendsList
    <2>1. [op |-> "list"] \in Packet
      BY DEF Packet
    <2>2. toClient' \in [Client -> Seq(Packet)] /\ dirty' = FALSE
      BY <1>7, <2>1, RelayType DEF HostSendsList
    <2>3. QED
      BY <1>7, <2>2 DEF HostSendsList, history, TypeOK, Packet
  <1>8. CASE UNCHANGED vars
    BY <1>8 DEF vars, history, TypeOK
  <1>9. QED
    BY <1>1, <1>2, <1>3, <1>4, <1>5, <1>6, <1>7, <1>8 DEF Next, UiStep

\* TypeOK: every machine's view of who carries what, and every queue, has its type.
THEOREM TypeCorrect == Spec => []TypeOK
  BY TypeInit, TypeStep, PTL DEF Spec

-----------------------------------------------------------------------------
(* Nobody is stranded at the host but by a cancel that knows no place. *)

LEMMA AirHost ==
  ASSUME TypeOK, NoPeepLeftInTheAir, NEW m \in Machine, HostExecutes(m)
  PROVE  NoPeepLeftInTheAir'
  <1>0. Host \in Machine /\ None \notin Peep
    BY PickupAssumption DEF Machine
  <1>1. PICK a \in Action :
          /\ Outcome(Host, a) \in Desks /\ Follows(Host, a, Outcome(Host, a))
          /\ Executes(Host, a, Outcome(Host, a)) /\ member' = member
    BY HostTakes
  <1>2. PICK d \in Desks : d = Outcome(Host, a)
    BY <1>1
  <1> DEFINE o == a.owner
             carries == holds[Host]
             x == After(a, View(Host))
  <1>3. /\ a.op \in {"pickup", "place", "cancel"} /\ o \in Machine /\ a.peep \in Peep
        /\ a.known \in BOOLEAN
    BY DEF Action
  <1>4. /\ carries \in [Machine -> Peep \union {None}] /\ park[Host] \subseteq Peep
        /\ known[Host] \in [Machine -> BOOLEAN]
    BY <1>0 DEF TypeOK
  <1>5. /\ park'[Host] = x.park
        /\ holds'[Host] = IF Accepts(Host, a) /\ Clears(Host, a, carries)
                            THEN [x.holds EXCEPT ![Host] = None] ELSE x.holds
    BY <1>0, <1>1, <1>2, ExecutesFields DEF Follows
  <1>6. /\ x.holds = [carries EXCEPT ![o] = Carried(a, carries[o])]
        /\ x.park = ParkAfter(a, View(Host))
        /\ View(Host).park = park[Host] /\ View(Host).holds = carries /\ View(Host).known = known[Host]
    BY DEF After, View
  <1>7. stranded \subseteq stranded' /\ (Accepts(Host, a) => Strands(a, Desk(Host)) \subseteq stranded')
    BY <1>1 DEF Executes
  <1> SUFFICES ASSUME member = Machine, NEW p \in Peep, p \in x.park, p \notin stranded'
               PROVE  \E n \in Machine : holds'[Host][n] = p
    BY <1>0, <1>1, <1>4, <1>5, ExecutesFields DEF NoPeepLeftInTheAir
  <1>8. p \in park[Host] => \E n \in Machine : carries[n] = p
    BY <1>7 DEF NoPeepLeftInTheAir
  <1>9. CASE a.op = "place"
    <2>1. x.holds = carries
      BY <1>3, <1>4, <1>6, <1>9 DEF Carried
    <2>2. p \in park[Host] /\ (carries[o] = a.peep => p # a.peep)
      BY <1>6, <1>9 DEF ParkAfter
    <2>3. PICK n \in Machine : carries[n] = p
      BY <1>8, <2>2
    <2>4. ASSUME Accepts(Host, a), Clears(Host, a, carries) PROVE n # Host
      BY <1>9, <2>2, <2>3, <2>4 DEF Accepts, Clears
    <2>5. holds'[Host][n] = p
      BY <1>0, <1>4, <1>5, <2>1, <2>3, <2>4
    <2>6. QED
      BY <2>5
  <1>10. CASE a.op # "place"
    <2>1. Accepts(Host, a) /\ ~Clears(Host, a, carries)
      BY <1>10 DEF Accepts, Clears
    <2>2. holds'[Host] = [carries EXCEPT ![o] = Carried(a, carries[o])]
      BY <1>5, <1>6, <2>1
    <2>3. CASE p = Carried(a, carries[o])
      BY <1>3, <1>4, <2>2, <2>3
    <2>4. CASE p # Carried(a, carries[o])
      <3>1. p \in PutDown(a, View(Host))
        BY <1>3, <1>6, <1>10, <2>4 DEF ParkAfter, Carried
      <3>2. PICK n \in Machine : carries[n] = p
        BY <1>6, <1>8, <3>1 DEF PutDown
      <3>3. n # o
        <4>1. SUFFICES ASSUME n = o PROVE FALSE
          OBVIOUS
        <4>2. carries[o] = p
          BY <3>2, <4>1
        <4>3. CASE a.op = "cancel"
          <5>1. ~a.known
            BY <1>3, <1>6, <3>1, <4>2, <4>3 DEF PutDown
          <5>2. p \in Strands(a, Desk(Host))
            BY <4>2, <4>3, <5>1 DEF Strands, Desk
          <5>3. QED
            BY <1>7, <2>1, <5>2
        <4>4. CASE a.op = "pickup"
          <5>1. ~known[Host][o]
            BY <1>3, <1>6, <3>1, <4>2, <4>4 DEF PutDown
          <5>2. p \in Strands(a, Desk(Host))
            BY <4>2, <4>4, <5>1 DEF Strands, Desk
          <5>3. QED
            BY <1>7, <2>1, <5>2
        <4>5. QED
          BY <1>3, <1>10, <4>3, <4>4
      <3>4. QED
        BY <1>4, <2>2, <3>2, <3>3
    <2>5. QED
      BY <2>3, <2>4
  <1>11. QED
    BY <1>9, <1>10

LEMMA AirStep ==
  ASSUME TypeOK, NoPeepLeftInTheAir, [Next]_vars
  PROVE  NoPeepLeftInTheAir'
  <1>0. Host \in Machine /\ \A c \in Client : c # Host /\ c \in Machine
    BY PickupAssumption DEF Machine
  <1>1. ASSUME NEW m \in Machine, UiStep(m) PROVE NoPeepLeftInTheAir'
    BY <1>1, UiType DEF Idle, NoPeepLeftInTheAir
  <1>2. ASSUME NEW m \in Machine, HostExecutes(m) PROVE NoPeepLeftInTheAir'
    BY <1>2, AirHost
  <1>3. ASSUME NEW c \in Client, ClientExecutes(c) PROVE NoPeepLeftInTheAir'
    <2>1. PICK a \in Action : /\ Outcome(c, a) \in Desks /\ Executes(c, a, Outcome(c, a))
                              /\ member' = member
      BY <1>3, ClientTakes
    <2>2. park'[Host] = park[Host] /\ holds'[Host] = holds[Host] /\ stranded' = stranded
      BY <1>0, <2>1, ExecutesFields DEF Executes
    <2>3. QED
      BY <2>1, <2>2 DEF NoPeepLeftInTheAir
  <1>4. ASSUME NEW c \in Client, ClientInstallsList(c) PROVE NoPeepLeftInTheAir'
    <2>1. holds'[Host] = holds[Host]
      BY <1>0, <1>4 DEF ClientInstallsList, TypeOK
    <2>2. QED
      BY <1>4, <2>1 DEF ClientInstallsList, history, NoPeepLeftInTheAir
  <1>5. ASSUME NEW c \in Client, ClientLeaves(c) PROVE NoPeepLeftInTheAir'
    BY <1>0, <1>5 DEF ClientLeaves, NoPeepLeftInTheAir
  <1>6. CASE Join
    BY <1>6 DEF Join, NoPeepLeftInTheAir
  <1>7. CASE HostSendsList
    BY <1>7 DEF HostSendsList, history, NoPeepLeftInTheAir
  <1>8. CASE UNCHANGED vars
    BY <1>8 DEF vars, history, NoPeepLeftInTheAir
  <1>9. QED
    BY <1>1, <1>2, <1>3, <1>4, <1>5, <1>6, <1>7, <1>8 DEF Next, UiStep

\* NoPeepLeftInTheAir: until somebody leaves, a peep that the host has in the air and
\* that no player carries was put back by a cancel or a pickup without a place.
THEOREM NobodyLeftInTheAir == Spec => []NoPeepLeftInTheAir
  <1>1. Init => NoPeepLeftInTheAir
    BY DEF Init, NoPeepLeftInTheAir, Machine
  <1>2. TypeOK /\ NoPeepLeftInTheAir /\ [Next]_vars => NoPeepLeftInTheAir'
    BY AirStep
  <1>3. QED
    BY <1>1, <1>2, TypeCorrect, PTL DEF Spec

-----------------------------------------------------------------------------
(* Running the actions that are on the way. *)

\* The actions of s take x to y, each as step says.
Runs(S, step, s, x, y) ==
  \E f \in [1 .. Len(s) + 1 -> S] :
    /\ f[1] = x /\ f[Len(s) + 1] = y
    /\ \A i \in 1 .. Len(s) : f[i + 1] = step[s[i]][f[i]]

LEMMA RunsEmpty ==
  ASSUME NEW S, NEW step, NEW x \in S, NEW y
  PROVE  Runs(S, step, <<>>, x, y) <=> x = y
  <1>1. ASSUME x = y PROVE Runs(S, step, <<>>, x, y)
    <2>1. PICK f \in [1 .. 0 + 1 -> S] : f = [i \in 1 .. 0 + 1 |-> x]
      OBVIOUS
    <2>2. f[1] = x /\ f[0 + 1] = y /\ Len(<<>>) = 0
      BY <1>1, <2>1
    <2>3. \A i \in 1 .. 0 : f[i + 1] = step[<<>>[i]][f[i]]
      OBVIOUS
    <2>4. QED
      BY <2>2, <2>3 DEF Runs
  <1>2. ASSUME Runs(S, step, <<>>, x, y) PROVE x = y
    BY <1>2 DEF Runs
  <1>3. QED
    BY <1>1, <1>2

LEMMA RunsAppend ==
  ASSUME NEW S, NEW step, NEW s \in Seq(Action), NEW a \in Action, NEW x, NEW y,
         Runs(S, step, s, x, y), step[a][y] \in S
  PROVE  Runs(S, step, Append(s, a), x, step[a][y])
  <1> DEFINE n == Len(s)
             t == Append(s, a)
             z == step[a][y]
  <1>1. n \in Nat /\ Len(t) = n + 1 /\ t[n + 1] = a /\ \A i \in 1 .. n : t[i] = s[i]
    OBVIOUS
  <1>2. PICK f \in [1 .. n + 1 -> S] :
          f[1] = x /\ f[n + 1] = y /\ \A i \in 1 .. n : f[i + 1] = step[s[i]][f[i]]
    BY DEF Runs
  <1> HIDE DEF t, n, z
  <1>3. PICK g \in [1 .. (n + 1) + 1 -> S] : g = [i \in 1 .. (n + 1) + 1 |-> IF i = n + 2 THEN z ELSE f[i]]
    <2>1. z \in S
      BY DEF z
    <2>2. \A i \in 1 .. (n + 1) + 1 : i # n + 2 => f[i] \in S
      BY <1>1, <1>2
    <2>3. QED
      BY <2>1, <2>2
  <1>4. g[(n + 1) + 1] = z /\ \A i \in 1 .. n + 1 : g[i] = f[i]
    BY <1>1, <1>3
  <1>5. ASSUME NEW i \in 1 .. n + 1 PROVE g[i + 1] = step[t[i]][g[i]]
    <2>1. CASE i = n + 1
      BY <1>1, <1>2, <1>4, <2>1 DEF z
    <2>2. CASE i \in 1 .. n
      BY <1>1, <1>2, <1>4, <2>2
    <2>3. QED
      BY <1>1, <2>1, <2>2
  <1>6. g[1] = x
    BY <1>1, <1>2, <1>4
  <1>7. Runs(S, step, t, x, z)
    BY <1>1, <1>4, <1>5, <1>6 DEF Runs
  <1>8. QED
    BY <1>7 DEF t, z

LEMMA RunsTail ==
  ASSUME NEW S, NEW step, NEW s \in Seq(Action), s # <<>>, NEW x, NEW y, Runs(S, step, s, x, y)
  PROVE  Runs(S, step, Tail(s), step[Head(s)][x], y)
  <1> DEFINE n == Len(s) - 1
             t == Tail(s)
  <1>1. /\ n \in Nat /\ Len(s) = n + 1 /\ Len(t) = n /\ Head(s) = s[1]
        /\ \A i \in 1 .. n : t[i] = s[i + 1]
    OBVIOUS
  <1>2. PICK f \in [1 .. (n + 1) + 1 -> S] :
          /\ f[1] = x /\ f[(n + 1) + 1] = y
          /\ \A i \in 1 .. n + 1 : f[i + 1] = step[s[i]][f[i]]
    BY <1>1 DEF Runs
  <1> HIDE DEF t, n
  <1>3. PICK g \in [1 .. n + 1 -> S] : g = [i \in 1 .. n + 1 |-> f[i + 1]]
    <2>1. \A i \in 1 .. n + 1 : f[i + 1] \in S
      BY <1>1, <1>2
    <2>2. QED
      BY <2>1
  <1>4. \A i \in 1 .. n + 1 : g[i] = f[i + 1]
    BY <1>3
  <1>5. g[1] = step[Head(s)][x] /\ g[n + 1] = y
    BY <1>1, <1>2, <1>4
  <1>6. ASSUME NEW i \in 1 .. n PROVE g[i + 1] = step[t[i]][g[i]]
    <2>1. i + 1 \in 1 .. n + 1 /\ i \in 1 .. n + 1
      BY <1>1
    <2>2. f[(i + 1) + 1] = step[s[i + 1]][f[i + 1]]
      BY <1>2, <2>1
    <2>3. QED
      BY <1>1, <1>4, <2>1, <2>2
  <1>7. QED
    BY <1>1, <1>5, <1>6 DEF Runs, t

-----------------------------------------------------------------------------
(* What is on the way to a client takes what it has to what the host has. *)

Entry == Peep \union {None}

\* What an action does to player n's entry, and to park and list together.
EntryStep(n) == [a \in Action |-> [h \in Entry |-> IF a.owner = n THEN Carried(a, h) ELSE h]]
StateStep == [a \in Action |-> [x \in State |-> After(a, x)]]

\* Until the list of players changes, clients are sent actions only.
ActionsOnly ==
  ~renewed => /\ member = Machine /\ ~dirty
              /\ \A c \in Client : toClient[c] \in Seq(Action)

EntriesRun ==
  ~renewed =>
    \A c \in Client, n \in Machine :
      \/ n \in cleared \intersect {c, Host}
      \/ Runs(Entry, EntryStep(n), toClient[c], holds[c][n], holds[Host][n])

ViewsRun ==
  ~renewed /\ cleared = {} =>
    \A c \in Client : Runs(State, StateStep, toClient[c], View(c), View(Host))

FollowInv == ActionsOnly /\ EntriesRun /\ ViewsRun

LEMMA EntryStepType ==
  ASSUME NEW n \in Machine, NEW a \in Action, NEW h \in Entry
  PROVE  /\ EntryStep(n)[a][h] = IF a.owner = n THEN Carried(a, h) ELSE h
         /\ EntryStep(n)[a][h] \in Entry
  BY DEF EntryStep, Entry, Carried, Action

LEMMA ViewType ==
  ASSUME TypeOK, NEW m \in Machine
  PROVE  View(m) \in State /\ \A n \in Machine : holds[m][n] \in Entry
  BY DEF TypeOK, View, State, Entry

\* What an execution on m does to its entries and to its view.
LEMMA ExecutedView ==
  ASSUME TypeOK, NEW m \in Machine, NEW a \in Action,
         Outcome(m, a) \in Desks, Follows(m, a, Outcome(m, a)), Executes(m, a, Outcome(m, a))
  PROVE  /\ cleared \subseteq cleared' /\ cleared' \subseteq cleared \union {m}
         /\ \A n \in Machine :
              (n = m => m \notin cleared') => holds'[m][n] = EntryStep(n)[a][holds[m][n]]
         /\ m \notin cleared' => View(m)' = StateStep[a][View(m)]
         /\ \A n \in Machine : n # m => View(n)' = View(n) /\ holds'[n] = holds[n]
  <1> DEFINE x == After(a, View(m))
  <1>1. PICK d \in Desks : d = Outcome(m, a)
    OBVIOUS
  <1>2. /\ park'[m] = x.park /\ known'[m] = x.known
        /\ holds'[m] = IF Accepts(m, a) /\ Clears(m, a, holds[m])
                         THEN [x.holds EXCEPT ![m] = None] ELSE x.holds
    BY <1>1, ExecutesFields DEF Follows
  <1>3. cleared' = IF Accepts(m, a) /\ Clears(m, a, holds[m]) THEN cleared \union {m} ELSE cleared
    BY DEF Executes
  <1>4. View(m) \in State /\ x \in State /\ a.owner \in Machine
    BY ViewType, AfterType DEF Action
  <1>5. x.holds = [holds[m] EXCEPT ![a.owner] = Carried(a, holds[m][a.owner])]
    BY DEF After, View
  <1>6. ASSUME NEW n \in Machine, n = m => m \notin cleared'
        PROVE  holds'[m][n] = EntryStep(n)[a][holds[m][n]]
    <2>1. holds'[m][n] = x.holds[n]
      BY <1>2, <1>3, <1>4, <1>6 DEF State
    <2>2. holds[m] \in [Machine -> Entry]
      BY DEF TypeOK, Entry
    <2>3. x.holds[n] = IF a.owner = n THEN Carried(a, holds[m][n]) ELSE holds[m][n]
      BY <1>4, <1>5, <2>2
    <2>4. QED
      BY <2>1, <2>2, <2>3, EntryStepType
  <1>7. ASSUME m \notin cleared' PROVE View(m)' = StateStep[a][View(m)]
    <2>1. View(m)' = [park |-> x.park, holds |-> x.holds, known |-> x.known]
      BY <1>2, <1>3, <1>7 DEF View
    <2>2. x = [park |-> x.park, holds |-> x.holds, known |-> x.known]
      BY <1>4 DEF State
    <2>3. StateStep[a][View(m)] = x
      BY <1>4 DEF StateStep
    <2>4. QED
      BY <2>1, <2>2, <2>3
  <1>8. \A n \in Machine : n # m => View(n)' = View(n) /\ holds'[n] = holds[n]
    BY <1>1, ExecutesFields DEF View
  <1>9. QED
    BY <1>3, <1>6, <1>7, <1>8

LEMMA FollowInit == Init => FollowInv
  <1> SUFFICES ASSUME Init PROVE FollowInv
    OBVIOUS
  <1>0. TypeOK /\ Host \in Machine /\ \A c \in Client : c \in Machine
    BY TypeInit DEF Machine
  <1>1. \A c \in Client : toClient[c] = <<>> /\ <<>> \in Seq(Action)
    BY DEF Init
  <1>2. \A c \in Client, n \in Machine : holds[c][n] = holds[Host][n] /\ holds[c][n] \in Entry
    BY <1>0 DEF Init, Entry
  <1>3. \A c \in Client : View(c) = View(Host) /\ View(c) \in State
    BY <1>0, ViewType DEF Init, View
  <1>4. EntriesRun
    BY <1>1, <1>2, RunsEmpty DEF EntriesRun
  <1>5. ViewsRun
    BY <1>1, <1>3, RunsEmpty DEF ViewsRun
  <1>6. QED
    BY <1>1, <1>4, <1>5 DEF FollowInv, ActionsOnly, Init

\* A step that changes none of this keeps it.
LEMMA FollowIdle ==
  ASSUME FollowInv,
         UNCHANGED <<park, holds, known, member, toClient, dirty, renewed, cleared>>
  PROVE  FollowInv'
  <1>1. \A m \in Machine : View(m)' = View(m)
    BY DEF View
  <1>2. Host \in Machine /\ \A c \in Client : c \in Machine
    BY DEF Machine
  <1>3. ActionsOnly' /\ EntriesRun'
    BY DEF FollowInv, ActionsOnly, EntriesRun
  <1>4. ViewsRun'
    BY <1>1, <1>2 DEF FollowInv, ViewsRun
  <1>5. QED
    BY <1>3, <1>4 DEF FollowInv

LEMMA FollowHost ==
  ASSUME TypeOK, FollowInv, NEW m \in Machine, HostExecutes(m)
  PROVE  FollowInv'
  <1>0. Host \in Machine /\ \A c \in Client : c \in Machine /\ c # Host
    BY PickupAssumption DEF Machine
  <1>1. PICK a \in Action :
          /\ Outcome(Host, a) \in Desks /\ Follows(Host, a, Outcome(Host, a))
          /\ Executes(Host, a, Outcome(Host, a))
          /\ IF Accepts(Host, a) THEN Relay(a) ELSE UNCHANGED toClient
          /\ UNCHANGED <<member, dirty, renewed>>
    BY HostTakes
  <1>2. CASE ~Accepts(Host, a)
    <2>1. Outcome(Host, a) = Desk(Host) /\ cleared' = cleared
      BY <1>1, <1>2 DEF Outcome, Executes
    <2>2. park' = park /\ holds' = holds /\ known' = known
      BY <1>0, <1>1, <2>1 DEF Executes, Desk, TypeOK
    <2>3. QED
      BY <1>1, <1>2, <2>1, <2>2, FollowIdle
  <1>3. CASE Accepts(Host, a)
    <2> SUFFICES ASSUME ~renewed PROVE FollowInv'
      BY <1>1 DEF FollowInv, ActionsOnly, EntriesRun, ViewsRun
    <2>1. /\ \A c \in Client : toClient[c] \in Seq(Action) /\ toClient'[c] = Append(toClient[c], a)
          /\ member = Machine /\ ~dirty
      BY <1>0, <1>1, <1>3 DEF FollowInv, ActionsOnly, Relay
    <2>2. ActionsOnly'
      BY <1>1, <2>1 DEF ActionsOnly
    <2>3. /\ cleared \subseteq cleared'
          /\ \A n \in Machine : (n = Host => Host \notin cleared')
                                  => holds'[Host][n] = EntryStep(n)[a][holds[Host][n]]
          /\ Host \notin cleared' => View(Host)' = StateStep[a][View(Host)]
          /\ \A c \in Client : View(c)' = View(c) /\ holds'[c] = holds[c]
      BY <1>0, <1>1, ExecutedView
    <2>4. EntriesRun'
      <3> SUFFICES ASSUME NEW c \in Client, NEW n \in Machine, n \notin cleared' \intersect {c, Host}
                   PROVE  Runs(Entry, EntryStep(n), toClient'[c], holds'[c][n], holds'[Host][n])
        BY DEF EntriesRun
      <3>1. Runs(Entry, EntryStep(n), toClient[c], holds[c][n], holds[Host][n])
        BY <2>3 DEF FollowInv, EntriesRun
      <3>2. holds'[c][n] = holds[c][n] /\ holds'[Host][n] = EntryStep(n)[a][holds[Host][n]]
        BY <2>3
      <3>3. EntryStep(n)[a][holds[Host][n]] \in Entry
        BY <1>0, ViewType, EntryStepType
      <3>4. toClient[c] \in Seq(Action) /\ toClient'[c] = Append(toClient[c], a)
        BY <2>1
      <3>5. Runs(Entry, EntryStep(n), Append(toClient[c], a), holds[c][n],
                 EntryStep(n)[a][holds[Host][n]])
        BY <3>1, <3>3, <3>4, RunsAppend
      <3>6. QED
        BY <3>2, <3>4, <3>5
    <2>5. ViewsRun'
      <3> SUFFICES ASSUME cleared' = {}, NEW c \in Client
                   PROVE  Runs(State, StateStep, toClient'[c], View(c)', View(Host)')
        BY DEF ViewsRun
      <3>1. Runs(State, StateStep, toClient[c], View(c), View(Host))
        BY <2>3 DEF FollowInv, ViewsRun
      <3>2. View(c)' = View(c) /\ View(Host)' = StateStep[a][View(Host)]
        BY <2>3
      <3>3. StateStep[a][View(Host)] \in State
        BY <1>0, ViewType, AfterType DEF StateStep
      <3>4. QED
        BY <2>1, <3>1, <3>2, <3>3, RunsAppend
    <2>6. QED
      BY <2>2, <2>4, <2>5 DEF FollowInv
  <1>4. QED
    BY <1>2, <1>3

LEMMA FollowClient ==
  ASSUME TypeOK, FollowInv, NEW b \in Client, ClientExecutes(b)
  PROVE  FollowInv'
  <1>0. Host \in Machine /\ \A c \in Client : c \in Machine /\ c # Host
    BY PickupAssumption DEF Machine
  <1>1. PICK a \in Action :
          /\ toClient[b] # <<>> /\ a = Head(toClient[b])
          /\ Outcome(b, a) \in Desks /\ Follows(b, a, Outcome(b, a))
          /\ Executes(b, a, Outcome(b, a))
          /\ toClient' = [toClient EXCEPT ![b] = Tail(@)]
          /\ UNCHANGED <<member, dirty, renewed>>
    BY ClientTakes
  <1> SUFFICES ASSUME ~renewed PROVE FollowInv'
    BY <1>1 DEF FollowInv, ActionsOnly, EntriesRun, ViewsRun
  <1>2. /\ \A c \in Client : toClient[c] \in Seq(Action)
        /\ toClient \in [Client -> Seq(Packet)] /\ member = Machine /\ ~dirty
    BY DEF FollowInv, ActionsOnly, TypeOK, Packet
  <1>3. toClient'[b] = Tail(toClient[b]) /\ \A c \in Client : c # b => toClient'[c] = toClient[c]
    BY <1>1, <1>2
  <1>4. ActionsOnly'
    <2>1. Tail(toClient[b]) \in Seq(Action)
      BY <1>1, <1>2, HeadTail
    <2>2. \A c \in Client : toClient'[c] \in Seq(Action)
      BY <1>2, <1>3, <2>1
    <2>3. QED
      BY <1>1, <1>2, <2>2 DEF ActionsOnly
  <1>5. /\ cleared \subseteq cleared'
        /\ \A n \in Machine : (n = b => b \notin cleared')
                                => holds'[b][n] = EntryStep(n)[a][holds[b][n]]
        /\ b \notin cleared' => View(b)' = StateStep[a][View(b)]
        /\ \A n \in Machine : n # b => View(n)' = View(n) /\ holds'[n] = holds[n]
    BY <1>0, <1>1, ExecutedView
  <1>6. EntriesRun'
    <2> SUFFICES ASSUME NEW c \in Client, NEW n \in Machine, n \notin cleared' \intersect {c, Host}
                 PROVE  Runs(Entry, EntryStep(n), toClient'[c], holds'[c][n], holds'[Host][n])
      BY DEF EntriesRun
    <2>1. Runs(Entry, EntryStep(n), toClient[c], holds[c][n], holds[Host][n])
      BY <1>5 DEF FollowInv, EntriesRun
    <2>2. holds'[Host] = holds[Host]
      BY <1>0, <1>5
    <2>3. CASE c = b
      <3>1. holds'[c][n] = EntryStep(n)[a][holds[c][n]]
        BY <1>5, <2>3
      <3>2. QED
        BY <1>1, <1>2, <1>3, <2>1, <2>2, <2>3, <3>1, RunsTail
    <2>4. CASE c # b
      BY <1>0, <1>3, <1>5, <2>1, <2>2, <2>4
    <2>5. QED
      BY <2>3, <2>4
  <1>7. ViewsRun'
    <2> SUFFICES ASSUME cleared' = {}, NEW c \in Client
                 PROVE  Runs(State, StateStep, toClient'[c], View(c)', View(Host)')
      BY DEF ViewsRun
    <2>1. Runs(State, StateStep, toClient[c], View(c), View(Host))
      BY <1>5 DEF FollowInv, ViewsRun
    <2>2. View(Host)' = View(Host)
      BY <1>0, <1>5
    <2>3. CASE c = b
      <3>1. View(c)' = StateStep[a][View(c)]
        BY <1>5, <2>3
      <3>2. QED
        BY <1>1, <1>2, <1>3, <2>1, <2>2, <2>3, <3>1, RunsTail
    <2>4. CASE c # b
      BY <1>0, <1>3, <1>5, <2>1, <2>2, <2>4
    <2>5. QED
      BY <2>3, <2>4
  <1>8. QED
    BY <1>4, <1>6, <1>7 DEF FollowInv

LEMMA FollowStep ==
  ASSUME TypeOK, FollowInv, [Next]_vars
  PROVE  FollowInv'
  <1>1. ASSUME NEW m \in Machine, UiStep(m) PROVE FollowInv'
    BY <1>1, UiType, FollowIdle DEF Idle
  <1>2. ASSUME NEW m \in Machine, HostExecutes(m) PROVE FollowInv'
    BY <1>2, FollowHost
  <1>3. ASSUME NEW c \in Client, ClientExecutes(c) PROVE FollowInv'
    BY <1>3, FollowClient
  <1>4. ASSUME renewed' PROVE FollowInv'
    BY <1>4 DEF FollowInv, ActionsOnly, EntriesRun, ViewsRun
  <1>5. ASSUME NEW c \in Client, ClientInstallsList(c) PROVE renewed'
    <2>1. SUFFICES ASSUME ~renewed PROVE FALSE
      BY <1>5 DEF ClientInstallsList, history
    <2>2. toClient[c] \in Seq(Action) /\ toClient[c] # <<>> /\ Head(toClient[c]).op = "list"
      BY <1>5, <2>1 DEF FollowInv, ActionsOnly, ClientInstallsList
    <2>3. Head(toClient[c]) \in Action
      BY <2>2, HeadTail
    <2>4. QED
      BY <2>2, <2>3 DEF Action
  <1>6. ASSUME NEW c \in Client, ClientLeaves(c) PROVE renewed'
    BY <1>6 DEF ClientLeaves
  <1>7. CASE Join
    BY <1>4, <1>7 DEF Join
  <1>8. CASE HostSendsList
    <2>1. renewed'
      BY <1>8 DEF HostSendsList, history, FollowInv, ActionsOnly
    <2>2. QED
      BY <1>4, <2>1
  <1>9. CASE UNCHANGED vars
    BY <1>9, FollowIdle DEF vars, history
  <1>10. QED
    BY <1>1, <1>2, <1>3, <1>4, <1>5, <1>6, <1>7, <1>8, <1>9 DEF Next, UiStep

\* FollowInv: what is on the way to a client takes its park and its list to the host's.
THEOREM FollowHolds == Spec => []FollowInv
  <1>1. TypeOK /\ FollowInv /\ [Next]_vars => FollowInv'
    BY FollowStep
  <1>2. QED
    BY FollowInit, TypeCorrect, <1>1, PTL DEF Spec

\* SimulationsAgree: without a cancelled concurrent pickup and a renewed list, a client
\* that has executed everything has the same peeps in the air as the host.
THEOREM ParksAgree == Spec => []SimulationsAgree
  <1>1. TypeOK /\ FollowInv => SimulationsAgree
    <2> SUFFICES ASSUME TypeOK, FollowInv, ~renewed, cleared = {}, NEW c \in UpToDate
                 PROVE  park[c] = park[Host]
      BY DEF SimulationsAgree
    <2>1. c \in Client /\ c \in Machine /\ toClient[c] = <<>>
      BY DEF UpToDate, Machine
    <2>2. View(c) = View(Host)
      BY <2>1, ViewType, RunsEmpty DEF FollowInv, ViewsRun
    <2>3. QED
      BY <2>2 DEF View
  <1>2. QED
    BY <1>1, TypeCorrect, FollowHolds, PTL

\* CarriersAgree: a cancelled concurrent pickup leaves the entries of all players but
\* the client's own and the host's as they are.
THEOREM EntriesAgree == Spec => []CarriersAgree
  <1>1. TypeOK /\ FollowInv => CarriersAgree
    <2> SUFFICES ASSUME TypeOK, FollowInv, ~renewed, NEW c \in UpToDate, NEW n \in Machine,
                        n \notin cleared \intersect {c, Host}
                 PROVE  holds[c][n] = holds[Host][n]
      BY DEF CarriersAgree
    <2>1. c \in Client /\ c \in Machine /\ toClient[c] = <<>>
      BY DEF UpToDate, Machine
    <2>2. holds[c][n] \in Entry
      BY <2>1, ViewType
    <2>3. Runs(Entry, EntryStep(n), <<>>, holds[c][n], holds[Host][n])
      BY <2>1 DEF FollowInv, EntriesRun
    <2>4. QED
      BY <2>2, <2>3, RunsEmpty
  <1>2. QED
    BY <1>1, TypeCorrect, FollowHolds, PTL
=============================================================================
