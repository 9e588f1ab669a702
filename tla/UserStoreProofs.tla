-------------------------- MODULE UserStoreProofs --------------------------
(***************************************************************************)
(* Safety of UserStore for any number of handlers, people, tracks and      *)
(* modes. Everything rests on what the id in a handler's locals may be     *)
(* worth: ids are never used twice, so however long ago it was looked up,  *)
(* its row is the handler's own user or gone.                              *)
(***************************************************************************)
EXTENDS UserStore, CountLemmas

\* Handlers that may still insert a user.
Young == {x \in Handlers : handler[x].pc \in {"new", "creating"}}

\* The places of a handler that has looked its user up.
Holding == {"renaming", "reading", "saving", "checking", "toggling", "inserting",
            "deleting"}

\* There is an id left for each handler that may insert a user.
Counted == nextId + Cardinality(Young) <= Cardinality(Handlers) + 2

\* Ids are given out in order.
Assigned == \A i \in Ids : i >= nextId => users[i] = Nobody

\* What a handler has looked up is its own user, or was.
Owned(x) ==
    /\ handler[x].id < nextId
    /\ handler[x].id # 0 => users[handler[x].id] \in {handler[x].who, Nobody}
    /\ handler[x].pc \in Holding => handler[x].id # 0
    /\ handler[x].pc \in {"renaming", "creating"} => handler[x].kind # "forget"

Unique == \A i, k \in Ids : users[i] = users[k] /\ users[i] # Nobody => i = k

Typed ==
    /\ handler \in [Handlers -> Locals]
    /\ users \in [Ids -> People \cup {Nobody}]
    /\ nextId \in Nat \ {0}
    /\ settings \in [Ids -> Modes \cup {"none"}]
    /\ favorites \subseteq Ids \X Tracks
    /\ requests \subseteq Ids \X Handlers
    /\ told \in [Handlers -> Answers]
    /\ stocked \in [People \X Tracks -> Nat]

IInv ==
    /\ Typed
    /\ Counted
    /\ Assigned
    /\ \A x \in Handlers : Owned(x)
    /\ Unique
    /\ NothingOrphaned

USE ModesAssumption, NobodyAssumption, HandlersAssumption

----------------------------------------------------------------------------
\* Cardinality(Handlers) is a number, and so is that of any part of it.
LEMMA HandlersCount ==
    /\ Cardinality(Handlers) \in Nat
    /\ \A S \in SUBSET Handlers : /\ IsFiniteSet(S) /\ Cardinality(S) \in Nat
                                  /\ Cardinality(S) <= Cardinality(Handlers)
BY FS_CardinalityType, FS_Subset

\* The invariant bounds the counter of ids.
LEMMA TypeFromInv == IInv => TypeOK
<1> SUFFICES ASSUME IInv PROVE TypeOK
  OBVIOUS
<1>1. Cardinality(Young) \in Nat
  BY HandlersCount DEF Young
<1>2. nextId \in 1 .. Cardinality(Handlers) + 2
  BY <1>1, HandlersCount DEF IInv, Typed, Counted
<1>3. QED
  BY <1>2 DEF IInv, Typed, TypeOK

\* What a step does to the locals of its handler, and to no others.
Moved(x) ==
    /\ handler' \in [Handlers -> Locals]
    /\ \A y \in Handlers \ {x} : handler'[y] = handler[y]
    /\ handler'[x].who = handler[x].who
    /\ handler'[x].kind = handler[x].kind
    /\ handler'[x].track = handler[x].track
    /\ handler'[x].pc # "new"
    /\ handler'[x].pc = "creating" => handler[x].pc = "new"
    /\ handler'[x].pc \in {"renaming", "creating"} => handler'[x].kind # "forget"
    /\ handler'[x].pc \in Holding => handler'[x].id # 0

\* A step to another place that keeps all else.
LEMMA GotoMoves ==
    ASSUME Typed, NEW x \in Handlers, NEW q \in Places, Goto(x, q)
    PROVE  /\ handler' \in [Handlers -> Locals]
           /\ \A y \in Handlers \ {x} : handler'[y] = handler[y]
           /\ handler'[x] = [handler[x] EXCEPT !.pc = q]
BY DEF Typed, Goto, Locals

\* A step that ends the handler.
LEMMA AnswerMoves ==
    ASSUME Typed, NEW x \in Handlers, NEW what \in Answers, Answer(x, what)
    PROVE  /\ Moved(x)
           /\ handler'[x].pc = "over"
           /\ handler'[x].id = 0
           /\ told' \in [Handlers -> Answers]
<1>1. handler[x] \in Locals
  BY DEF Typed
<1>2. /\ \A y \in Handlers \ {x} : handler'[y] = handler[y]
      /\ handler'[x] = [handler[x] EXCEPT !.pc = "over", !.id = 0, !.seen = FALSE]
      /\ handler' = [handler EXCEPT ![x] = handler'[x]]
  BY DEF Typed, Answer
<1>3. /\ handler'[x] \in Locals
      /\ handler'[x].pc = "over" /\ handler'[x].id = 0
      /\ handler'[x].who = handler[x].who
      /\ handler'[x].kind = handler[x].kind
      /\ handler'[x].track = handler[x].track
  BY <1>1, <1>2 DEF Locals, Places
<1>4. handler' \in [Handlers -> Locals]
  BY <1>2, <1>3 DEF Typed
<1>5. told' \in [Handlers -> Answers]
  BY DEF Typed, Answer
<1>6. QED
  BY <1>2, <1>3, <1>4, <1>5 DEF Moved, Holding

\* ensureUser always hands over a place in the program.
LEMMA EntryPlace ==
    ASSUME NEW kind \in Kinds \ {"forget"}
    PROVE  Entry(kind) \in {"over", "reading", "checking", "inserting"}
BY DEF Entry, Kinds

\* A step from a place that comes after ensureUser, to one that does too.
LEMMA GotoMoved ==
    ASSUME IInv, NEW x \in Handlers, NEW q \in {"reading", "saving", "checking",
           "inserting", "over"}, Goto(x, q), handler[x].pc \in Holding
    PROVE  /\ Moved(x) /\ handler'[x].id = handler[x].id
<1>1. /\ handler' \in [Handlers -> Locals]
      /\ \A y \in Handlers \ {x} : handler'[y] = handler[y]
      /\ handler'[x] = [handler[x] EXCEPT !.pc = q]
  BY GotoMoves DEF Places, IInv
<1>2. handler[x] \in Locals /\ handler[x].id # 0
  BY DEF IInv, Typed, Owned
<1>3. /\ handler'[x].pc = q /\ handler'[x].id = handler[x].id
      /\ handler'[x].who = handler[x].who
      /\ handler'[x].kind = handler[x].kind
      /\ handler'[x].track = handler[x].track
  BY <1>1, <1>2 DEF Locals
<1>4. QED
  BY <1>1, <1>2, <1>3 DEF Moved, Holding

\* A step of a handler that found no user, or could not look.
LEMMA CreatingMoved ==
    ASSUME IInv, NEW x \in Handlers, Goto(x, "creating"), handler[x].pc = "new",
           handler[x].kind # "forget"
    PROVE  /\ Moved(x) /\ handler'[x].id = handler[x].id
<1>1. /\ handler' \in [Handlers -> Locals]
      /\ \A y \in Handlers \ {x} : handler'[y] = handler[y]
      /\ handler'[x] = [handler[x] EXCEPT !.pc = "creating"]
  BY GotoMoves DEF Places, IInv
<1>2. handler[x] \in Locals
  BY DEF IInv, Typed
<1>3. /\ handler'[x].pc = "creating" /\ handler'[x].id = handler[x].id
      /\ handler'[x].who = handler[x].who
      /\ handler'[x].kind = handler[x].kind
      /\ handler'[x].track = handler[x].track
  BY <1>1, <1>2 DEF Locals
<1>4. QED
  BY <1>1, <1>3 DEF Moved, Holding

\* A handler keeps its id, drops it, has just read it in the row of its own
\* user, or has just inserted that row.
IdKnown(x) ==
    \/ handler'[x].id \in {0, handler[x].id}
    \/ handler'[x].id \in RowsOf(handler[x].who)
    \/ Create(x) /\ handler'[x].id = nextId

\* What every step does to the locals of its handler.
LEMMA ActorStep ==
    ASSUME IInv, NEW x \in Handlers, Step(x)
    PROVE  Moved(x) /\ IdKnown(x) /\ told' \in [Handlers -> Answers]
<1> DEFINE Goal == Moved(x) /\ IdKnown(x) /\ told' \in [Handlers -> Answers]
<1>0. Typed /\ handler[x] \in Locals /\ told \in [Handlers -> Answers] /\ Owned(x)
  BY DEF IInv, Typed
<1>a. ASSUME NEW what \in Answers, Answer(x, what) PROVE Goal
  BY <1>a, <1>0, AnswerMoves DEF IdKnown
<1>b. ASSUME Return(x) PROVE Goal
  <2>1. told[x] \in Answers
    BY <1>0
  <2>2. QED
    BY <1>a, <1>b, <2>1 DEF Return
<1>c. ASSUME NEW q \in {"reading", "saving", "checking", "inserting", "over"},
             Goto(x, q), handler[x].pc \in Holding, UNCHANGED told
      PROVE  Goal
  BY <1>c, <1>0, GotoMoved DEF IdKnown
<1>1. CASE Lookup(x)
  <2>1. CASE RowsOf(handler[x].who) # {}
    <3>1. PICK i \in RowsOf(handler[x].who) :
             handler' = [handler EXCEPT ![x].pc = "renaming", ![x].id = i]
      BY <1>1, <2>1 DEF Lookup
    <3>2. i \in Ids /\ i # 0
      BY DEF RowsOf, Ids
    <3>3. handler'[x] = [handler[x] EXCEPT !.pc = "renaming", !.id = i]
      BY <1>0, <3>1 DEF Typed
    <3>4. /\ handler'[x] \in Locals
          /\ handler'[x].pc = "renaming" /\ handler'[x].id = i
          /\ handler'[x].who = handler[x].who
          /\ handler'[x].kind = handler[x].kind
          /\ handler'[x].track = handler[x].track
      BY <1>0, <3>2, <3>3 DEF Locals, Places
    <3>5. handler' \in [Handlers -> Locals]
      BY <1>0, <3>1, <3>4 DEF Typed
    <3>6. QED
      BY <1>0, <1>1, <3>1, <3>2, <3>4, <3>5 DEF Lookup, Moved, IdKnown, Typed, Is
  <2>2. CASE RowsOf(handler[x].who) = {}
    <3>1. Goto(x, "creating") /\ told' = told
      BY <1>1, <2>2 DEF Lookup
    <3>2. QED
      BY <1>0, <1>1, <3>1, CreatingMoved DEF Lookup, At, Is, IdKnown
  <2>3. QED
    BY <2>1, <2>2
<1>2. CASE LookupFails(x)
  <2>1. Goto(x, "creating") /\ told' = told
    BY <1>2 DEF LookupFails
  <2>2. QED
    BY <1>0, <1>2, <2>1, CreatingMoved DEF LookupFails, At, Is, IdKnown
<1>3. CASE Rename(x)
  <2>1. handler[x].kind \in Kinds \ {"forget"}
    BY <1>0, <1>3 DEF Rename, At, Owned, Locals
  <2>2. QED
    BY <1>3, <1>c, <2>1, EntryPlace DEF Rename, At, Holding
<1>4. CASE Create(x)
  <2>1. handler[x].kind \in Kinds \ {"forget"}
    BY <1>0, <1>4 DEF Create, At, Owned, Locals
  <2>2. Entry(handler[x].kind) \in {"over", "reading", "checking", "inserting"}
    BY <2>1, EntryPlace
  <2>3. x \in Young /\ Young \in SUBSET Handlers
    BY <1>4 DEF Create, At, Young
  <2>4. nextId \in Ids
    <3>1. IsFiniteSet(Young)
      BY <2>3, HandlersCount
    <3>2. Cardinality(Young) \in Nat \ {0}
      BY <2>3, <3>1, CardRemove
    <3>3. QED
      BY <1>0, <3>2, HandlersCount DEF IInv, Counted, Typed, Ids
  <2>5. handler'[x] = [handler[x] EXCEPT !.id = nextId, !.pc = Entry(handler[x].kind)]
    BY <1>0, <1>4 DEF Create, Typed
  <2>6. /\ handler'[x] \in Locals
        /\ handler'[x].pc = Entry(handler[x].kind) /\ handler'[x].id = nextId
        /\ handler'[x].who = handler[x].who
        /\ handler'[x].kind = handler[x].kind
        /\ handler'[x].track = handler[x].track
    BY <1>0, <2>2, <2>4, <2>5 DEF Locals, Places
  <2>7. handler' \in [Handlers -> Locals]
    BY <1>0, <1>4, <2>6 DEF Create, Typed
  <2>8. \A y \in Handlers \ {x} : handler'[y] = handler[y]
    BY <1>0, <1>4 DEF Create, Typed
  <2>9. told' = told /\ nextId # 0
    BY <1>0, <1>4 DEF Create, Typed
  <2>10. QED
    BY <1>0, <1>4, <2>2, <2>6, <2>7, <2>8, <2>9 DEF Moved, IdKnown
<1>5. CASE CreateFails(x)
  BY <1>5, <1>a DEF CreateFails, Answers
<1>6. CASE ReadSettings(x)
  BY <1>6, <1>a, <1>c DEF ReadSettings, Answers, At, Holding
<1>7. CASE ReadSettingsFails(x)
  BY <1>7, <1>c DEF ReadSettingsFails, At, Holding
<1>8. CASE SaveSettings(x)
  BY <1>8, <1>a DEF SaveSettings, Answers
<1>9. CASE SaveSettingsFails(x)
  BY <1>9, <1>a DEF SaveSettingsFails, Answers
<1>10. CASE CheckFavorite(x)
  <2> DEFINE found == Favorite(x) \in favorites
  <2>1. found \in BOOLEAN /\ handler'[x] = [handler[x] EXCEPT !.pc = "toggling", !.seen = found]
    BY <1>0, <1>10 DEF CheckFavorite, Typed
  <2> HIDE DEF found
  <2>2. /\ handler'[x] \in Locals
        /\ handler'[x].pc = "toggling" /\ handler'[x].id = handler[x].id
        /\ handler'[x].who = handler[x].who
        /\ handler'[x].kind = handler[x].kind
        /\ handler'[x].track = handler[x].track
    BY <1>0, <2>1 DEF Locals, Places
  <2>3. handler' \in [Handlers -> Locals]
    BY <1>0, <1>10, <2>2 DEF CheckFavorite, Typed
  <2>4. /\ \A y \in Handlers \ {x} : handler'[y] = handler[y]
        /\ told' = told
        /\ handler[x].id # 0
    BY <1>0, <1>10 DEF CheckFavorite, Typed, At, Owned, Holding
  <2>5. QED
    BY <1>0, <2>2, <2>3, <2>4 DEF Moved, IdKnown
<1>11. CASE CheckFails(x)
  BY <1>11, <1>b DEF CheckFails
<1>12. CASE AddFavorite(x)
  BY <1>12, <1>a DEF AddFavorite, Answers
<1>13. CASE RemoveFavorite(x)
  BY <1>13, <1>a DEF RemoveFavorite, Answers
<1>14. CASE ToggleFails(x)
  BY <1>14, <1>a DEF ToggleFails, Answers
<1>15. CASE InsertRequest(x)
  BY <1>15, <1>b DEF InsertRequest
<1>16. CASE InsertFails(x)
  BY <1>16, <1>b DEF InsertFails
<1>17. CASE FindProfile(x)
  <2>1. CASE RowsOf(handler[x].who) # {}
    <3>1. PICK i \in RowsOf(handler[x].who) :
             /\ handler' = [handler EXCEPT ![x].pc = "deleting", ![x].id = i]
             /\ told' = told
      BY <1>17, <2>1 DEF FindProfile
    <3>2. i \in Ids /\ i # 0
      BY DEF RowsOf, Ids
    <3>3. handler'[x] = [handler[x] EXCEPT !.pc = "deleting", !.id = i]
      BY <1>0, <3>1 DEF Typed
    <3>4. /\ handler'[x] \in Locals
          /\ handler'[x].pc = "deleting" /\ handler'[x].id = i
          /\ handler'[x].who = handler[x].who
          /\ handler'[x].kind = handler[x].kind
          /\ handler'[x].track = handler[x].track
      BY <1>0, <3>2, <3>3 DEF Locals, Places
    <3>5. handler' \in [Handlers -> Locals]
      BY <1>0, <3>1, <3>4 DEF Typed
    <3>6. QED
      BY <1>0, <3>1, <3>2, <3>4, <3>5 DEF Moved, IdKnown, Typed
  <2>2. CASE RowsOf(handler[x].who) = {}
    BY <1>17, <2>2, <1>a DEF FindProfile, Answers
  <2>3. QED
    BY <2>1, <2>2
<1>18. CASE FindFails(x)
  BY <1>18, <1>a DEF FindFails, Answers
<1>19. CASE DeleteProfile(x)
  BY <1>19, <1>a DEF DeleteProfile, Answers
<1>20. CASE DeleteFails(x)
  BY <1>20, <1>a DEF DeleteFails, Answers
<1>21. QED
  BY <1>1, <1>2, <1>3, <1>4, <1>5, <1>6, <1>7, <1>8, <1>9, <1>10, <1>11, <1>12,
     <1>13, <1>14, <1>15, <1>16, <1>17, <1>18, <1>19, <1>20 DEF Step

----------------------------------------------------------------------------
\* Only an insert and a delete touch the table of users.
LEMMA UsersStep ==
    ASSUME IInv, NEW x \in Handlers, Step(x)
    PROVE  \/ UNCHANGED <<users, nextId>>
           \/ /\ Create(x) /\ nextId \in Ids /\ nextId' = nextId + 1
              /\ users' = [users EXCEPT ![nextId] = handler[x].who]
              /\ users[nextId] = Nobody /\ RowsOf(handler[x].who) = {}
              /\ handler[x].who \in People
              /\ handler'[x].pc # "creating"
           \/ /\ DeleteProfile(x) /\ nextId' = nextId
              /\ users' = [users EXCEPT ![handler[x].id] = Nobody]
<1>1. CASE Create(x)
  <2>1. /\ nextId' = nextId + 1 /\ RowsOf(handler[x].who) = {}
        /\ users' = [users EXCEPT ![nextId] = handler[x].who]
    BY <1>1 DEF Create
  <2>2. handler[x] \in Locals /\ handler[x].who \in People
    BY DEF IInv, Typed, Locals
  <2>3. nextId \in Ids
    <3>1. x \in Young /\ Young \in SUBSET Handlers
      BY <1>1 DEF Create, At, Young
    <3>2. IsFiniteSet(Young)
      BY <3>1, HandlersCount
    <3>3. Cardinality(Young) \in Nat \ {0}
      BY <3>1, <3>2, CardRemove
    <3>4. QED
      BY <3>3, HandlersCount DEF IInv, Counted, Typed, Ids
  <2>4. users[nextId] = Nobody
    BY <2>3 DEF IInv, Assigned, Typed
  <2>5. handler'[x].pc # "creating"
    BY <1>1, ActorStep DEF Moved, Create, At
  <2>6. QED
    BY <1>1, <2>1, <2>2, <2>3, <2>4, <2>5
<1>2. CASE DeleteProfile(x)
  BY <1>2 DEF DeleteProfile
<1>3. CASE ~Create(x) /\ ~DeleteProfile(x)
  BY <1>3 DEF Step, Lookup, LookupFails, Rename, CreateFails, ReadSettings,
     ReadSettingsFails, SaveSettings, SaveSettingsFails, CheckFavorite, CheckFails,
     AddFavorite, RemoveFavorite, ToggleFails, InsertRequest, InsertFails, FindProfile,
     FindFails, DeleteFails, tables
<1>4. QED
  BY <1>1, <1>2, <1>3

\* The other tables are written by these steps alone.
Writes(x) ==
    \/ SaveSettings(x) \/ AddFavorite(x) \/ RemoveFavorite(x) \/ InsertRequest(x)
    \/ DeleteProfile(x)

LEMMA OthersStep ==
    ASSUME NEW x \in Handlers, Step(x), ~Writes(x)
    PROVE  UNCHANGED <<settings, favorites, requests, stocked>>
BY DEF Writes, Step, Lookup, LookupFails, Rename, Create, CreateFails, ReadSettings,
   ReadSettingsFails, SaveSettingsFails, CheckFavorite, CheckFails, ToggleFails,
   InsertFails, FindProfile, FindFails, DeleteFails, tables

\* A step keeps the types.
LEMMA TypedStep ==
    ASSUME IInv, NEW x \in Handlers, Step(x)
    PROVE  Typed'
<1>1. handler' \in [Handlers -> Locals] /\ told' \in [Handlers -> Answers]
  BY ActorStep DEF Moved
<1>2. Typed /\ handler[x] \in Locals
  BY DEF IInv, Typed
<1>3. users' \in [Ids -> People \cup {Nobody}] /\ nextId' \in Nat \ {0}
  BY <1>2, UsersStep DEF Typed
<1>4. /\ settings' \in [Ids -> Modes \cup {"none"}]
      /\ favorites' \subseteq Ids \X Tracks
      /\ requests' \subseteq Ids \X Handlers
      /\ stocked' \in [People \X Tracks -> Nat]
  <2>1. CASE ~Writes(x)
    BY <1>2, <2>1, OthersStep DEF Typed
  <2>2. CASE SaveSettings(x)
    BY <1>2, <2>2 DEF SaveSettings, Typed, Locals
  <2>3. CASE AddFavorite(x)
    <3>1. Favorite(x) \in Ids \X Tracks
      BY <1>2, <2>3 DEF AddFavorite, Favorite, Known, Locals
    <3>2. Stock(x) \in People \X Tracks
      BY <1>2 DEF Stock, Locals
    <3>3. stocked[Stock(x)] + 1 \in Nat
      BY <1>2, <3>2 DEF Typed
    <3>4. stocked' \in [People \X Tracks -> Nat]
      BY <1>2, <2>3, <3>2, <3>3 DEF AddFavorite, Typed
    <3>5. QED
      BY <1>2, <2>3, <3>1, <3>4 DEF AddFavorite, Typed
  <2>4. CASE RemoveFavorite(x)
    BY <1>2, <2>4 DEF RemoveFavorite, Typed
  <2>5. CASE InsertRequest(x)
    BY <1>2, <2>5 DEF InsertRequest, Known, Typed
  <2>6. CASE DeleteProfile(x)
    BY <1>2, <2>6 DEF DeleteProfile, Typed
  <2>7. QED
    BY <2>1, <2>2, <2>3, <2>4, <2>5, <2>6 DEF Writes
<1>5. QED
  BY <1>1, <1>3, <1>4 DEF Typed

\* An insert uses up the place of a handler that may insert.
LEMMA CountedStep ==
    ASSUME IInv, NEW x \in Handlers, Step(x)
    PROVE  Counted'
<1>1. Young \in SUBSET Handlers /\ Young' \in SUBSET Handlers /\ Young' \subseteq Young
  BY ActorStep DEF Young, Moved
<1>2. /\ IsFiniteSet(Young) /\ Cardinality(Young) \in Nat
      /\ IsFiniteSet(Young') /\ Cardinality(Young') \in Nat
  BY <1>1, HandlersCount
<1>3. Cardinality(Young') <= Cardinality(Young)
  BY <1>1, <1>2, FS_Subset
<1>4. CASE nextId' = nextId
  BY <1>2, <1>3, <1>4, HandlersCount DEF IInv, Counted, Typed
<1>5. CASE Create(x) /\ nextId' = nextId + 1 /\ handler'[x].pc # "creating"
  <2>1. x \in Young /\ x \notin Young'
    BY <1>5, ActorStep DEF Young, Moved, Create, At
  <2>2. /\ IsFiniteSet(Young \ {x})
        /\ Cardinality(Young \ {x}) = Cardinality(Young) - 1
    BY <1>2, <2>1, CardRemove
  <2>3. Young' \subseteq Young \ {x}
    BY <1>1, <2>1
  <2>4. Cardinality(Young') <= Cardinality(Young) - 1
    BY <2>2, <2>3, FS_Subset
  <2>5. QED
    BY <1>2, <1>5, <2>4, HandlersCount DEF IInv, Counted, Typed
<1>6. QED
  BY <1>4, <1>5, UsersStep

\* Ids stay in order and a handler's id stays its own.
LEMMA IdsStep ==
    ASSUME IInv, NEW x \in Handlers, Step(x)
    PROVE  Assigned' /\ Unique' /\ \A y \in Handlers : Owned(y)'
<1>1. Typed /\ Assigned /\ Unique /\ handler[x] \in Locals
  BY DEF IInv, Typed
<1>2. /\ nextId' >= nextId
      /\ \A i \in Ids : i < nextId => users'[i] \in {users[i], Nobody}
      /\ Assigned'
  <2>1. CASE UNCHANGED <<users, nextId>>
    BY <1>1, <2>1 DEF Typed, Assigned, Ids
  <2>2. CASE /\ nextId \in Ids /\ nextId' = nextId + 1
             /\ users' = [users EXCEPT ![nextId] = handler[x].who]
    <3>1. \A i \in Ids : i # nextId => users'[i] = users[i]
      BY <1>1, <2>2 DEF Typed
    <3>2. QED
      BY <1>1, <2>2, <3>1 DEF Typed, Assigned, Ids
  <2>3. CASE nextId' = nextId /\ users' = [users EXCEPT ![handler[x].id] = Nobody]
    <3>1. \A i \in Ids : users'[i] \in {users[i], Nobody}
      BY <1>1, <2>3 DEF Typed
    <3>2. QED
      BY <1>1, <2>3, <3>1 DEF Typed, Assigned, Ids
  <2>4. QED
    BY <2>1, <2>2, <2>3, UsersStep
<1>3. Unique'
  <2>1. CASE UNCHANGED <<users, nextId>>
    BY <1>1, <2>1 DEF Unique
  <2>2. CASE DeleteProfile(x) /\ users' = [users EXCEPT ![handler[x].id] = Nobody]
    BY <1>1, <2>2 DEF Unique, Typed
  <2>3. CASE /\ users' = [users EXCEPT ![nextId] = handler[x].who]
             /\ RowsOf(handler[x].who) = {} /\ nextId \in Ids
    <3>1. \A i \in Ids : users[i] # handler[x].who
      BY <2>3 DEF RowsOf
    <3>2. QED
      BY <1>1, <2>3, <3>1 DEF Unique, Typed
  <2>4. QED
    BY <2>1, <2>2, <2>3, UsersStep
<1>4. ASSUME NEW y \in Handlers, y # x PROVE Owned(y)'
  <2>1. handler'[y] = handler[y] /\ Owned(y) /\ handler[y] \in Locals
    BY <1>4, ActorStep DEF Moved, IInv, Typed
  <2>2. handler[y].id \in Ids \cup {0}
    BY <2>1 DEF Locals
  <2>3. QED
    BY <1>1, <1>2, <2>1, <2>2, TypedStep DEF Owned, Typed, Ids
<1>5. Owned(x)'
  <2>1. Moved(x) /\ Owned(x) /\ IdKnown(x) /\ handler'[x] \in Locals
    BY ActorStep DEF IInv, Moved
  <2>2. handler'[x].id \in Ids \cup {0} /\ handler[x].who \in People
    BY <1>1, <2>1 DEF Locals
  <2>3. /\ handler'[x].id < nextId'
        /\ handler'[x].id # 0 => users'[handler'[x].id] \in {handler[x].who, Nobody}
    <3>1. CASE handler'[x].id \in {0, handler[x].id}
      <4>1. handler'[x].id # 0 => users[handler'[x].id] \in {handler[x].who, Nobody}
        BY <2>1, <3>1 DEF Owned
      <4>2. handler'[x].id < nextId
        BY <1>1, <2>1, <3>1 DEF Owned, Typed
      <4>3. QED
        BY <1>1, <1>2, <2>2, <4>1, <4>2, TypedStep DEF Typed, Ids
    <3>2. CASE handler'[x].id \in RowsOf(handler[x].who)
      <4> DEFINE id == handler'[x].id
      <4>1. id \in Ids /\ users[id] = handler[x].who /\ users[id] # Nobody
        BY <2>2, <3>2 DEF RowsOf
      <4>2. id < nextId
        BY <1>1, <4>1 DEF Assigned, Typed, Ids
      <4>3. nextId' \in Nat
        BY TypedStep DEF Typed
      <4>4. id < nextId'
        BY <1>1, <1>2, <4>1, <4>2, <4>3 DEF Typed, Ids
      <4>5. users'[id] \in {handler[x].who, Nobody}
        BY <1>2, <4>1, <4>2
      <4>6. QED
        BY <4>4, <4>5
    <3>3. CASE Create(x) /\ handler'[x].id = nextId
      BY <1>1, <2>2, <3>3 DEF Create, Typed
    <3>4. QED
      BY <2>1, <3>1, <3>2, <3>3 DEF IdKnown
  <2>4. QED
    BY <2>1, <2>3 DEF Owned, Moved
<1>6. QED
  BY <1>2, <1>3, <1>4, <1>5

\* Nothing is written under an id whose user is gone.
LEMMA OrphanStep ==
    ASSUME IInv, NEW x \in Handlers, Step(x)
    PROVE  NothingOrphaned'
<1>1. Typed /\ Owned(x) /\ NothingOrphaned /\ handler[x] \in Locals
  BY DEF IInv, Typed
<1>2. ~DeleteProfile(x) => \A i \in Ids : users'[i] = Nobody => users[i] = Nobody
  BY <1>1, UsersStep DEF Typed
<1>3. CASE ~Writes(x)
  BY <1>2, <1>1, <1>3, OthersStep DEF Writes, NothingOrphaned
<1>4. CASE SaveSettings(x)
  BY <1>1, <1>4 DEF SaveSettings, NothingOrphaned, Known, Typed
<1>5. CASE AddFavorite(x)
  BY <1>1, <1>5 DEF AddFavorite, NothingOrphaned, Known, Favorite, Typed
<1>6. CASE RemoveFavorite(x)
  BY <1>1, <1>6 DEF RemoveFavorite, NothingOrphaned, Typed
<1>7. CASE InsertRequest(x)
  BY <1>1, <1>7 DEF InsertRequest, NothingOrphaned, Known, Typed
<1>8. CASE DeleteProfile(x)
  BY <1>1, <1>8 DEF DeleteProfile, NothingOrphaned, Known, Typed
<1>9. QED
  BY <1>3, <1>4, <1>5, <1>6, <1>7, <1>8 DEF Writes

----------------------------------------------------------------------------
\* The invariant holds in every state a first handler can find.
LEMMA InvInit == Init => IInv
<1> SUFFICES ASSUME Init PROVE IInv
  OBVIOUS
<1>1. PICK first \in People \cup {Nobody} :
         /\ users = [i \in Ids |-> IF i = 1 THEN first ELSE Nobody]
         /\ nextId = IF first = Nobody THEN 1 ELSE 2
         /\ \E m \in IF first = Nobody THEN {"none"} ELSE Modes \cup {"none"} :
               settings = [i \in Ids |-> IF i = 1 THEN m ELSE "none"]
         /\ favorites \in SUBSET (IF first = Nobody THEN {} ELSE {1} \X Tracks)
  BY DEF Init
<1>2. 1 \in Ids
  BY HandlersCount DEF Ids
<1>3. /\ handler \in [Handlers -> Locals]
      /\ \A x \in Handlers : handler[x].pc = "new" /\ handler[x].id = 0
  BY DEF Init, Fresh
<1>4. told \in [Handlers -> Answers] /\ requests = {}
  BY DEF Init, Answers
<1>5. stocked \in [People \X Tracks -> Nat]
  BY DEF Init
<1>6. Typed
  BY <1>1, <1>2, <1>3, <1>4, <1>5 DEF Typed
<1>7. Counted
  <2>1. Young = Handlers
    BY <1>3 DEF Young
  <2>2. QED
    BY <1>1, <2>1, HandlersCount DEF Counted
<1>8. Assigned /\ Unique
  BY <1>1 DEF Assigned, Unique, Ids
<1>9. \A x \in Handlers : Owned(x)
  BY <1>1, <1>3 DEF Owned, Holding
<1>10. NothingOrphaned
  BY <1>1, <1>4 DEF NothingOrphaned
<1>11. QED
  BY <1>6, <1>7, <1>8, <1>9, <1>10 DEF IInv

\* The invariant is kept by every step.
LEMMA InvStep == IInv /\ [Next]_vars => IInv'
<1> SUFFICES ASSUME IInv, [Next]_vars PROVE IInv'
  OBVIOUS
<1>1. CASE UNCHANGED vars
  BY <1>1 DEF IInv, Typed, Counted, Young, Assigned, Owned, Unique, NothingOrphaned, vars,
     tables
<1>2. CASE Next
  <2>1. PICK x \in Handlers : Step(x)
    BY <1>2 DEF Next
  <2>2. QED
    BY <2>1, TypedStep, CountedStep, IdsStep, OrphanStep DEF IInv
<1>3. QED
  BY <1>1, <1>2

\* A reachable state of UserStore satisfies the invariant.
THEOREM Inductive == Spec => []IInv
BY InvInit, InvStep, PTL DEF Spec

\* Types hold, and there is an id for every user the handlers insert.
THEOREM TypeCorrect == Spec => []TypeOK
BY Inductive, TypeFromInv, PTL

\* However many handlers insert the same user at once, it has one row.
THEOREM OneProfileCorrect == Spec => []OneProfile
<1>1. IInv => OneProfile
  <2> SUFFICES ASSUME IInv, NEW p \in People PROVE Cardinality(RowsOf(p)) <= 1
    BY DEF OneProfile
  <2>1. CASE RowsOf(p) = {}
    BY <2>1, FS_EmptySet
  <2>2. CASE RowsOf(p) # {}
    <3>1. PICK i \in RowsOf(p) : TRUE
      BY <2>2
    <3>2. RowsOf(p) = {i}
      BY <3>1 DEF RowsOf, IInv, Unique
    <3>3. Cardinality({i}) = 1
      BY FS_Singleton
    <3>4. QED
      BY <3>2, <3>3
  <2>3. QED
    BY <2>1, <2>2
<1>2. QED
  BY <1>1, Inductive, PTL

\* What /forget deletes stays deleted, whatever other handlers were doing.
THEOREM ForgottenStaysForgotten == Spec => []NothingOrphaned
BY Inductive, PTL DEF IInv

\* A handler writes data of its own user only, however stale the id it holds.
THEOREM OwnDataCorrect == Spec => OwnDataOnly
<1> DEFINE Touched(x, i) ==
      /\ handler'[x] # handler[x]
      /\ \/ settings'[i] # settings[i]
         \/ FavoritesOf(i)' # FavoritesOf(i)
         \/ HistoryOf(i)' # HistoryOf(i)
<1>1. ASSUME IInv, Next, NEW x \in Handlers, NEW i \in Ids, Touched(x, i)
      PROVE  users[i] = handler[x].who
  <2>1. PICK z \in Handlers : Step(z)
    BY <1>1 DEF Next
  <2>2. Step(x)
    BY <1>1, <2>1, ActorStep DEF Moved
  <2>3. Typed /\ Owned(x) /\ NothingOrphaned /\ handler[x] \in Locals
    BY <1>1 DEF IInv, Typed
  <2>4. Known(handler[x].id) => users[handler[x].id] = handler[x].who /\ handler[x].id \in Ids
    BY <2>3 DEF Known, Owned, Ids
  <2>5. Writes(x)
    BY <1>1, <2>2, OthersStep DEF FavoritesOf, HistoryOf
  <2>6. i = handler[x].id
    <3> SUFFICES ASSUME i # handler[x].id PROVE FALSE
      OBVIOUS
    <3>1. settings'[i] = settings[i]
      BY <2>3, <2>5 DEF Writes, SaveSettings, AddFavorite, RemoveFavorite, InsertRequest,
         DeleteProfile, Typed
    <3>2. FavoritesOf(i)' = FavoritesOf(i)
      BY <2>3, <2>5 DEF Writes, SaveSettings, AddFavorite, RemoveFavorite, InsertRequest,
         DeleteProfile, Favorite, FavoritesOf
    <3>3. HistoryOf(i)' = HistoryOf(i)
      BY <2>3, <2>5 DEF Writes, SaveSettings, AddFavorite, RemoveFavorite, InsertRequest,
         DeleteProfile, HistoryOf
    <3>4. QED
      BY <1>1, <3>1, <3>2, <3>3
  <2>7. Known(handler[x].id)
    <3>1. CASE RemoveFavorite(x)
      <4>1. handler[x].track \in Tracks /\ <<i, handler[x].track>> \in favorites
        BY <2>3, <2>6, <3>1 DEF RemoveFavorite, Favorite, Locals
      <4>2. QED
        BY <2>3, <2>6, <4>1 DEF NothingOrphaned, Known
    <3>2. CASE ~RemoveFavorite(x)
      BY <2>5, <3>2 DEF Writes, SaveSettings, AddFavorite, InsertRequest, DeleteProfile
    <3>3. QED
      BY <3>1, <3>2
  <2>8. QED
    BY <2>4, <2>6, <2>7
<1>2. IInv /\ [Next]_vars =>
         [\A x \in Handlers, i \in Ids : Touched(x, i) => users[i] = handler[x].who]_vars
  BY <1>1
<1>3. QED
  BY <1>2, Inductive, PTL DEF Spec, OwnDataOnly

----------------------------------------------------------------------------
\* A handler that was told that it removed a favorite has ended.
Told == \A x \in Handlers : told[x] = "removed" => handler[x].pc = "over"

CountInv == Told /\ RemovedOnce

\* Both sets are finite.
LEMMA FiniteCounts ==
    \A p \in People, t \in Tracks :
        /\ IsFiniteSet(Removers(p, t)) /\ Cardinality(Removers(p, t)) \in Nat
        /\ IsFiniteSet(Kept(p, t)) /\ Cardinality(Kept(p, t)) \in Nat
<1>1. IsFiniteSet(Ids)
  BY HandlersCount, FS_Interval DEF Ids
<1>2. QED
  BY <1>1, FS_Subset, FS_CardinalityType DEF Removers, Kept, RowsOf

\* Initially nobody was told anything, and a user has one row.
LEMMA CountInit == Init => CountInv
<1> SUFFICES ASSUME Init PROVE CountInv
  OBVIOUS
<1>1. IInv
  BY InvInit
<1>2. \A x \in Handlers : told[x] = "none"
  BY DEF Init
<1>3. ASSUME NEW p \in People, NEW t \in Tracks
      PROVE  Cardinality(Removers(p, t)) + Cardinality(Kept(p, t)) <= stocked[<<p, t>>]
  <2>1. Cardinality(Removers(p, t)) = 0
    BY <1>2, FS_EmptySet DEF Removers
  <2>2. stocked[<<p, t>>] = IF \E i \in RowsOf(p) : <<i, t>> \in favorites THEN 1 ELSE 0
    BY DEF Init
  <2>3. CASE \E i \in RowsOf(p) : <<i, t>> \in favorites
    <3>1. PICK i \in RowsOf(p) : <<i, t>> \in favorites
      BY <2>3
    <3>2. Kept(p, t) = {i}
      BY <1>1, <3>1 DEF Kept, RowsOf, IInv, Unique
    <3>3. Cardinality({i}) = 1
      BY FS_Singleton
    <3>4. QED
      BY <2>1, <2>2, <2>3, <3>2, <3>3
  <2>4. CASE ~\E i \in RowsOf(p) : <<i, t>> \in favorites
    <3>1. Kept(p, t) = {}
      BY <2>4 DEF Kept
    <3>2. QED
      BY <2>1, <2>2, <2>4, <3>1, FS_EmptySet
  <2>5. QED
    BY <2>3, <2>4
<1>4. QED
  BY <1>2, <1>3 DEF CountInv, Told, RemovedOnce

\* What a step may tell.
LEMMA ToldStep ==
    ASSUME IInv, Told, NEW x \in Handlers, Step(x)
    PROVE  /\ \A y \in Handlers \ {x} : told'[y] = told[y]
           /\ told[x] # "removed"
           /\ told'[x] = "removed" <=> RemoveFavorite(x)
           /\ Told'
<1>1. told \in [Handlers -> Answers] /\ handler \in [Handlers -> Locals]
  BY DEF IInv, Typed
<1>2. handler[x].pc # "over"
  BY DEF Step, Lookup, LookupFails, Rename, Create, CreateFails, ReadSettings,
     ReadSettingsFails, SaveSettings, SaveSettingsFails, CheckFavorite, CheckFails,
     AddFavorite, RemoveFavorite, ToggleFails, InsertRequest, InsertFails, FindProfile,
     FindFails, DeleteProfile, DeleteFails, At
<1>3. told[x] # "removed"
  BY <1>2 DEF Told
<1>4. CASE RemoveFavorite(x)
  <2>1. told' = [told EXCEPT ![x] = "removed"] /\ handler'[x].pc = "over"
    BY <1>1, <1>4, AnswerMoves DEF RemoveFavorite, Answer, Answers, IInv
  <2>2. QED
    BY <1>1, <1>3, <1>4, <2>1, ActorStep DEF Told, Moved
<1>5. CASE ~RemoveFavorite(x)
  <2>1. \E what \in {told[x], "none", "shown", "saved", "added", "forgotten", "failed"} :
           told' = [told EXCEPT ![x] = what]
    <3>1. told = [told EXCEPT ![x] = told[x]]
      BY <1>1
    <3>2. QED
      BY <1>5, <3>1 DEF Step, Lookup, LookupFails, Rename, Create, CreateFails, ReadSettings,
         ReadSettingsFails, SaveSettings, SaveSettingsFails, CheckFavorite, CheckFails,
         AddFavorite, ToggleFails, InsertRequest, InsertFails, FindProfile,
         FindFails, DeleteProfile, DeleteFails, Answer, Return
  <2>2. QED
    BY <1>1, <1>3, <1>5, <2>1, ActorStep DEF Told, Moved
<1>6. QED
  BY <1>3, <1>4, <1>5

\* Each removal takes away what an insert has put there.
LEMMA CountStep ==
    ASSUME IInv, CountInv, NEW x \in Handlers, Step(x)
    PROVE  CountInv'
<1>1. Typed /\ Typed' /\ Owned(x) /\ NothingOrphaned /\ handler[x] \in Locals
  BY TypedStep DEF IInv, Typed
<1>2. /\ \A y \in Handlers : Stock(y)' = Stock(y)
      /\ \A y \in Handlers \ {x} : told'[y] = told[y]
      /\ told[x] # "removed"
      /\ told'[x] = "removed" <=> RemoveFavorite(x)
      /\ Told'
  BY ActorStep, ToldStep DEF CountInv, Stock, Moved
<1>3. ASSUME NEW p \in People, NEW t \in Tracks
      PROVE  Cardinality(Removers(p, t)') + Cardinality(Kept(p, t)') <= stocked'[<<p, t>>]
  <2>1. /\ IsFiniteSet(Removers(p, t)) /\ Cardinality(Removers(p, t)) \in Nat
        /\ IsFiniteSet(Kept(p, t)) /\ Cardinality(Kept(p, t)) \in Nat
        /\ Cardinality(Removers(p, t)) + Cardinality(Kept(p, t)) <= stocked[<<p, t>>]
        /\ stocked[<<p, t>>] \in Nat
    BY <1>1, FiniteCounts DEF CountInv, RemovedOnce, Typed
  <2>2. \A i \in RowsOf(p)' : i \in RowsOf(p) \/ \A u \in Tracks : <<i, u>> \notin favorites
    BY <1>1, UsersStep DEF RowsOf, NothingOrphaned, Typed
  <2>3. CASE ~RemoveFavorite(x) /\ ~AddFavorite(x)
    <3>1. Removers(p, t)' = Removers(p, t)
      BY <1>2, <2>3 DEF Removers
    <3>2. favorites' \subseteq favorites /\ stocked' = stocked
      BY <2>3, OthersStep DEF Writes, SaveSettings, InsertRequest, DeleteProfile
    <3>3. Kept(p, t)' \subseteq Kept(p, t)
      BY <2>2, <3>2 DEF Kept
    <3>4. Cardinality(Kept(p, t)') <= Cardinality(Kept(p, t)) /\ Cardinality(Kept(p, t)') \in Nat
      BY <2>1, <3>3, FS_Subset, FS_CardinalityType
    <3>5. QED
      BY <2>1, <3>1, <3>2, <3>4
  <2>4. CASE AddFavorite(x)
    <3>1. Removers(p, t)' = Removers(p, t)
      BY <1>2, <2>4 DEF Removers, AddFavorite, RemoveFavorite
    <3>2. /\ users' = users /\ favorites' = favorites \cup {Favorite(x)}
          /\ users[handler[x].id] = handler[x].who
          /\ handler[x].id \in Ids
      BY <1>1, <2>4 DEF AddFavorite, Owned, Known, Ids
    <3>3. CASE Stock(x) = <<p, t>> /\ Favorite(x) \notin favorites
      <4>1. handler[x].id \notin Kept(p, t) /\ Kept(p, t)' = Kept(p, t) \cup {handler[x].id}
        BY <3>2, <3>3 DEF Kept, RowsOf, Stock, Favorite
      <4>2. stocked'[<<p, t>>] = stocked[<<p, t>>] + 1
        BY <1>1, <2>4, <3>3 DEF AddFavorite, Typed
      <4>3. Cardinality(Kept(p, t)') = Cardinality(Kept(p, t)) + 1
        BY <2>1, <4>1, CardAdd
      <4>4. QED
        BY <2>1, <3>1, <4>2, <4>3
    <3>4. CASE ~(Stock(x) = <<p, t>> /\ Favorite(x) \notin favorites)
      <4>1. Kept(p, t)' = Kept(p, t)
        BY <3>2, <3>4 DEF Kept, RowsOf, Stock, Favorite
      <4>2. stocked'[<<p, t>>] = stocked[<<p, t>>]
        BY <1>1, <2>4, <3>4 DEF AddFavorite, Typed
      <4>3. QED
        BY <2>1, <3>1, <4>1, <4>2
    <3>5. QED
      BY <3>3, <3>4
  <2>5. CASE RemoveFavorite(x)
    <3>1. /\ users' = users /\ favorites' = favorites \ {Favorite(x)} /\ stocked' = stocked
          /\ Favorite(x) \in favorites
      BY <2>5 DEF RemoveFavorite
    <3>2. handler[x].id \in Ids /\ handler[x].track \in Tracks
      BY <1>1, <3>1 DEF Typed, Favorite
    <3>3. users[handler[x].id] = handler[x].who
      BY <1>1, <3>1, <3>2 DEF NothingOrphaned, Favorite, Owned, Ids
    <3>4. CASE Stock(x) = <<p, t>>
      <4>1. x \notin Removers(p, t) /\ Removers(p, t)' = Removers(p, t) \cup {x}
        BY <1>2, <2>5, <3>4 DEF Removers
      <4>2. handler[x].id \in Kept(p, t) /\ Kept(p, t)' = Kept(p, t) \ {handler[x].id}
        BY <3>1, <3>2, <3>3, <3>4 DEF Kept, RowsOf, Stock, Favorite
      <4>3. Cardinality(Removers(p, t)') = Cardinality(Removers(p, t)) + 1
        BY <2>1, <4>1, CardAdd
      <4>4. Cardinality(Kept(p, t)') = Cardinality(Kept(p, t)) - 1
        BY <2>1, <4>2, CardRemove
      <4>5. QED
        BY <2>1, <3>1, <4>3, <4>4
    <3>5. CASE Stock(x) # <<p, t>>
      <4>1. Removers(p, t)' = Removers(p, t)
        BY <1>2, <3>5 DEF Removers
      <4>2. Kept(p, t)' = Kept(p, t)
        BY <3>1, <3>3, <3>5 DEF Kept, RowsOf, Stock, Favorite
      <4>3. QED
        BY <2>1, <3>1, <4>1, <4>2
    <3>6. QED
      BY <3>4, <3>5
  <2>6. QED
    BY <2>3, <2>4, <2>5
<1>4. QED
  BY <1>2, <1>3 DEF CountInv, RemovedOnce

\* No favorite is removed twice, however many clicks saw it.
THEOREM RemovedOnceCorrect == Spec => []RemovedOnce
<1>1. IInv /\ CountInv /\ [Next]_vars => CountInv'
  <2>1. CASE UNCHANGED vars
    BY <2>1 DEF CountInv, Told, RemovedOnce, Removers, Kept, RowsOf, Stock, vars, tables
  <2>2. QED
    BY <2>1, CountStep DEF Next
<1>2. CountInv => RemovedOnce
  BY DEF CountInv
<1>3. QED
  BY <1>1, <1>2, CountInit, Inductive, PTL DEF Spec
----------------------------------------------------------------------------
\* The record of a person, read off the tables.
Picked(p) == {m \in Modes : \E i \in RowsOf(p) : settings[i] = m}
Liked(p) == {t \in Tracks : \E i \in RowsOf(p) : <<i, t>> \in favorites}
Recorded(p) == {x \in Handlers : \E i \in RowsOf(p) : <<i, x>> \in requests}
ModeOf == [p \in People |-> Picked(p)]
FavoritesBy == [p \in People |-> Liked(p)]
HistoryBy == [p \in People |-> Recorded(p)]
Registered == {p \in People : RowsOf(p) # {}}
Strays == {i \in Ids : users[i] = Nobody /\ ~Empty(i)}

\* Tables without orphans keep nothing of people without a profile.
LEMMA NoStrays == Typed /\ NothingOrphaned => Strays = {}
<1> SUFFICES ASSUME Typed, NothingOrphaned, NEW i \in Ids, users[i] = Nobody
             PROVE  Empty(i)
  BY DEF Strays
<1>1. settings[i] = "none"
  BY DEF NothingOrphaned
<1>2. FavoritesOf(i) = {}
  BY DEF NothingOrphaned, FavoritesOf, Typed
<1>3. HistoryOf(i) = {}
  BY DEF NothingOrphaned, HistoryOf, Typed
<1>4. QED
  BY <1>1, <1>2, <1>3 DEF Empty

\* Who has no row has no record.
LEMMA NothingRecorded ==
    ASSUME NEW p, RowsOf(p) = {}
    PROVE  Picked(p) = {} /\ Liked(p) = {} /\ Recorded(p) = {}
BY DEF Picked, Liked, Recorded

\* A person's record is that of one row.
LEMMA OneRow ==
    ASSUME Unique, NEW i \in Ids, users[i] # Nobody
    PROVE  RowsOf(users[i]) = {i}
BY DEF Unique, RowsOf

\* The tables start as records do.
LEMMA ProfileInit == Init => Profile!Init
<1> SUFFICES ASSUME Init PROVE Profile!Init
  OBVIOUS
<1>1. IInv
  BY InvInit
<1>2. Strays = {}
  BY <1>1, NoStrays DEF IInv
<1>3. ASSUME NEW p \in People
      PROVE  /\ Picked(p) \in {{}} \cup {{m} : m \in Modes}
             /\ Recorded(p) = {}
  <2>1. Recorded(p) = {}
    BY DEF Init, Recorded
  <2>2. CASE RowsOf(p) = {}
    BY <2>1, <2>2, NothingRecorded
  <2>3. CASE RowsOf(p) # {}
    <3>1. PICK i \in Ids : users[i] = p /\ RowsOf(p) = {i}
      BY <1>1, <2>3, OneRow DEF RowsOf, IInv
    <3>2. Picked(p) = {m \in Modes : settings[i] = m}
      BY <3>1 DEF Picked
    <3>3. QED
      BY <2>1, <3>2
  <2>4. QED
    BY <2>2, <2>3
<1>4. QED
  BY <1>2, <1>3, NothingRecorded DEF Profile!Init, Picked, Liked, Recorded, Strays

\* What is kept of the others stays while one person's data changes.
LEMMA OthersKept ==
    ASSUME IInv, NEW x \in Handlers, Step(x), NEW p \in People, p # handler[x].who
    PROVE  /\ RowsOf(p)' = RowsOf(p)
           /\ Picked(p)' = Picked(p)
           /\ Liked(p)' = Liked(p)
           /\ Recorded(p)' = Recorded(p)
<1>1. Typed /\ Owned(x) /\ handler[x] \in Locals
  BY DEF IInv, Typed
<1>2. RowsOf(p)' = RowsOf(p)
  <2>1. p # Nobody /\ \A i \in Ids : i = handler[x].id => users[i] # p
    BY <1>1 DEF Owned, Ids
  <2>2. \A i \in Ids : users'[i] = p <=> users[i] = p
    BY <1>1, <2>1, UsersStep DEF Typed
  <2>3. QED
    BY <2>2 DEF RowsOf
<1>3. \A i \in RowsOf(p) : i \in Ids /\ i # handler[x].id
  BY <1>1 DEF RowsOf, Owned, Ids
<1>4. /\ \A i \in RowsOf(p) : settings'[i] = settings[i]
      /\ \A i \in RowsOf(p), t \in Tracks : <<i, t>> \in favorites' <=> <<i, t>> \in favorites
      /\ \A i \in RowsOf(p), y \in Handlers : <<i, y>> \in requests' <=> <<i, y>> \in requests
  <2>1. CASE ~Writes(x)
    BY <2>1, OthersStep
  <2>2. CASE Writes(x)
    BY <1>1, <1>3, <2>2 DEF Writes, SaveSettings, AddFavorite, RemoveFavorite,
       InsertRequest, DeleteProfile, Favorite, Typed
  <2>3. QED
    BY <2>1, <2>2
<1>5. QED
  BY <1>2, <1>4 DEF Picked, Liked, Recorded

\* Every step of a handler is a step of its user's record, or none.
LEMMA ProfileStep ==
    ASSUME IInv, IInv', NEW x \in Handlers, Step(x)
    PROVE  [Profile!Next]_Profile!data
<1>0. /\ Typed /\ Owned(x) /\ NothingOrphaned /\ Unique /\ handler[x] \in Locals
      /\ handler[x].who \in People
  BY DEF IInv, Typed, Locals
<1>p. PICK p \in People, i \in Ids \cup {0}, t \in Tracks, m \in Modes :
         p = handler[x].who /\ i = handler[x].id /\ t = handler[x].track /\ m = handler[x].mode
  BY <1>0 DEF Locals
<1>1. Typed /\ NothingOrphaned /\ Unique /\ p # Nobody
  BY <1>0
<1>2. Strays = {} /\ Strays' = {}
  <2>1. Typed' /\ NothingOrphaned'
    BY DEF IInv
  <2>2. Strays' = {}
    BY <2>1 DEF NothingOrphaned, Strays, Empty, FavoritesOf, HistoryOf, Typed
  <2>3. QED
    BY <1>1, <2>2, NoStrays
<1>3. \A q \in People : q # p => /\ RowsOf(q)' = RowsOf(q)
                               /\ Picked(q)' = Picked(q)
                               /\ Liked(q)' = Liked(q)
                               /\ Recorded(q)' = Recorded(q)
  BY <1>p, OthersKept
<1>4. Known(i) => RowsOf(p) = {i} /\ p \in Registered
  <2>1. Known(i) => i \in Ids /\ users[i] = p
    BY <1>0, <1>p DEF Known, Owned, Ids
  <2>2. QED
    BY <1>1, <2>1, OneRow DEF Registered
<1>5. ASSUME RowsOf(p)' = RowsOf(p) PROVE Registered' = Registered
  BY <1>3, <1>5 DEF Registered
<1>6. ASSUME UNCHANGED <<users, settings, favorites, requests>>
      PROVE  UNCHANGED Profile!data
  BY <1>6 DEF Profile!data, RowsOf, Empty, FavoritesOf, HistoryOf
<1>7. CASE Create(x)
  <2>1. /\ RowsOf(p) = {} /\ nextId \in Ids /\ users[nextId] = Nobody
        /\ users' = [users EXCEPT ![nextId] = p]
        /\ UNCHANGED <<settings, favorites, requests>>
    <3>1. /\ nextId' = nextId + 1 /\ nextId \in Nat
          /\ UNCHANGED <<settings, favorites, requests>>
      BY <1>1, <1>7 DEF Create, Typed
    <3>2. nextId' # nextId
      BY <3>1
    <3>3. QED
      BY <1>p, <3>1, <3>2, UsersStep
  <2>2. RowsOf(p)' = {nextId}
    BY <1>1, <2>1 DEF RowsOf, Typed
  <2>3. Empty(nextId)
    BY <1>2, <2>1 DEF Strays
  <2>4. Picked(p)' = {} /\ Liked(p)' = {} /\ Recorded(p)' = {}
    BY <2>1, <2>2, <2>3, ModesAssumption
       DEF Picked, Liked, Recorded, Empty, FavoritesOf, HistoryOf
  <2>5. Picked(p) = {} /\ Liked(p) = {} /\ Recorded(p) = {}
    BY <2>1, NothingRecorded
  <2>6. p \notin Registered /\ Registered' = Registered \cup {p}
    BY <1>1, <1>3, <2>1, <2>2 DEF Registered
  <2>7. Profile!Open(p)
    <3>1. /\ p \notin Registered /\ ModeOf[p] = {} /\ FavoritesBy[p] = {} /\ HistoryBy[p] = {}
          /\ Registered' = Registered \cup {p}
          /\ ModeOf' = ModeOf
          /\ FavoritesBy' = FavoritesBy
          /\ HistoryBy' = HistoryBy
      BY <1>3, <1>5, <2>4, <2>5, <2>6 DEF ModeOf, FavoritesBy, HistoryBy
    <3>2. QED
      BY <1>2, <3>1
         DEF Profile!Open, Registered, Strays, ModeOf, FavoritesBy, HistoryBy, Picked, Liked, Recorded
  <2>8. QED
    BY <1>1, <2>7 DEF Profile!Next
<1>8. CASE SaveSettings(x)
  <2>1. /\ Known(i) /\ settings' = [settings EXCEPT ![i] = m]
        /\ UNCHANGED <<users, favorites, requests>>
    BY <1>8, <1>p DEF SaveSettings
  <2>2. RowsOf(p) = {i} /\ RowsOf(p)' = {i} /\ p \in Registered /\ i \in Ids
    BY <1>4, <2>1 DEF RowsOf, Known
  <2>3. m \in Modes /\ Picked(p)' = {m}
    BY <1>1, <2>1, <2>2 DEF Picked, Typed
  <2>4. Liked(p)' = Liked(p) /\ Recorded(p)' = Recorded(p)
    BY <2>1, <2>2 DEF Liked, Recorded
  <2>5. Profile!Pick(p, m)
    <3>1. /\ p \in Registered
          /\ Registered' = Registered
          /\ ModeOf' = [ModeOf EXCEPT ![p] = {m}]
          /\ FavoritesBy' = FavoritesBy
          /\ HistoryBy' = HistoryBy
      BY <1>3, <1>5, <2>2, <2>3, <2>4 DEF ModeOf, FavoritesBy, HistoryBy
    <3>2. QED
      BY <1>2, <3>1
         DEF Profile!Pick, Registered, Strays, ModeOf, FavoritesBy, HistoryBy, Picked, Liked, Recorded
  <2>6. QED
    BY <1>1, <2>3, <2>5 DEF Profile!Next
<1>9. CASE AddFavorite(x)
  <2>1. /\ Known(i) /\ favorites' = favorites \cup {<<i, t>>}
        /\ UNCHANGED <<users, settings, requests>>
    BY <1>9, <1>p DEF AddFavorite, Favorite
  <2>2. RowsOf(p) = {i} /\ RowsOf(p)' = {i} /\ p \in Registered
    BY <1>4, <2>1 DEF RowsOf
  <2>3. t \in Tracks /\ Liked(p)' = Liked(p) \cup {t}
    BY <2>1, <2>2 DEF Liked
  <2>4. Picked(p)' = Picked(p) /\ Recorded(p)' = Recorded(p)
    BY <2>1, <2>2 DEF Picked, Recorded
  <2>5. Profile!Like(p, t)
    <3>1. /\ p \in Registered
          /\ Registered' = Registered
          /\ ModeOf' = ModeOf
          /\ FavoritesBy' = [FavoritesBy EXCEPT ![p] = @ \cup {t}]
          /\ HistoryBy' = HistoryBy
      BY <1>3, <1>5, <2>2, <2>3, <2>4 DEF ModeOf, FavoritesBy, HistoryBy
    <3>2. QED
      BY <1>2, <3>1
         DEF Profile!Like, Registered, Strays, ModeOf, FavoritesBy, HistoryBy, Picked, Liked, Recorded
  <2>6. QED
    BY <1>1, <2>3, <2>5 DEF Profile!Next
<1>10. CASE RemoveFavorite(x)
  <2>1. /\ <<i, t>> \in favorites
        /\ favorites' = favorites \ {<<i, t>>}
        /\ UNCHANGED <<users, settings, requests>>
    BY <1>10, <1>p DEF RemoveFavorite, Favorite
  <2>2. i \in Ids /\ t \in Tracks
    BY <1>1, <2>1 DEF Typed
  <2>3. Known(i)
    BY <1>1, <2>1, <2>2 DEF NothingOrphaned, Known
  <2>4. RowsOf(p) = {i} /\ RowsOf(p)' = {i} /\ p \in Registered
    BY <1>4, <2>1, <2>3 DEF RowsOf
  <2>5. /\ t \in Liked(p)
        /\ Liked(p)' = Liked(p) \ {t}
    BY <2>1, <2>2, <2>4 DEF Liked
  <2>6. Picked(p)' = Picked(p) /\ Recorded(p)' = Recorded(p)
    BY <2>1, <2>4 DEF Picked, Recorded
  <2>7. Profile!Unlike(p, t)
    <3>1. /\ p \in Registered /\ t \in FavoritesBy[p]
          /\ Registered' = Registered
          /\ ModeOf' = ModeOf
          /\ FavoritesBy' = [FavoritesBy EXCEPT ![p] = @ \ {t}]
          /\ HistoryBy' = HistoryBy
      BY <1>3, <1>5, <2>4, <2>5, <2>6 DEF ModeOf, FavoritesBy, HistoryBy
    <3>2. QED
      BY <1>2, <3>1
         DEF Profile!Unlike, Registered, Strays, ModeOf, FavoritesBy, HistoryBy, Picked, Liked, Recorded
  <2>8. QED
    BY <1>1, <2>2, <2>7 DEF Profile!Next
<1>11. CASE InsertRequest(x)
  <2>1. /\ Known(i) /\ requests' = requests \cup {<<i, x>>}
        /\ UNCHANGED <<users, settings, favorites>>
    BY <1>11, <1>p DEF InsertRequest
  <2>2. RowsOf(p) = {i} /\ RowsOf(p)' = {i} /\ p \in Registered
    BY <1>4, <2>1 DEF RowsOf
  <2>3. Recorded(p)' = Recorded(p) \cup {x}
    BY <2>1, <2>2 DEF Recorded
  <2>4. Picked(p)' = Picked(p) /\ Liked(p)' = Liked(p)
    BY <2>1, <2>2 DEF Picked, Liked
  <2>5. Profile!Record(p, x)
    <3>1. /\ p \in Registered
          /\ Registered' = Registered
          /\ ModeOf' = ModeOf
          /\ FavoritesBy' = FavoritesBy
          /\ HistoryBy' = [HistoryBy EXCEPT ![p] = @ \cup {x}]
      BY <1>3, <1>5, <2>2, <2>3, <2>4 DEF ModeOf, FavoritesBy, HistoryBy
    <3>2. QED
      BY <1>2, <3>1
         DEF Profile!Record, Registered, Strays, ModeOf, FavoritesBy, HistoryBy, Picked, Liked, Recorded
  <2>6. QED
    BY <1>1, <2>5 DEF Profile!Next
<1>12. CASE DeleteProfile(x)
  <2>1. Known(i) /\ users' = [users EXCEPT ![i] = Nobody]
    BY <1>12, <1>p DEF DeleteProfile
  <2>2. RowsOf(p) = {i} /\ p \in Registered
    BY <1>4, <2>1
  <2>3. RowsOf(p)' = {}
    BY <1>1, <2>1, <2>2 DEF RowsOf, Typed
  <2>4. Picked(p)' = {} /\ Liked(p)' = {} /\ Recorded(p)' = {}
    BY <2>3 DEF Picked, Liked, Recorded
  <2>5. Registered' = Registered \ {p}
    BY <1>3, <2>3 DEF Registered
  <2>6. Profile!Erase(p)
    BY <1>1, <1>2, <1>3, <2>2, <2>4, <2>5
       DEF Profile!Erase, Registered, Strays, Picked, Liked, Recorded
  <2>7. QED
    BY <1>1, <2>6 DEF Profile!Next
<1>13. CASE ~Writes(x) /\ ~Create(x)
  <2>1. UNCHANGED <<settings, favorites, requests>>
    BY <1>13, OthersStep
  <2>2. UNCHANGED users
    BY <1>13, UsersStep DEF Writes
  <2>3. QED
    BY <1>6, <2>1, <2>2
<1>14. QED
  BY <1>7, <1>8, <1>9, <1>10, <1>11, <1>12, <1>13 DEF Writes

\* To each user the tables look like one record, opened empty by whichever handler
\* comes first, changed one entry at a time and erased as a whole by /forget, although
\* handlers go on with ids they looked up before.
THEOREM Refinement == Spec => ProfilePromise
<1>1. IInv /\ IInv' /\ [Next]_vars => [Profile!Next]_Profile!data
  <2> SUFFICES ASSUME IInv, IInv', [Next]_vars PROVE [Profile!Next]_Profile!data
    OBVIOUS
  <2>1. CASE UNCHANGED vars
    BY <2>1 DEF vars, tables, Profile!data, RowsOf, Empty, FavoritesOf, HistoryOf
  <2>2. CASE Next
    BY <2>2, ProfileStep DEF Next
  <2>3. QED
    BY <2>1, <2>2
<1>2. QED
  BY <1>1, ProfileInit, Inductive, PTL DEF Spec, ProfilePromise, Profile!Spec
=============================================================================
