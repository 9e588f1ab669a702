----------------------------- MODULE UserStore -----------------------------
(***************************************************************************)
(* The handlers that read and write what the bot keeps of a user, running  *)
(* concurrently: users.go, commands.go, callbacks.go and createRequest of  *)
(* internal/adapter/telegram over the tables users, user_settings,         *)
(* favorites and requests, with their keys and cascades. Each statement is *)
(* atomic; nothing holds from one statement to the next.                   *)
(*                                                                         *)
(* Names and languages of users are left out, and so are tracks, which     *)
(* nothing deletes. A request row's own life is that of MediaJob.          *)
(***************************************************************************)
EXTENDS Integers, FiniteSets

CONSTANTS
    Handlers,  \* messages, commands and clicks
    People,    \* Telegram users
    Tracks,    \* tracks whose button a user may press
    Modes,     \* output modes a user may pick
    MayFail,   \* whether a statement may fail without a reason in the data
    Nobody     \* no Telegram user

ASSUME ModesAssumption == "full" \in Modes /\ "none" \notin Modes
ASSUME NobodyAssumption == Nobody \notin People
ASSUME MayFailAssumption == MayFail \in BOOLEAN
ASSUME HandlersAssumption == IsFiniteSet(Handlers)

VARIABLES
    handler,    \* the locals of each handler's goroutine
    users,      \* telegram_id by id
    nextId,     \* the AUTOINCREMENT counter of users
    settings,   \* output_mode by user id, "none" for no row
    favorites,  \* pairs of user id and track
    requests,   \* pairs of user id and the handler that inserted the row
    told,       \* what each handler answered
    stocked     \* history: how many rows of favorites there ever were

tables == <<users, nextId, settings, favorites, requests>>
vars == <<handler, tables, told, stocked>>

\* One id for each handler that may create a user, and one from before.
Ids == 1 .. Cardinality(Handlers) + 1

Kinds == {"list", "settings", "mode", "favorite", "message", "forget"}
Places == {"new", "renaming", "creating", "reading", "saving", "checking", "toggling",
           "inserting", "deleting", "over"}
Answers == {"none", "shown", "saved", "added", "removed", "forgotten", "failed"}

Locals == [pc : Places, kind : Kinds, who : People, id : Ids \cup {0}, mode : Modes,
           track : Tracks, seen : BOOLEAN]

\* What may come in; only a click on a mode carries one.
Fresh == {l \in Locals : /\ l.pc = "new" /\ l.id = 0 /\ ~l.seen
                         /\ l.mode # "full" => l.kind = "mode"}

At(x, pc) == handler[x].pc = pc
Is(x, kind) == handler[x].kind = kind
Goto(x, pc) == handler' = [handler EXCEPT ![x].pc = pc]

\* The handler returns with this answer; its locals are gone.
Answer(x, what) ==
    /\ handler' = [handler EXCEPT ![x].pc = "over", ![x].id = 0, ![x].seen = FALSE]
    /\ told' = [told EXCEPT ![x] = what]
Return(x) == Answer(x, told[x])

RowsOf(person) == {i \in Ids : users[i] = person}
Known(i) == i \in Ids /\ users[i] # Nobody

\* What a handler does once ensureUser has given it a user.
Entry(kind) ==
    CASE kind = "list" -> "over"
      [] kind \in {"settings", "mode"} -> "reading"
      [] kind = "favorite" -> "checking"
      [] kind = "message" -> "inserting"
----------------------------------------------------------------------------
\* The bot has run before: one user may be known, with settings and favorites.
Init ==
    /\ handler \in [Handlers -> Fresh]
    /\ \E first \in People \cup {Nobody} :
          /\ users = [i \in Ids |-> IF i = 1 THEN first ELSE Nobody]
          /\ nextId = IF first = Nobody THEN 1 ELSE 2
          /\ \E m \in IF first = Nobody THEN {"none"} ELSE Modes \cup {"none"} :
                settings = [i \in Ids |-> IF i = 1 THEN m ELSE "none"]
          /\ favorites \in SUBSET (IF first = Nobody THEN {} ELSE {1} \X Tracks)
    /\ requests = {}
    /\ told = [x \in Handlers |-> "none"]
    /\ stocked = [s \in People \X Tracks |->
                      IF \E i \in RowsOf(s[1]) : <<i, s[2]>> \in favorites THEN 1 ELSE 0]

\* ensureUser: look the user up by telegram_id ...
Lookup(x) ==
    /\ At(x, "new") /\ ~Is(x, "forget")
    /\ IF RowsOf(handler[x].who) # {}
       THEN \E i \in RowsOf(handler[x].who) :
                handler' = [handler EXCEPT ![x].pc = "renaming", ![x].id = i]
       ELSE Goto(x, "creating")
    /\ UNCHANGED <<tables, told, stocked>>

\* ... any error counts as an unknown user ...
LookupFails(x) ==
    /\ MayFail /\ At(x, "new") /\ ~Is(x, "forget")
    /\ Goto(x, "creating")
    /\ UNCHANGED <<tables, told, stocked>>

\* ... store the names again, whatever becomes of it ...
Rename(x) ==
    /\ At(x, "renaming")
    /\ Goto(x, Entry(handler[x].kind))
    /\ UNCHANGED <<tables, told, stocked>>

\* ... or insert a row, whose id was never used before. The mutant reuses the
\* largest free id.
CreateReusingId(x) ==
    /\ At(x, "creating") /\ RowsOf(handler[x].who) = {}
    /\ LET free == {i \in Ids : i < nextId /\ users[i] = Nobody}
           id == IF free = {} THEN nextId ELSE CHOOSE i \in free : \A k \in free : k <= i
       IN /\ users' = [users EXCEPT ![id] = handler[x].who]
          /\ nextId' = IF free = {} THEN nextId + 1 ELSE nextId
          /\ handler' = [handler EXCEPT ![x].id = id, ![x].pc = Entry(handler[x].kind)]
    /\ UNCHANGED <<settings, favorites, requests, told, stocked>>

Create(x) ==
    /\ At(x, "creating") /\ RowsOf(handler[x].who) = {}
    /\ users' = [users EXCEPT ![nextId] = handler[x].who]
    /\ nextId' = nextId + 1
    /\ handler' = [handler EXCEPT ![x].id = nextId, ![x].pc = Entry(handler[x].kind)]
    /\ UNCHANGED <<settings, favorites, requests, told, stocked>>

\* Without a user a command answers with an error, and a click or a message not
\* at all; the message is processed without a row.
CreateFails(x) ==
    /\ At(x, "creating") /\ (MayFail \/ RowsOf(handler[x].who) # {})
    /\ Answer(x, IF handler[x].kind \in {"list", "settings"} THEN "failed" ELSE "none")
    /\ UNCHANGED <<tables, stocked>>

----------------------------------------------------------------------------
\* /settings and the mode buttons. Both take any error of the read for a missing
\* row. The buttons carry only modes that parse. The mutant goes on with what it
\* found instead of the default.
ReadSettingsAsIs(x) ==
    /\ At(x, "reading")
    /\ IF Is(x, "settings")
       THEN IF settings[handler[x].id] # "none"
            THEN Answer(x, "shown")
            ELSE /\ handler' = [handler EXCEPT ![x].pc = "saving", ![x].mode = "none"]
                 /\ UNCHANGED told
       ELSE Goto(x, "saving") /\ UNCHANGED told
    /\ UNCHANGED <<tables, stocked>>

ReadSettings(x) ==
    /\ At(x, "reading")
    /\ IF Is(x, "settings") /\ settings[handler[x].id] # "none"
       THEN Answer(x, "shown")
       ELSE Goto(x, "saving") /\ UNCHANGED told
    /\ UNCHANGED <<tables, stocked>>

ReadSettingsFails(x) ==
    /\ MayFail /\ At(x, "reading")
    /\ Goto(x, "saving")
    /\ UNCHANGED <<tables, told, stocked>>

\* The whole row is written, under the key that the user exists.
SaveSettings(x) ==
    /\ At(x, "saving") /\ Known(handler[x].id)
    /\ settings' = [settings EXCEPT ![handler[x].id] = handler[x].mode]
    /\ Answer(x, IF Is(x, "mode") THEN "saved" ELSE "shown")
    /\ UNCHANGED <<users, nextId, favorites, requests, stocked>>

SaveSettingsFails(x) ==
    /\ At(x, "saving") /\ (MayFail \/ ~Known(handler[x].id))
    /\ Answer(x, IF Is(x, "mode") THEN "failed" ELSE "shown")
    /\ UNCHANGED <<tables, stocked>>

----------------------------------------------------------------------------
\* The favorite button: look, then delete or add.
Favorite(x) == <<handler[x].id, handler[x].track>>
Stock(x) == <<handler[x].who, handler[x].track>>

CheckFavorite(x) ==
    /\ At(x, "checking")
    /\ handler' = [handler EXCEPT ![x].pc = "toggling",
                                  ![x].seen = Favorite(x) \in favorites]
    /\ UNCHANGED <<tables, told, stocked>>

CheckFails(x) ==
    /\ MayFail /\ At(x, "checking")
    /\ Return(x)
    /\ UNCHANGED <<tables, stocked>>

\* An insert that meets the row does nothing and is a success.
AddFavorite(x) ==
    /\ At(x, "toggling") /\ ~handler[x].seen /\ Known(handler[x].id)
    /\ favorites' = favorites \cup {Favorite(x)}
    /\ stocked' = IF Favorite(x) \in favorites THEN stocked
                  ELSE [stocked EXCEPT ![Stock(x)] = @ + 1]
    /\ Answer(x, "added")
    /\ UNCHANGED <<users, nextId, settings, requests>>

\* A delete that meets no row is an error. The mutant does not look.
RemoveUnchecked(x) ==
    /\ At(x, "toggling") /\ handler[x].seen
    /\ favorites' = favorites \ {Favorite(x)}
    /\ Answer(x, "removed")
    /\ UNCHANGED <<users, nextId, settings, requests, stocked>>

RemoveFavorite(x) ==
    /\ At(x, "toggling") /\ handler[x].seen /\ Favorite(x) \in favorites
    /\ favorites' = favorites \ {Favorite(x)}
    /\ Answer(x, "removed")
    /\ UNCHANGED <<users, nextId, settings, requests, stocked>>

ToggleFails(x) ==
    /\ At(x, "toggling")
    /\ MayFail \/ (IF handler[x].seen THEN Favorite(x) \notin favorites
                                      ELSE ~Known(handler[x].id))
    /\ Answer(x, "failed")
    /\ UNCHANGED <<tables, stocked>>

----------------------------------------------------------------------------
\* createRequest; the job goes on with its row or without.
InsertRequest(x) ==
    /\ At(x, "inserting") /\ Known(handler[x].id)
    /\ requests' = requests \cup {<<handler[x].id, x>>}
    /\ Return(x)
    /\ UNCHANGED <<users, nextId, settings, favorites, stocked>>

InsertFails(x) ==
    /\ At(x, "inserting") /\ (MayFail \/ ~Known(handler[x].id))
    /\ Return(x)
    /\ UNCHANGED <<tables, stocked>>

\* /forget: find the user; no user is success, and so is a failed look ...
FindProfile(x) ==
    /\ At(x, "new") /\ Is(x, "forget")
    /\ IF RowsOf(handler[x].who) # {}
       THEN \E i \in RowsOf(handler[x].who) :
                /\ handler' = [handler EXCEPT ![x].pc = "deleting", ![x].id = i]
                /\ UNCHANGED told
       ELSE Answer(x, "forgotten")
    /\ UNCHANGED <<tables, stocked>>

FindFails(x) ==
    /\ MayFail /\ At(x, "new") /\ Is(x, "forget")
    /\ Answer(x, "forgotten")
    /\ UNCHANGED <<tables, stocked>>

\* ... and delete the row, with all that hangs on it. The mutant leaves the
\* history.
DeleteKeepsHistory(x) ==
    /\ At(x, "deleting") /\ Known(handler[x].id)
    /\ users' = [users EXCEPT ![handler[x].id] = Nobody]
    /\ settings' = [settings EXCEPT ![handler[x].id] = "none"]
    /\ favorites' = {f \in favorites : f[1] # handler[x].id}
    /\ Answer(x, "forgotten")
    /\ UNCHANGED <<nextId, requests, stocked>>

DeleteProfile(x) ==
    /\ At(x, "deleting") /\ Known(handler[x].id)
    /\ users' = [users EXCEPT ![handler[x].id] = Nobody]
    /\ settings' = [settings EXCEPT ![handler[x].id] = "none"]
    /\ favorites' = {f \in favorites : f[1] # handler[x].id}
    /\ requests' = {r \in requests : r[1] # handler[x].id}
    /\ Answer(x, "forgotten")
    /\ UNCHANGED <<nextId, stocked>>

DeleteFails(x) ==
    /\ At(x, "deleting") /\ (MayFail \/ ~Known(handler[x].id))
    /\ Answer(x, "failed")
    /\ UNCHANGED <<tables, stocked>>

Step(x) ==
    \/ Lookup(x) \/ LookupFails(x) \/ Rename(x) \/ Create(x) \/ CreateFails(x)
    \/ ReadSettings(x) \/ ReadSettingsFails(x) \/ SaveSettings(x) \/ SaveSettingsFails(x)
    \/ CheckFavorite(x) \/ CheckFails(x) \/ AddFavorite(x) \/ RemoveFavorite(x)
    \/ ToggleFails(x) \/ InsertRequest(x) \/ InsertFails(x)
    \/ FindProfile(x) \/ FindFails(x) \/ DeleteProfile(x) \/ DeleteFails(x)

Next == \E x \in Handlers : Step(x)

Spec == Init /\ [][Next]_vars
----------------------------------------------------------------------------
\* Every variable keeps its type.
TypeOK ==
    /\ handler \in [Handlers -> Locals]
    /\ users \in [Ids -> People \cup {Nobody}]
    /\ nextId \in 1 .. Cardinality(Handlers) + 2
    /\ settings \in [Ids -> Modes \cup {"none"}]
    /\ favorites \subseteq Ids \X Tracks
    /\ requests \subseteq Ids \X Handlers
    /\ told \in [Handlers -> Answers]
    /\ stocked \in [People \X Tracks -> Nat]

\* A Telegram user has one profile, although every handler may create one.
OneProfile == \A p \in People : Cardinality(RowsOf(p)) <= 1

\* What hangs on a profile is gone with it, and no handler that looked the user
\* up before /forget brings any of it back.
NothingOrphaned ==
    \A i \in Ids : users[i] = Nobody =>
        /\ settings[i] = "none"
        /\ \A t \in Tracks : <<i, t>> \notin favorites
        /\ \A x \in Handlers : <<i, x>> \notin requests

FavoritesOf(i) == {f \in favorites : f[1] = i}
HistoryOf(i) == {r \in requests : r[1] = i}

\* A handler changes settings, favorites and history of its own user only,
\* however stale the id that it looked up.
OwnDataOnly ==
    [][\A x \in Handlers, i \in Ids :
          /\ handler'[x] # handler[x]
          /\ \/ settings'[i] # settings[i]
             \/ FavoritesOf(i)' # FavoritesOf(i)
             \/ HistoryOf(i)' # HistoryOf(i)
          => users[i] = handler[x].who]_vars

\* Together the tables keep the promise of Profiles: ids, cascades and statements of
\* handlers that know nothing of each other look like one record per person.
Empty(i) == settings[i] = "none" /\ FavoritesOf(i) = {} /\ HistoryOf(i) = {}
Profile == INSTANCE Profiles WITH
    known <- {p \in People : RowsOf(p) # {}},
    mode <- [p \in People |-> {m \in Modes : \E i \in RowsOf(p) : settings[i] = m}],
    liked <- [p \in People |-> {t \in Tracks : \E i \in RowsOf(p) : <<i, t>> \in favorites}],
    history <- [p \in People |-> {x \in Handlers : \E i \in RowsOf(p) : <<i, x>> \in requests}],
    strays <- {i \in Ids : users[i] = Nobody /\ ~Empty(i)}
ProfilePromise == Profile!Spec

\* Who was told that it removed p's favorite t, and where that is kept now.
Removers(p, t) == {x \in Handlers : told[x] = "removed" /\ Stock(x) = <<p, t>>}
Kept(p, t) == {i \in RowsOf(p) : <<i, t>> \in favorites}

\* A favorite is removed once: of two clicks that both saw it, one is told that
\* it removed it.
RemovedOnce ==
    \A p \in People, t \in Tracks :
        Cardinality(Removers(p, t)) + Cardinality(Kept(p, t)) <= stocked[<<p, t>>]

\* messages.go:37 tells the user that the setting was saved: a saved mode is
\* changed by another click or by /forget, never by looking at the settings.
SavedModeKept ==
    [][\A x \in Handlers, i \in Ids :
          handler'[x] # handler[x] /\ Is(x, "settings") /\ settings[i] # "none" =>
              settings'[i] = settings[i]]_vars
=============================================================================
