--------------------------- MODULE SettingsProofs ---------------------------
(***************************************************************************)
(* Theorems about Settings, for any tokens, servers, periods, forms, keys  *)
(* and bounds: a stored secret is never lost and never in plain text       *)
(* again, a rotation as the README tells it leaves it readable, and what   *)
(* is stored is in force once a save has ended.                            *)
(***************************************************************************)
EXTENDS Settings, FiniteSetTheorems, TLAPS

(***************************************************************************)
(* The types that matter to the rows.                                      *)
(***************************************************************************)
Environment(e) == e = [k \in Keys |-> e[k]] /\ \A k \in Keys : e[k] \in Values(k) \cup {None}

Table ==
    /\ db = [k \in Keys |-> db[k]]
    /\ \A k \in Keys : db[k] \in RowOf(k) \cup {None}

\* What load_settings has read.
Read(rows) == DOMAIN rows \subseteq Keys /\ \A k \in DOMAIN rows : rows[k] \in Values(k)

\* A save that is under way has the fields of NoSave, and at each step what it needs there.
SaveFits(s) ==
    /\ s = [at |-> s.at, form |-> s.form, i |-> s.i, known |-> s.known, loaded |-> s.loaded,
            period |-> s.period, want |-> s.want]
    /\ s.at = "keys" => s.form \in Forms /\ s.i \in 1 .. 5
    /\ s.at = "set" => Read(s.loaded)

Saves(f) == f = [r \in Requests |-> f[r]]

Types ==
    /\ Table /\ Environment(env) /\ Environment(container)
    /\ deploy \in Deploys
    /\ Saves(save) /\ \A r \in Requests : SaveFits(save[r])

(***************************************************************************)
(* The first row written is never the secret: as long as the start may     *)
(* still write it there is none, and a form reaches it after its boxes.    *)
(***************************************************************************)
First == "ABS_ENABLED"

SecretAfterFirst == db[Secret] # None => db[First] # None

Filling ==
    /\ fill \in 0 .. 5
    /\ pc # "bootstrap" => fill = 0
    /\ fill \in 1 .. 3 => db[Secret] = None
    /\ fill > 1 => db[First] # None

Saving == \A r \in Requests : save[r].at = "keys" /\ save[r].i > 1 => db[First] # None

\* Under the keys of an orderly rotation: a secret that was not saved since may be sealed
\* under the previous one.
Rotation ==
    orderly /\ db[Secret] # None =>
        \/ db[Secret].seal \in {None, Master(deploy)}
        \/ stale /\ db[Secret].seal = deploy.previous

Inv == Types /\ SecretAfterFirst /\ Filling /\ Saving /\ Rotation

-----------------------------------------------------------------------------
LEMMA KeyFacts ==
    /\ First \in Keys /\ Secret \in Keys /\ First # Secret /\ First \in Toggles
    /\ Keys = {"ABS_ENABLED", "INSTANT_SYNC_ENABLED", "ABS_SERVER", "ABS_KEY", "SYNC_PERIOD_MINS"}
    /\ \A k \in Keys : Blank \in Values(k) /\ None \notin Values(k) /\ None \notin RowOf(k)
  BY SettingsAssumption DEF First, Secret, Keys, Toggles, Values

LEMMA Orders ==
    /\ Len(AllSettings) = 5 /\ Len(FormOrder) = 5
    /\ \A i \in 1 .. 5 : AllSettings[i] \in Keys /\ FormOrder[i] \in Keys
    /\ \A i \in 1 .. 5 : AllSettings[i] = First <=> i = 1
    /\ \A i \in 1 .. 5 : AllSettings[i] = Secret <=> i = 3
    /\ \A i \in 1 .. 5 : FormOrder[i] = First <=> i = 1
    /\ \A i \in 1 .. 5 : FormOrder[i] = Secret <=> i = 4
  BY DEF AllSettings, FormOrder, First, Secret, Keys, Toggles

LEMMA DefaultFits == \A k \in Keys : DefaultConfig(k) \in Values(k)
  BY SettingsAssumption, KeyFacts DEF DefaultConfig, Values, Switch, Toggles, Secret

LEMMA MasterFits == \A d \in Deploys : Master(d) \in MasterKeys \cup {None}
  BY SettingsAssumption DEF Master

\* What is written is a row, sealed if it is the secret.
LEMMA SealedFits ==
  ASSUME deploy \in Deploys, NEW k \in Keys, NEW v \in Values(k)
  PROVE  /\ Sealed(k, v) \in RowOf(k) /\ Sealed(k, v) # None
         /\ Sealed(k, v).val = v
         /\ Sealed(k, v).seal = IF k = Secret THEN Master(deploy) ELSE None
<1>1. /\ Sealed(k, v).val = v
      /\ Sealed(k, v).seal = IF k = Secret THEN Master(deploy) ELSE None
  BY DEF Sealed
<1>2. Sealed(k, v) \in RowOf(k)
  BY MasterFits DEF Sealed, RowOf
<1> QED
  BY <1>1, <1>2, KeyFacts

\* A row that is written: the table stays one, and nothing else of it changes.
LEMMA SetFits ==
  ASSUME Table, deploy \in Deploys, NEW k \in Keys, NEW v \in Values(k), SetSetting(k, v)
  PROVE  /\ Table'
         /\ db'[k] = Sealed(k, v) /\ db'[k] # None
         /\ \A j \in Keys : j # k => db'[j] = db[j]
<1>1. db' = [db EXCEPT ![k] = Sealed(k, v)]
  BY DEF SetSetting
<1>2. /\ db'[k] = Sealed(k, v)
      /\ \A j \in Keys : j # k => db'[j] = db[j]
      /\ db' = [j \in Keys |-> db'[j]]
  BY <1>1 DEF Table
<1> QED
  BY <1>2, SealedFits DEF Table

-----------------------------------------------------------------------------
(***************************************************************************)
(* Steps that leave the rows and the keys alone.                           *)
(***************************************************************************)
LEMMA NoSaveFits == SaveFits(NoSave) /\ NoSave.at = "no"
  BY DEF SaveFits, NoSave

LEMMA LoadedFits ==
  ASSUME NEW rows, Read(rows), NEW e, Environment(e)
  PROVE  Environment(Loaded(rows, e))
<1>1. \A k \in Keys : Loaded(rows, e)[k] \in Values(k) \cup {None}
  BY KeyFacts DEF Environment, Loaded, Read
<1>2. Loaded(rows, e) = [k \in Keys |-> Loaded(rows, e)[k]]
  BY DEF Loaded
<1> QED
  BY <1>1, <1>2 DEF Environment

LEMMA RowsRead == Table => Read(Rows)
<1> SUFFICES ASSUME Table PROVE Read(Rows)
  OBVIOUS
<1>1. DOMAIN Rows \subseteq AllRead /\ AllRead \subseteq Keys
  BY DEF Rows, AllRead
<1>2. ASSUME NEW k \in DOMAIN Rows PROVE Rows[k] \in Values(k)
  <2>1. k \in Keys /\ db[k] # None /\ Rows[k] = db[k].val
    BY <1>1 DEF Rows, AllRead, Readable
  <2>2. db[k] \in RowOf(k)
    BY <2>1 DEF Table
  <2> QED
    BY <2>1, <2>2 DEF RowOf
<1> QED
  BY <1>1, <1>2 DEF Read

\* The rows and keys are as before, the environment has its types, and a save that is at
\* its keys is where it was, or at the first one.
Rest ==
    /\ UNCHANGED <<db, container, deploy, orderly, stale, fill>>
    /\ pc' = pc \/ (pc # "bootstrap" /\ pc' # "bootstrap")
    /\ Environment(env')
    /\ Saves(save')
    /\ \A r \in Requests : \/ save'[r] = save[r]
                           \/ SaveFits(save'[r]) /\ (save'[r].at = "keys" => save'[r].i = 1)

LEMMA RowsRest ==
  ASSUME Inv, Rest
  PROVE  Inv'
<1>1. Types'
  <2>1. Table' /\ Environment(env') /\ Environment(container') /\ deploy' \in Deploys
    BY DEF Inv, Types, Table, Rest
  <2>2. \A r \in Requests : SaveFits(save'[r])
    BY DEF Inv, Types, Rest
  <2>3. (\A r \in Requests : SaveFits(save[r]))'
    BY <2>2
  <2> QED
    BY <2>1, <2>3 DEF Types, Environment, Rest
<1>2. SecretAfterFirst' /\ Filling'
  BY DEF Inv, SecretAfterFirst, Filling, Rest
<1>3. Saving'
  <2> SUFFICES ASSUME NEW r \in Requests, save'[r].at = "keys", save'[r].i > 1
              PROVE  db'[First] # None
    BY DEF Saving
  <2>1. save'[r] = save[r]
    BY DEF Rest
  <2> QED
    BY <2>1 DEF Inv, Saving, Rest
<1>4. Rotation'
  BY DEF Inv, Rotation, Master, Rest
<1> QED
  BY <1>1, <1>2, <1>3, <1>4 DEF Inv

\* One save moves on to a step that is not one of its keys.
LEMMA GoesOn ==
  ASSUME Inv, UNCHANGED <<db, container, deploy, orderly, stale, fill, pc>>, Environment(env'),
         NEW r \in Requests,
         save' = [save EXCEPT ![r] = save'[r]],
         SaveFits(save'[r]), save'[r].at # "keys" \/ save'[r].i = 1
  PROVE  Inv'
<1>1. Saves(save')
  BY DEF Inv, Types, Saves
<1>2. \A q \in Requests : q # r => save'[q] = save[q]
  BY DEF Inv, Types, Saves
<1>3. \A q \in Requests : \/ save'[q] = save[q]
                          \/ SaveFits(save'[q]) /\ (save'[q].at = "keys" => save'[q].i = 1)
  BY <1>2
<1>4. Rest
  BY <1>1, <1>3 DEF Rest
<1> QED
  BY <1>4, RowsRest

LEMMA StartRests ==
  ASSUME Inv, LoadAtStart \/ StartServices \/ DaemonSchedules
  PROVE  Inv'
<1>0. Environment(env) /\ Table /\ Saves(save) /\ UNCHANGED save
  BY DEF Inv, Types, LoadAtStart, StartServices, DaemonSchedules
<1>1. CASE LoadAtStart
  <2>1. Environment(env')
    BY <1>0, <1>1, RowsRead, LoadedFits DEF LoadAtStart
  <2>2. Rest
    BY <1>0, <1>1, <2>1 DEF Rest, LoadAtStart, table, services, admin
  <2> QED
    BY <2>2, RowsRest
<1>2. CASE StartServices
  <2>1. Rest
    BY <1>0, <1>2 DEF Rest, StartServices, table, admin, services
  <2> QED
    BY <2>1, RowsRest
<1>3. CASE DaemonSchedules
  <2>1. Rest
    BY <1>0, <1>3 DEF Rest, DaemonSchedules, table, admin, process
  <2> QED
    BY <2>1, RowsRest
<1> QED
  BY <1>1, <1>2, <1>3

\* A save that only goes on: every step but the keys.
LEMMA SaveRests ==
  ASSUME Inv, NEW r \in Requests,
         \/ \E f \in Forms : SaveBegins(r, f)
         \/ SaveReads(r) \/ SaveLoads(r)
         \/ ApplyClears(r) \/ ApplySchedules(r) \/ ReconcileSees(r) \/ ReconcileActs(r)
  PROVE  Inv'
<1>0. Environment(env) /\ Table /\ Saves(save) /\ SaveFits(save[r])
  BY DEF Inv, Types
<1>1. ASSUME NEW f \in Forms, SaveBegins(r, f) PROVE Inv'
  <2>1. CASE UNCHANGED save
    <3>1. Rest
      BY <1>0, <1>1, <2>1 DEF Rest, SaveBegins, table, process, services, admin
    <3> QED
      BY <3>1, RowsRest
  <2>2. CASE save' = [save EXCEPT ![r] = [NoSave EXCEPT !.at = "keys", !.form = f, !.i = 1,
                                                        !.known = AllRead]]
    <3>1. save'[r] = [NoSave EXCEPT !.at = "keys", !.form = f, !.i = 1, !.known = AllRead]
      BY <1>0, <2>2 DEF Saves
    <3>2. save'[r] = [at |-> "keys", form |-> f, i |-> 1, known |-> AllRead, loaded |-> None,
                      period |-> None, want |-> None]
      BY <3>1 DEF NoSave
    <3>3. SaveFits(save'[r]) /\ save'[r].i = 1
      BY <3>2 DEF SaveFits
    <3> QED
      BY <1>0, <1>1, <2>2, <3>1, <3>3, GoesOn DEF SaveBegins, table, process, services, admin
  <2> QED
    BY <1>1, <2>1, <2>2 DEF SaveBegins
<1>2. CASE SaveReads(r)
  <2>1. Read(Rows)
    BY <1>0, RowsRead
  <2>2. save'[r] \in {[NoSave EXCEPT !.at = "set", !.loaded = Rows], [NoSave EXCEPT !.at = "period"]}
        /\ save' = [save EXCEPT ![r] = save'[r]]
    BY <1>0, <1>2 DEF SaveReads, GoTo, Saves
  <2>3. SaveFits(save'[r]) /\ save'[r].at # "keys"
    BY <2>1, <2>2 DEF SaveFits, NoSave
  <2> QED
    BY <1>0, <1>2, <2>2, <2>3, GoesOn DEF SaveReads, table, process, services, admin
<1>3. CASE SaveLoads(r)
  <2>1. Environment(env')
    BY <1>0, <1>3, LoadedFits DEF SaveLoads, At, SaveFits
  <2>2. save'[r] = [NoSave EXCEPT !.at = "period"] /\ save' = [save EXCEPT ![r] = save'[r]]
    BY <1>0, <1>3 DEF SaveLoads, GoTo, Saves
  <2>3. SaveFits(save'[r]) /\ save'[r].at # "keys"
    BY <2>2 DEF SaveFits, NoSave
  <2> QED
    BY <1>3, <2>1, <2>2, <2>3, GoesOn DEF SaveLoads, table, services, admin
<1>4. CASE ApplyClears(r) \/ ApplySchedules(r)
  <2>1. /\ save'[r] \in {[NoSave EXCEPT !.at = "every", !.period = AppliedPeriod(env)],
                         [NoSave EXCEPT !.at = "listener"]}
        /\ save' = [save EXCEPT ![r] = save'[r]]
    BY <1>0, <1>4 DEF ApplyClears, ApplySchedules, GoTo, Saves
  <2>2. SaveFits(save'[r]) /\ save'[r].at # "keys"
    BY <2>1 DEF SaveFits, NoSave
  <2> QED
    BY <1>0, <1>4, <2>1, <2>2, GoesOn DEF ApplyClears, ApplySchedules, table, process, admin
<1>5. CASE ReconcileSees(r) \/ ReconcileActs(r)
  <2>1. /\ save'[r] \in {[NoSave EXCEPT !.at = "reconcile",
                            !.want = [run |-> ShouldRun(env), env |-> Listener(env, 0), held |-> held]],
                         [NoSave EXCEPT !.at = "no"]}
        /\ save' = [save EXCEPT ![r] = save'[r]]
    BY <1>0, <1>5 DEF ReconcileSees, ReconcileActs, Answered, GoTo, Saves
  <2>2. SaveFits(save'[r]) /\ save'[r].at # "keys"
    BY <2>1 DEF SaveFits, NoSave
  <2> QED
    BY <1>0, <1>5, <2>1, <2>2, GoesOn
       DEF ReconcileSees, ReconcileActs, table, process, services, admin
<1> QED
  BY <1>1, <1>2, <1>3, <1>4, <1>5

-----------------------------------------------------------------------------
(***************************************************************************)
(* Steps that start the process anew.                                      *)
(***************************************************************************)
LEMMA StopInv ==
  ASSUME Inv, Killed
  PROVE  Inv'
<1>1. Environment(env') /\ Saves(save') /\ fill' = 0 /\ pc' = "down"
  BY DEF Inv, Types, Killed, Saves
<1>2. (\A r \in Requests : SaveFits(save[r]) /\ save[r].at = "no")'
  BY NoSaveFits DEF Killed
<1>3. db' = db /\ container' = container /\ deploy' = deploy /\ UNCHANGED <<orderly, stale>>
  BY DEF Killed, table, admin
<1>4. Types'
  BY <1>1, <1>2, <1>3 DEF Inv, Types, Table, Environment
<1>5. SecretAfterFirst' /\ Filling' /\ Saving' /\ Rotation'
  BY <1>1, <1>2, <1>3 DEF Inv, SecretAfterFirst, Filling, Saving, Rotation, Master
<1> QED
  BY <1>4, <1>5 DEF Inv

\* The previous key of an orderly rotation is the one the secret may still be under.
LEMMA RedeployedInv ==
  ASSUME Inv, NEW d \in Deploys, NEW e \in Containers, Redeployed(d, e)
  PROVE  Inv'
<1>1. db' = db /\ save' = save /\ fill' = fill /\ fill = 0
      /\ container' = e /\ env' = e /\ deploy' = d
  BY DEF Inv, Filling, Redeployed, table, services
<1>2. Environment(e)
  BY SettingsAssumption DEF Environment
<1>3. Types'
  BY <1>1, <1>2 DEF Inv, Types, Table, Environment
<1>4. SecretAfterFirst' /\ Filling' /\ Saving'
  BY <1>1 DEF Inv, SecretAfterFirst, Filling, Saving
<1>5. Rotation'
  <2> SUFFICES ASSUME orderly', db[Secret] # None
               PROVE  \/ db[Secret].seal \in {None, Master(d)}
                      \/ stale' /\ db[Secret].seal = d.previous
    BY <1>1 DEF Rotation
  <2>1. orderly /\ AsTold(d) /\ stale' = (stale \/ Master(d) # Master(deploy))
    BY DEF Redeployed
  <2>2. \/ db[Secret].seal \in {None, Master(deploy)}
        \/ stale /\ db[Secret].seal = deploy.previous
    BY <2>1 DEF Inv, Rotation
  <2> QED
    BY <2>1, <2>2 DEF AsTold
<1> QED
  BY <1>3, <1>4, <1>5 DEF Inv

-----------------------------------------------------------------------------
(***************************************************************************)
(* Steps that write rows.                                                  *)
(***************************************************************************)

\* Writing a row keeps Rotation: a secret is sealed under the current key.
LEMMA SetRotates ==
  ASSUME Inv, NEW k \in Keys, NEW v \in Values(k), SetSetting(k, v),
         UNCHANGED <<deploy, orderly>>, k # Secret => (stale' <=> stale)
  PROVE  Rotation'
<1>1. db'[k] = Sealed(k, v) /\ \A j \in Keys : j # k => db'[j] = db[j]
  BY SetFits DEF Inv, Types
<1>2. CASE k = Secret
  <2>1. db'[Secret].seal = Master(deploy)
    BY <1>1, <1>2, SealedFits DEF Inv, Types
  <2> QED
    BY <2>1 DEF Rotation, Master
<1>3. CASE k # Secret
  <2>1. db'[Secret] = db[Secret] /\ (stale' <=> stale)
    BY <1>1, <1>3, KeyFacts
  <2> QED
    BY <2>1 DEF Inv, Rotation, Master
<1> QED
  BY <1>2, <1>3

\* The table is only filled when it has no row that can be read, so no secret: the first
\* row is never sealed.
LEMMA CheckInv ==
  ASSUME Inv, BootstrapCheck
  PROVE  Inv'
<1>1. UNCHANGED <<db, env, container, deploy, orderly, stale, save>>
  BY DEF BootstrapCheck, table, admin
<1>2. Types' /\ SecretAfterFirst' /\ Saving' /\ Rotation'
  BY <1>1 DEF Inv, Types, Table, Environment, Saves, SecretAfterFirst, Saving, Rotation, Master
<1>3. CASE ReadFails \/ AllRead # {}
  <2>1. fill' = 0 /\ pc' = "migrate"
    BY <1>3 DEF BootstrapCheck
  <2> QED
    BY <1>2, <2>1 DEF Inv, Filling
<1>4. CASE ~(ReadFails \/ AllRead # {})
  <2>1. fill' = 1 /\ pc' = "bootstrap" /\ AllRead = {}
    BY <1>4 DEF BootstrapCheck
  <2>2. db[First] # None => db[First].seal = None
    BY KeyFacts DEF Inv, Types, Table, RowOf
  <2>3. db[First] = None
    BY <2>1, <2>2, KeyFacts DEF AllRead, Readable
  <2>4. db'[Secret] = None
    BY <1>1, <2>3 DEF Inv, SecretAfterFirst
  <2> QED
    BY <1>2, <2>1, <2>4 DEF Inv, Filling
<1> QED
  BY <1>3, <1>4

\* What a fill writes is a value of its key.
LEMMA Filled ==
  ASSUME Inv, pc = "bootstrap", fill # 0
  PROVE  /\ fill \in 1 .. 5 /\ AllSettings[fill] \in Keys
         /\ (IF env[AllSettings[fill]] = None THEN DefaultConfig(AllSettings[fill])
             ELSE env[AllSettings[fill]]) \in Values(AllSettings[fill])
<1>1. fill \in 1 .. 5
  BY DEF Inv, Filling
<1>2. AllSettings[fill] \in Keys
  BY <1>1, Orders
<1> QED
  BY <1>1, <1>2, DefaultFits DEF Inv, Types, Environment

LEMMA FillInv ==
  ASSUME Inv, BootstrapKey
  PROVE  Inv'
<1> DEFINE k == AllSettings[fill]
           v == IF env[k] = None THEN DefaultConfig(k) ELSE env[k]
<1>1. /\ UNCHANGED <<env, container, deploy, orderly, stale, save>>
      /\ pc = "bootstrap" /\ fill # 0
  BY DEF BootstrapKey, admin
<1>2. fill \in 1 .. 5 /\ k \in Keys /\ v \in Values(k)
  BY <1>1, Filled
<1>3. CASE pc' = "migrate" /\ fill' = 0 /\ UNCHANGED db
  <2>1. Types' /\ SecretAfterFirst' /\ Saving' /\ Rotation'
    BY <1>1, <1>3
       DEF Inv, Types, Table, Environment, Saves, SecretAfterFirst, Saving, Rotation, Master
  <2> QED
    BY <1>3, <2>1 DEF Inv, Filling
<1>4. CASE SetSetting(k, v) /\ IF fill = 5 THEN pc' = "migrate" /\ fill' = 0
                                         ELSE pc' = pc /\ fill' = fill + 1
  <2>1. Table' /\ db'[k] # None /\ \A j \in Keys : j # k => db'[j] = db[j]
    <3> HIDE DEF k, v
    <3> QED
      BY <1>2, <1>4, SetFits DEF Inv, Types
  <2>2. Types'
    BY <1>1, <2>1 DEF Inv, Types, Environment, Saves
  <2>3. Rotation'
    <3> HIDE DEF k, v
    <3> QED
      BY <1>1, <1>2, <1>4, SetRotates
  <2>4. db'[First] # None
    <3>1. fill = 1 => k = First
      BY <1>2, Orders
    <3>2. fill > 1 => db[First] # None
      BY DEF Inv, Filling
    <3> QED
      BY <1>2, <2>1, <3>1, <3>2, KeyFacts
  <2>5. fill' \in 1 .. 3 => db'[Secret] = None
    <3>1. fill' \in 1 .. 3 => fill \in 1 .. 2
      BY <1>2, <1>4
    <3>2. fill \in 1 .. 2 => k # Secret /\ db[Secret] = None
      BY <1>2, Orders DEF Inv, Filling
    <3> QED
      BY <2>1, <3>1, <3>2, KeyFacts
  <2>6. Filling'
    BY <1>1, <1>2, <1>4, <2>4, <2>5 DEF Filling
  <2> QED
    BY <2>2, <2>3, <2>4, <2>6 DEF Inv, SecretAfterFirst, Saving
<1> QED
  BY <1>3, <1>4, Orders DEF BootstrapKey

LEMMA MigrateInv ==
  ASSUME Inv, MigrateSecrets
  PROVE  Inv'
<1>1. /\ UNCHANGED <<env, container, deploy, orderly, stale, save, fill>>
      /\ pc' = "load" /\ fill = 0
  BY DEF MigrateSecrets, admin, Inv, Filling
<1>2. CASE UNCHANGED db
  BY <1>1, <1>2 DEF Inv, Types, Table, Environment, Saves, SecretAfterFirst, Filling, Saving,
                    Rotation, Master
<1>3. CASE db[Secret] # None /\ SetSetting(Secret, db[Secret].val)
  <2>1. db[Secret].val \in Values(Secret) /\ Secret \in Keys
    BY <1>3, KeyFacts DEF Inv, Types, Table, RowOf
  <2>2. Table' /\ db'[First] = db[First]
    BY <1>3, <2>1, SetFits, KeyFacts DEF Inv, Types
  <2>3. Types'
    BY <1>1, <2>2 DEF Inv, Types, Environment, Saves
  <2>4. Rotation'
    BY <1>1, <1>3, <2>1, SetRotates
  <2>5. SecretAfterFirst' /\ Saving' /\ Filling'
    BY <1>1, <1>3, <2>2 DEF Inv, SecretAfterFirst, Saving, Filling
  <2> QED
    BY <2>3, <2>4, <2>5 DEF Inv
<1> QED
  BY <1>2, <1>3 DEF MigrateSecrets, table

\* The key of a form at which a save is.
LEMMA Submitted ==
  ASSUME Inv, NEW r \in Requests, At(r, "keys")
  PROVE  /\ save[r].form \in Forms /\ save[r].i \in 1 .. 5
         /\ FormOrder[save[r].i] \in Keys
         /\ save[r].form[FormOrder[save[r].i]] \in Values(FormOrder[save[r].i])
         /\ save[r].i = 1 => ~Keeps(r, FormOrder[save[r].i], save[r].form[FormOrder[save[r].i]])
<1>1. save[r].form \in Forms /\ save[r].i \in 1 .. 5
  BY DEF Inv, Types, SaveFits, At
<1>2. FormOrder[save[r].i] \in Keys
  BY <1>1, Orders
<1>3. save[r].i = 1 => FormOrder[save[r].i] \in Toggles
  BY <1>1, Orders, KeyFacts
<1> QED
  BY <1>1, <1>2, <1>3, SettingsAssumption DEF Keeps

\* The save goes on, to the next key or past the last one, or ends.
LEMMA KeyMoves ==
  ASSUME Inv, NEW r \in Requests, At(r, "keys"), SaveKey(r)
  PROVE  /\ Saves(save') /\ \A q \in Requests : SaveFits(save'[q])
         /\ \A q \in Requests : q # r => save'[q] = save[q]
<1>1. Saves(save) /\ \A q \in Requests : SaveFits(save[q])
  BY DEF Inv, Types
<1>2. save[r].form \in Forms /\ save[r].i \in 1 .. 5 /\ save[r].at = "keys"
  BY Submitted DEF At
<1>3. CASE GoTo(r, "load") \/ Answered(r)
  <2>1. save'[r] \in {[NoSave EXCEPT !.at = "load"], [NoSave EXCEPT !.at = "no"]}
        /\ save' = [save EXCEPT ![r] = save'[r]]
    BY <1>1, <1>3 DEF GoTo, Answered, Saves
  <2>2. SaveFits(save'[r])
    BY <2>1 DEF SaveFits, NoSave
  <2> QED
    BY <1>1, <2>1, <2>2 DEF Saves
<1>4. CASE save' = [save EXCEPT ![r].i = @ + 1] /\ save[r].i # 5
  <2>1. save'[r] = [save[r] EXCEPT !.i = save[r].i + 1]
        /\ save' = [save EXCEPT ![r] = save'[r]]
    BY <1>1, <1>4 DEF Saves
  <2>2. save'[r] = [at |-> "keys", form |-> save[r].form, i |-> save[r].i + 1,
                    known |-> save[r].known, loaded |-> save[r].loaded,
                    period |-> save[r].period, want |-> save[r].want]
    <3>1. save[r] = [at |-> save[r].at, form |-> save[r].form, i |-> save[r].i,
                     known |-> save[r].known, loaded |-> save[r].loaded,
                     period |-> save[r].period, want |-> save[r].want]
      BY <1>1 DEF SaveFits
    <3> QED
      BY <1>2, <2>1, <3>1
  <2>3. SaveFits(save'[r])
    BY <1>2, <1>4, <2>2 DEF SaveFits
  <2> QED
    BY <1>1, <2>1, <2>3 DEF Saves
<1> QED
  BY <1>2, <1>3, <1>4, Orders DEF SaveKey

LEMMA KeyInv ==
  ASSUME Inv, NEW r \in Requests, SaveKey(r)
  PROVE  Inv'
<1> DEFINE k == FormOrder[save[r].i]
           v == save[r].form[k]
<1>1. /\ UNCHANGED <<container, deploy, orderly, pc, fill>>
      /\ pc = "up" /\ fill = 0 /\ At(r, "keys")
  BY DEF SaveKey, At, admin, Inv, Filling
<1>2. /\ save[r].i \in 1 .. 5 /\ k \in Keys /\ v \in Values(k)
      /\ save[r].i = 1 => ~Keeps(r, k, v)
  BY <1>1, Submitted
<1>3. /\ Saves(save') /\ \A q \in Requests : SaveFits(save'[q])
      /\ \A q \in Requests : q # r => save'[q] = save[q]
  BY <1>1, KeyMoves
<1>4. CASE Keeps(r, k, v) /\ UNCHANGED <<db, env, stale>>
  <2>1. db[First] # None
    BY <1>1, <1>2, <1>4 DEF Inv, Saving, At
  <2>2. Types'
    BY <1>1, <1>3, <1>4 DEF Inv, Types, Table, Environment
  <2>3. Rotation' /\ Filling'
    BY <1>1, <1>4 DEF Inv, Rotation, Filling, Master
  <2> QED
    BY <1>4, <2>1, <2>2, <2>3 DEF Inv, SecretAfterFirst, Saving
<1>5. CASE /\ SetSetting(k, v) /\ env' = [env EXCEPT ![k] = v]
           /\ stale' = (stale /\ k # Secret)
  <2>1. Table' /\ db'[k] # None /\ \A j \in Keys : j # k => db'[j] = db[j]
    <3> HIDE DEF k, v
    <3> QED
      BY <1>2, <1>5, SetFits DEF Inv, Types
  <2>2. Environment(env')
    <3> HIDE DEF k, v
    <3> QED
      BY <1>2, <1>5 DEF Inv, Types, Environment
  <2>3. Types'
    BY <1>1, <1>3, <2>1, <2>2 DEF Inv, Types, Environment
  <2>4. Rotation'
    <3>1. k # Secret => (stale' <=> stale)
      BY <1>5
    <3> HIDE DEF k, v
    <3> QED
      BY <1>1, <1>2, <1>5, <3>1, SetRotates
  <2>5. db'[First] # None
    <3>1. save[r].i = 1 => k = First
      BY <1>2, Orders
    <3>2. save[r].i > 1 => db[First] # None
      BY <1>1 DEF Inv, Saving, At
    <3> QED
      BY <1>2, <2>1, <3>1, <3>2, KeyFacts
  <2> QED
    BY <1>1, <2>3, <2>4, <2>5 DEF Inv, SecretAfterFirst, Saving, Filling
<1>6. CASE Answered(r) /\ UNCHANGED <<db, env, stale>>
  <2>1. save'[r].at = "no"
    BY <1>6 DEF Answered, GoTo, NoSave, Inv, Types, Saves
  <2>2. Types'
    BY <1>1, <1>3, <1>6 DEF Inv, Types, Table, Environment
  <2>3. Saving'
    BY <1>3, <1>6, <2>1 DEF Inv, Saving
  <2> QED
    BY <1>1, <1>6, <2>2, <2>3 DEF Inv, SecretAfterFirst, Rotation, Filling, Master
<1> QED
  BY <1>4, <1>5, <1>6 DEF SaveKey

-----------------------------------------------------------------------------
(***************************************************************************)
(* The invariant, and the theorems.                                        *)
(***************************************************************************)
LEMMA InitInv == Init => Inv
<1> SUFFICES ASSUME Init PROVE Inv
  OBVIOUS
<1>1. Environment(container) /\ env = container /\ deploy \in Deploys
  BY SettingsAssumption DEF Init, Environment
<1>2. Saves(save) /\ \A r \in Requests : SaveFits(save[r]) /\ save[r].at = "no"
  BY NoSaveFits DEF Init, Saves
<1>3. Table /\ SecretAfterFirst /\ Rotation
  <2>1. CASE db = [k \in Keys |-> None]
    BY <2>1, KeyFacts DEF Table, SecretAfterFirst, Rotation
  <2>2. ASSUME NEW t \in Tokens, NEW s \in Servers,
               NEW m \in {None, deploy.previous, Master(deploy)},
               db = [k \in Keys |-> [val |-> CASE k = Secret -> t
                                               [] k = "ABS_SERVER" -> s
                                               [] OTHER -> DefaultConfig(k),
                                     seal |-> IF k = Secret THEN m ELSE None]],
               stale = (m \notin {None, Master(deploy)})
        PROVE  Table /\ SecretAfterFirst /\ Rotation
    <3> DEFINE w(k) == CASE k = Secret -> t
                         [] k = "ABS_SERVER" -> s
                         [] OTHER -> DefaultConfig(k)
    <3>1. m \in MasterKeys \cup {None}
      BY <1>1, MasterFits, SettingsAssumption
    <3>2. \A k \in Keys : w(k) \in Values(k)
      BY DefaultFits, KeyFacts DEF Values, Secret, Toggles
    <3>3. \A k \in Keys : db[k] = [val |-> w(k), seal |-> IF k = Secret THEN m ELSE None]
      BY <2>2
    <3>4. \A k \in Keys : db[k] \in RowOf(k)
      <4> SUFFICES ASSUME NEW k \in Keys PROVE db[k] \in RowOf(k)
        OBVIOUS
      <4>1. w(k) \in Values(k)
        BY <3>2
      <4>2. db[k] = [val |-> w(k), seal |-> IF k = Secret THEN m ELSE None]
        BY <3>3
      <4> HIDE DEF w
      <4> QED
        BY <3>1, <4>1, <4>2 DEF RowOf
    <3>5. Table /\ SecretAfterFirst
      BY <2>2, <3>4, KeyFacts DEF Table, SecretAfterFirst
    <3>6. db[Secret].seal = m
      BY <3>3, KeyFacts
    <3> QED
      BY <2>2, <3>5, <3>6 DEF Rotation
  <2> QED
    BY <2>1, <2>2 DEF Init
<1>4. Filling /\ Saving
  BY <1>2 DEF Init, Filling, Saving
<1> QED
  BY <1>1, <1>2, <1>3, <1>4 DEF Inv, Types

LEMMA NextInv == Inv /\ [Next]_vars => Inv'
<1> SUFFICES ASSUME Inv, [Next]_vars PROVE Inv'
  OBVIOUS
<1>1. CASE Start
  BY <1>1, CheckInv, FillInv, MigrateInv, StartRests DEF Start
<1>2. CASE DaemonSchedules
  BY <1>2, StartRests
<1>3. CASE Killed
  BY <1>3, StopInv
<1>4. ASSUME NEW r \in Requests, Save(r) PROVE Inv'
  BY <1>4, KeyInv, SaveRests DEF Save
<1>5. ASSUME NEW d \in Deploys, NEW e \in Containers, Redeployed(d, e) PROVE Inv'
  BY <1>5, RedeployedInv
<1>6. CASE UNCHANGED vars
  BY <1>6 DEF Inv, Types, Table, Environment, Saves, SecretAfterFirst, Filling, Saving, Rotation,
              Master, vars, table, process, admin
<1> QED
  BY <1>1, <1>2, <1>3, <1>4, <1>5, <1>6 DEF Next

LEMMA SettingsInvariant == Spec => []Inv
<1> QED
  BY InitInv, NextInv, PTL DEF Spec

\* SecretReadable, in every reachable state: as long as the keys were rotated as the README
\* tells, what is stored opens under the key or the previous one.
THEOREM SecretReadableCorrect == Spec => []SecretReadable
<1>1. Inv => SecretReadable
  BY DEF Inv, Rotation, SecretReadable, Readable
<1> QED
  BY <1>1, SettingsInvariant, PTL

\* Who writes the row of the secret: a save of one, and the migration.
LEMMA SecretWritten ==
  ASSUME Inv, [Next]_vars, db[Secret] # None, db'[Secret] # db[Secret]
  PROVE  /\ db'[Secret] # None /\ db'[Secret].seal # None
         /\ \/ \E r \in Requests : /\ At(r, "keys") /\ save[r].form[Secret] = db'[Secret].val
                                   /\ db'[Secret].val # Blank
            \/ /\ db'[Secret].val = db[Secret].val /\ db[Secret].seal = None
               /\ db[Secret].val \in backup'
<1>1. CASE BootstrapKey
  <2> DEFINE k == AllSettings[fill]
             v == IF env[k] = None THEN DefaultConfig(k) ELSE env[k]
  <2>1. fill \in 1 .. 5 /\ k \in Keys /\ v \in Values(k) /\ SetSetting(k, v)
    BY <1>1, Filled DEF BootstrapKey
  <2>2. k # Secret
    BY <2>1, Orders DEF Inv, Filling
  <2>3. db'[Secret] = db[Secret]
    <3> HIDE DEF k, v
    <3> QED
      BY <2>1, <2>2, SetFits, KeyFacts DEF Inv, Types
  <2> QED
    BY <2>3
<1>2. CASE MigrateSecrets
  <2>1. /\ db[Secret].seal = None /\ Master(deploy) # None /\ SetSetting(Secret, db[Secret].val)
        /\ db[Secret].val \in backup'
    BY <1>2 DEF MigrateSecrets, table
  <2>2. db[Secret].val \in Values(Secret) /\ Secret \in Keys
    BY KeyFacts DEF Inv, Types, Table, RowOf
  <2>3. db'[Secret] = Sealed(Secret, db[Secret].val) /\ db'[Secret] # None
    BY <2>1, <2>2, SetFits DEF Inv, Types
  <2> QED
    BY <2>1, <2>2, <2>3, SealedFits DEF Inv, Types
<1>3. ASSUME NEW r \in Requests, SaveKey(r)
      PROVE  /\ db'[Secret] # None /\ db'[Secret].seal # None
             /\ At(r, "keys") /\ save[r].form[Secret] = db'[Secret].val /\ db'[Secret].val # Blank
  <2> DEFINE k == FormOrder[save[r].i]
             v == save[r].form[k]
  <2>1. At(r, "keys") /\ ~Keeps(r, k, v) /\ CanSet(k) /\ SetSetting(k, v)
    BY <1>3 DEF SaveKey
  <2>2. k \in Keys /\ v \in Values(k)
    BY <2>1, Submitted
  <2>3. db'[k] = Sealed(k, v) /\ db'[k] # None /\ \A j \in Keys : j # k => db'[j] = db[j]
    <3> HIDE DEF k, v
    <3> QED
      BY <2>1, <2>2, SetFits DEF Inv, Types
  <2>4. k = Secret
    BY <2>3, KeyFacts
  <2>5. v # Blank /\ Master(deploy) # None /\ v = save[r].form[Secret]
    BY <2>1, <2>4 DEF Keeps, CanSet
  <2>6. Sealed(k, v).val = v /\ Sealed(k, v).seal = Master(deploy)
    BY <2>4 DEF Sealed
  <2> QED
    BY <2>1, <2>3, <2>4, <2>5, <2>6
<1>4. CASE BootstrapCheck \/ LoadAtStart \/ StartServices \/ DaemonSchedules \/ Killed
  BY <1>4 DEF BootstrapCheck, LoadAtStart, StartServices, DaemonSchedules, Killed, table
<1>5. ASSUME NEW r \in Requests, Save(r), ~SaveKey(r) PROVE FALSE
  BY <1>5 DEF Save, SaveBegins, SaveReads, SaveLoads, ApplyClears, ApplySchedules,
              ReconcileSees, ReconcileActs, table
<1>6. CASE (\E d \in Deploys, e \in Containers : Redeployed(d, e)) \/ UNCHANGED vars
  BY <1>6 DEF Redeployed, vars, table
<1> QED
  BY <1>1, <1>2, <1>3, <1>4, <1>5, <1>6 DEF Next, Start

\* SecretKept, of every step: a stored secret gives way only to one that a user submits or
\* to its own sealed form, behind a backup.
THEOREM SecretKeptCorrect == Spec => SecretKept
<1> DEFINE Step == LET row == db[Secret]
                       new == db'[Secret]
                   IN  row # None /\ new # row =>
                         /\ new # None /\ new.seal # None
                         /\ \/ \E r \in Requests : At(r, "keys") /\ save[r].form[Secret] = new.val
                                                   /\ new.val # Blank
                            \/ new.val = row.val /\ row.seal = None /\ row.val \in backup'
<1>1. Inv /\ [Next]_vars => [Step]_vars
  BY SecretWritten
<1> QED
  BY <1>1, SettingsInvariant, PTL DEF Spec, SecretKept

-----------------------------------------------------------------------------
(***************************************************************************)
(* What is stored is in force.  The saves of a process that do not overlap *)
(* come one after the other, each through the stages below.                *)
(***************************************************************************)
Counters ==
    /\ pc \in {"down", "bootstrap", "migrate", "load", "services", "up", "refused"}
    /\ backup \subseteq Tokens /\ container \in Containers
    /\ saves \in 0 .. MaxSaves /\ restarts \in 0 .. MaxRestarts /\ faults \in 0 .. MaxFaults

\* Nothing is scheduled, listens or saves unless the process is up.
Stopped == pc # "up" =>
    /\ sched = <<>> /\ daemon = None /\ running = {} /\ held = NoListener
    /\ \A r \in Requests : save[r] = NoSave

Accounts ==
    /\ IsFiniteSet(running) /\ running \subseteq Account /\ held \in Account
    /\ \A r \in Requests :
         save[r].at = "reconcile" => save[r].want.env \in Account /\ save[r].want.held \in Account

Alone == \A q, r \in Requests : save[q].at # "no" /\ save[r].at # "no" => q = r

\* The environment has what can be read; a save that has read the rows has them as they are.
Matches == \A k \in DOMAIN Rows : Rows[k] # Blank => env[k] = Rows[k]
Stored(r) == save[r].at = "set" => save[r].loaded = Rows

\* The cycle has the period of the environment, the listener its account.
Scheduled == Usable(AppliedPeriod(env)) => sched[1] = AppliedPeriod(env)
Listening ==
    /\ held # NoListener => SameAccount(held, env)
    /\ On(env, "ABS_ENABLED") => (held # NoListener <=> ShouldRun(env))

\* The daemon has yet to schedule its cycle, and no save has begun.
Waiting == daemon # None => Busy = {} /\ sched = <<>> /\ daemon = StartPeriod(env)
Once == daemon = None /\ (\A r \in Requests : save[r].at # "every") => Len(sched) = 1

\* What a save has brought about by the stage it is in.
Stage(r) ==
    /\ save[r].at = "every" =>
         /\ sched = <<>> /\ Usable(AppliedPeriod(env)) /\ save[r].period = AppliedPeriod(env)
    /\ save[r].at \in {"listener", "reconcile"} => Scheduled
    /\ save[r].at = "reconcile" =>
         save[r].want = [run |-> ShouldRun(env), env |-> Listener(env, 0), held |-> held]

Settled == Busy = {} /\ ~halfway => Listening /\ (daemon = None => Scheduled)

InStep == ~overlapped =>
    /\ Alone /\ \A r \in Requests : Stored(r)
    /\ pc \in {"services", "up"} /\ ~halfway => Matches
    /\ pc = "up" => /\ Waiting /\ Once /\ Settled
                    /\ \A r \in Requests : Stage(r)
                    /\ running = {held} \ {NoListener}

IInv == Inv /\ Counters /\ Stopped /\ Accounts /\ InStep

-----------------------------------------------------------------------------
LEMMA BoundFacts ==
    /\ MaxSaves \in Nat /\ MaxRestarts \in Nat /\ MaxFaults \in Nat
    /\ MaxListeners \in Nat /\ MaxListeners > 0
  BY SettingsAssumption

LEMMA SameRows == UNCHANGED <<db, deploy>> => Rows' = Rows
  BY DEF Rows, ReadFails, AllRead, Readable, Master

LEMMA CountersNext ==
  ASSUME Inv, Counters, [Next]_vars
  PROVE  Counters'
<1> USE BoundFacts
<1>1. CASE BootstrapCheck
  BY <1>1 DEF Counters, BootstrapCheck, table, admin, bounds
<1>2. CASE BootstrapKey
  BY <1>2 DEF Counters, BootstrapKey, admin, bounds, Fault, NoFault
<1>3. CASE MigrateSecrets
  <2>1. db[Secret] # None /\ db[Secret].val # Blank => db[Secret].val \in Tokens
    BY KeyFacts DEF Inv, Types, Table, RowOf, Values, Secret, Toggles
  <2> QED
    BY <1>3, <2>1 DEF Counters, MigrateSecrets, table, admin, bounds, Fault, NoFault
<1>4. CASE LoadAtStart
  BY <1>4 DEF Counters, LoadAtStart, table, admin, bounds, Fault, NoFault
<1>5. CASE StartServices
  BY <1>5 DEF Counters, StartServices, table, admin, bounds
<1>6. CASE DaemonSchedules
  BY <1>6 DEF Counters, DaemonSchedules, table, process, admin, bounds
<1>7. CASE Killed
  BY <1>7 DEF Counters, Killed, table, admin
<1>8. ASSUME NEW r \in Requests, NEW f \in Forms, SaveBegins(r, f) PROVE Counters'
  BY <1>8 DEF Counters, SaveBegins, table, process, admin
<1>9. ASSUME NEW r \in Requests, SaveKey(r) \/ SaveReads(r) \/ SaveLoads(r) PROVE Counters'
  BY <1>9 DEF Counters, SaveKey, SaveReads, SaveLoads, table, process, admin, bounds, Fault, NoFault
<1>10. ASSUME NEW r \in Requests,
              ApplyClears(r) \/ ApplySchedules(r) \/ ReconcileSees(r) \/ ReconcileActs(r)
       PROVE Counters'
  BY <1>10 DEF Counters, ApplyClears, ApplySchedules, ReconcileSees, ReconcileActs, table, process,
               admin, bounds
<1>11. ASSUME NEW d \in Deploys, NEW e \in Containers, Redeployed(d, e) PROVE Counters'
  BY <1>11 DEF Counters, Redeployed, table, bounds
<1>12. CASE UNCHANGED vars
  BY <1>12 DEF Counters, vars, table, process, admin, bounds
<1> QED
  BY <1>1, <1>2, <1>3, <1>4, <1>5, <1>6, <1>7, <1>8, <1>9, <1>10, <1>11, <1>12 DEF Next, Start, Save

LEMMA StoppedNext ==
  ASSUME Inv, Stopped, [Next]_vars
  PROVE  Stopped'
<1>1. CASE BootstrapCheck \/ BootstrapKey \/ MigrateSecrets \/ LoadAtStart
  BY <1>1 DEF Stopped, BootstrapCheck, BootstrapKey, MigrateSecrets, LoadAtStart, services
<1>2. CASE StartServices
  BY <1>2 DEF Stopped, StartServices, services
<1>3. CASE DaemonSchedules
  BY <1>3 DEF Stopped, DaemonSchedules, process
<1>4. CASE Killed
  BY <1>4 DEF Stopped, Killed
<1>5. ASSUME NEW r \in Requests, Save(r) PROVE pc' = "up"
  BY <1>5 DEF Save, At, SaveBegins, SaveKey, SaveReads, SaveLoads, ApplyClears, ApplySchedules,
              ReconcileSees, ReconcileActs, process
<1>6. ASSUME NEW d \in Deploys, NEW e \in Containers, Redeployed(d, e) PROVE Stopped'
  BY <1>6 DEF Stopped, Redeployed, services
<1>7. CASE UNCHANGED vars
  BY <1>7 DEF Stopped, vars, process, services
<1> QED
  BY <1>1, <1>2, <1>3, <1>4, <1>5, <1>6, <1>7 DEF Next, Start, Stopped

\* What a listener is started with, and an id that no other has.
LEMMA AccountFits ==
  ASSUME NEW e, Environment(e), NEW n \in 0 .. MaxListeners
  PROVE  Listener(e, n) \in Account
<1>1. /\ Str(e, "ABS_SERVER") \in Servers \cup {Blank}
      /\ Str(e, Secret) \in Tokens \cup {Blank}
  BY KeyFacts DEF Environment, Str, Values, Secret, Toggles
<1> QED
  BY <1>1 DEF Listener, Account

LEMMA FreeId ==
  ASSUME Accounts, Cardinality(running) < MaxListeners
  PROVE  \E n \in 1 .. MaxListeners : \A l \in running : l.id # n
<1> SUFFICES ASSUME \A n \in 1 .. MaxListeners : \E l \in running : l.id = n
             PROVE  FALSE
  OBVIOUS
<1> DEFINE f == [n \in 1 .. MaxListeners |-> CHOOSE l \in running : l.id = n]
<1>1. \A n \in 1 .. MaxListeners : f[n] \in running /\ f[n].id = n
  OBVIOUS
<1>2. f \in Injection(1 .. MaxListeners, running)
  <2> HIDE DEF f
  <2>1. f \in [1 .. MaxListeners -> running]
    BY <1>1 DEF f
  <2> QED
    BY <1>1, <2>1 DEF Injection, IsInjective
<1>3. IsFiniteSet(running) /\ Cardinality(running) \in Nat
  BY FS_CardinalityType DEF Accounts
<1>4. Cardinality(1 .. MaxListeners) <= Cardinality(running)
  <2> HIDE DEF f
  <2> QED
    BY <1>2, <1>3, FS_Injection
<1>5. Cardinality(1 .. MaxListeners) = MaxListeners
  BY BoundFacts, FS_Interval
<1> QED
  BY <1>3, <1>4, <1>5, BoundFacts

\* Where a save is after one of its keys.
LEMMA SaveKeyAt ==
  ASSUME Saves(save), NEW r \in Requests, SaveKey(r)
  PROVE  /\ save' = [save EXCEPT ![r] = save'[r]]
         /\ save'[r].at \in {"keys", "load", "no"}
<1>1. save[r].at = "keys"
  BY DEF SaveKey, At
<1>2. CASE save' = [save EXCEPT ![r].i = @ + 1]
  <2>1. save'[r] = [save[r] EXCEPT !.i = save[r].i + 1] /\ save' = [save EXCEPT ![r] = save'[r]]
    BY <1>2 DEF Saves
  <2> QED
    BY <1>1, <2>1
<1>3. CASE GoTo(r, "load") \/ Answered(r)
  BY <1>3 DEF GoTo, Answered, Saves, NoSave
<1> QED
  BY <1>2, <1>3 DEF SaveKey

LEMMA AccountsNext ==
  ASSUME Inv, Counters, Stopped, Accounts, [Next]_vars
  PROVE  Accounts'
<1>0. Environment(env) /\ Saves(save)
  BY DEF Inv, Types
<1>1. CASE BootstrapCheck \/ BootstrapKey \/ MigrateSecrets \/ LoadAtStart \/ DaemonSchedules
  BY <1>1 DEF Accounts, BootstrapCheck, BootstrapKey, MigrateSecrets, LoadAtStart, DaemonSchedules,
              services
<1>2. CASE StartServices
  <2>1. Listener(env, 1) \in Account
    BY <1>0, BoundFacts, AccountFits
  <2>2. NoListener \in Account
    BY BoundFacts DEF NoListener, Account
  <2>3. UNCHANGED save
    BY <1>2 DEF StartServices
  <2>4. CASE UNCHANGED services
    BY <2>3, <2>4 DEF Accounts, services
  <2>5. CASE /\ held' = IF ShouldRun(env) /\ On(env, "ABS_ENABLED") THEN Listener(env, 1)
                         ELSE NoListener
             /\ running' = IF held' = NoListener THEN running ELSE running \cup {held'}
    <3>1. held' \in Account
      BY <2>1, <2>2, <2>5
    <3>2. IsFiniteSet(running')
      BY <2>5, FS_AddElement DEF Accounts
    <3>3. running' \subseteq Account
      BY <2>5, <3>1 DEF Accounts
    <3> QED
      BY <2>3, <3>1, <3>2, <3>3 DEF Accounts
  <2> QED
    BY <1>2, <2>4, <2>5 DEF StartServices
<1>3. CASE Killed
  <2>1. IsFiniteSet({}) /\ NoListener \in Account
    BY FS_EmptySet, BoundFacts DEF NoListener, Account
  <2>2. \A r \in Requests : save'[r].at = "no"
    BY <1>3, NoSaveFits DEF Killed
  <2> QED
    BY <1>3, <2>1, <2>2 DEF Accounts, Killed
<1>4. ASSUME NEW r \in Requests, UNCHANGED <<running, held>>, save' = [save EXCEPT ![r] = save'[r]],
             save'[r].at # "reconcile" \/ (save'[r].want.env \in Account /\ save'[r].want.held \in Account)
      PROVE  Accounts'
  <2>1. \A q \in Requests : q # r => save'[q] = save[q]
    BY <1>0, <1>4 DEF Saves
  <2> QED
    BY <1>4, <2>1 DEF Accounts
<1>5. ASSUME NEW r \in Requests, NEW f \in Forms, SaveBegins(r, f) PROVE Accounts'
  <2>1. CASE UNCHANGED save
    BY <1>5, <2>1 DEF Accounts, SaveBegins, services
  <2>2. CASE save' = [save EXCEPT ![r] = [NoSave EXCEPT !.at = "keys", !.form = f, !.i = 1,
                                                        !.known = AllRead]]
    <3>1. save'[r].at = "keys" /\ save' = [save EXCEPT ![r] = save'[r]]
      BY <1>0, <2>2 DEF Saves, NoSave
    <3> QED
      BY <1>4, <1>5, <3>1 DEF SaveBegins, services
  <2> QED
    BY <1>5, <2>1, <2>2 DEF SaveBegins
<1>6. ASSUME NEW r \in Requests, SaveKey(r) PROVE Accounts'
  <2>1. save[r].at = "keys" /\ UNCHANGED <<running, held>>
    BY <1>6 DEF SaveKey, At, services
  <2>2. /\ save' = [save EXCEPT ![r] = save'[r]]
        /\ save'[r].at \in {"keys", "load", "no"}
    BY <1>0, <1>6, <2>1, SaveKeyAt
  <2> QED
    BY <1>4, <2>1, <2>2
<1>7. ASSUME NEW r \in Requests,
             SaveReads(r) \/ SaveLoads(r) \/ ApplyClears(r) \/ ApplySchedules(r)
      PROVE  Accounts'
  <2>1. /\ save' = [save EXCEPT ![r] = save'[r]]
        /\ save'[r].at # "reconcile"
    BY <1>0, <1>7 DEF SaveReads, SaveLoads, ApplyClears, ApplySchedules, GoTo, Saves, NoSave
  <2>2. UNCHANGED <<running, held>>
    BY <1>7 DEF SaveReads, SaveLoads, ApplyClears, ApplySchedules, services
  <2> QED
    BY <1>4, <2>1, <2>2
<1>8. ASSUME NEW r \in Requests, ReconcileSees(r) PROVE Accounts'
  <2>1. /\ save' = [save EXCEPT ![r] = save'[r]]
        /\ save'[r].want = [run |-> ShouldRun(env), env |-> Listener(env, 0), held |-> held]
    BY <1>0, <1>8 DEF ReconcileSees, Saves, NoSave
  <2>2. Listener(env, 0) \in Account /\ held \in Account
    BY <1>0, BoundFacts, AccountFits DEF Accounts
  <2>3. save'[r].want.env \in Account /\ save'[r].want.held \in Account
    BY <2>1, <2>2
  <2>4. UNCHANGED <<running, held>>
    BY <1>8 DEF ReconcileSees, services
  <2> QED
    BY <1>4, <2>1, <2>3, <2>4
<1>9. ASSUME NEW r \in Requests, ReconcileActs(r) PROVE Accounts'
  <2> DEFINE w == save[r].want
             n == CHOOSE n \in 1 .. MaxListeners : \A l \in running : l.id # n
             new == [w.env EXCEPT !.id = n]
  <2>1. n \in 1 .. MaxListeners
    BY <1>9, FreeId DEF ReconcileActs
  <2>2. w.env \in Account /\ w.held \in Account
    BY <1>9 DEF ReconcileActs, At, Accounts
  <2>3. new \in Account
    <3> HIDE DEF n, w
    <3> QED
      BY <2>1, <2>2, BoundFacts DEF Account
  <2>4. save' = [save EXCEPT ![r] = save'[r]] /\ save'[r].at = "no"
    BY <1>0, <1>9 DEF ReconcileActs, Answered, GoTo, Saves, NoSave
  <2>5. \A q \in Requests : q # r => save'[q] = save[q]
    BY <1>0, <2>4 DEF Saves
  <2>6. CASE UNCHANGED <<running, held>>
    BY <1>4, <2>4, <2>6
  <2>7. CASE /\ held' = IF w.run THEN new ELSE NoListener
             /\ running' = (running \ {w.held}) \cup (IF w.run THEN {new} ELSE {})
    <3>1. NoListener \in Account
      BY BoundFacts DEF NoListener, Account
    <3> HIDE DEF new, w
    <3>2. held' \in Account /\ running' \subseteq Account
      BY <2>3, <2>7, <3>1 DEF Accounts
    <3>3. IsFiniteSet(running \ {w.held})
      BY FS_RemoveElement DEF Accounts
    <3>4. IsFiniteSet((running \ {w.held}) \cup {new})
      BY <3>3, FS_AddElement
    <3>5. IsFiniteSet(running')
      BY <2>7, <3>3, <3>4
    <3> QED
      BY <2>4, <2>5, <3>2, <3>5 DEF Accounts
  <2> QED
    BY <1>9, <2>6, <2>7 DEF ReconcileActs
<1>10. CASE (\E d \in Deploys, e \in Containers : Redeployed(d, e)) \/ UNCHANGED vars
  BY <1>10 DEF Accounts, Redeployed, vars, services
<1> QED
  BY <1>1, <1>2, <1>3, <1>5, <1>6, <1>7, <1>8, <1>9, <1>10 DEF Next, Start, Save

-----------------------------------------------------------------------------
(***************************************************************************)
(* Each step keeps InStep.                                                 *)
(***************************************************************************)

\* While the process is not up, or about to be.
LEMMA DownInStep ==
  ASSUME Stopped', pc' \notin {"services", "up"}
  PROVE  InStep'
<1>1. \A r \in Requests : save'[r].at = "no"
  BY NoSaveFits DEF Stopped
<1> QED
  BY <1>1 DEF InStep, Alone, Stored

LEMMA LoadInStep ==
  ASSUME Inv, Stopped', LoadAtStart
  PROVE  InStep'
<1>1. /\ pc' = "services" /\ Rows' = Rows
      /\ \A r \in Requests : save'[r].at = "no"
  BY NoSaveFits, SameRows DEF LoadAtStart, table, admin, Stopped
<1>2. env' = Loaded(Rows, env) => Matches'
  <2> SUFFICES ASSUME env' = Loaded(Rows, env), NEW k \in DOMAIN Rows, Rows[k] # Blank
               PROVE  env'[k] = Rows[k]
    BY <1>1 DEF Matches
  <2>1. k \in Keys
    BY RowsRead DEF Inv, Types, Read
  <2> QED
    BY <2>1 DEF Loaded
<1>3. env' = Loaded(Rows, env) \/ halfway'
  BY DEF LoadAtStart
<1> QED
  BY <1>1, <1>2, <1>3 DEF InStep, Alone, Stored

LEMMA ServicesInStep ==
  ASSUME Inv, Stopped, InStep, Stopped', StartServices
  PROVE  InStep'
<1>1. CASE pc' = "refused"
  BY <1>1, DownInStep
<1>2. CASE pc' # "refused"
  <2>1. /\ pc = "services" /\ pc' = "up" /\ daemon' = StartPeriod(env)
        /\ held' = IF ShouldRun(env) /\ On(env, "ABS_ENABLED") THEN Listener(env, 1) ELSE NoListener
        /\ running' = IF held' = NoListener THEN running ELSE running \cup {held'}
        /\ UNCHANGED <<db, deploy, env, save, sched, overlapped, halfway>>
    BY <1>2 DEF StartServices, table, admin, marks
  <2>2. /\ sched = <<>> /\ running = {}
        /\ \A r \in Requests : save'[r] = NoSave /\ save'[r].at = "no"
    BY <2>1, NoSaveFits DEF Stopped
  <2>3. Rows' = Rows /\ (~overlapped' /\ ~halfway' => Matches')
    BY <2>1, SameRows DEF InStep, Matches
  <2>4. Listening'
    <3>1. Listener(env, 1) # NoListener /\ SameAccount(Listener(env, 1), env)
      BY DEF Listener, NoListener, SameAccount
    <3> QED
      BY <2>1, <3>1 DEF Listening
  <2>5. Waiting' /\ running' = {held'} \ {NoListener} /\ daemon' # None
    <3>1. StartPeriod(env) # None
      BY KeyFacts, SettingsAssumption DEF StartPeriod, DefaultConfig, Keys, Values, Secret, Toggles
    <3> QED
      BY <2>1, <2>2, <3>1 DEF Waiting, Busy
  <2>6. Alone' /\ Once' /\ Settled' /\ \A r \in Requests : Stored(r)' /\ Stage(r)'
    BY <2>2, <2>4, <2>5 DEF Alone, Once, Settled, Stored, Stage
  <2> QED
    BY <2>1, <2>3, <2>5, <2>6 DEF InStep
<1> QED
  BY <1>1, <1>2

\* A period of use is what the daemon reads too.
LEMMA DaemonInStep ==
  ASSUME Inv, Stopped, InStep, DaemonSchedules
  PROVE  InStep'
<1>1. /\ daemon # None /\ sched' = Append(sched, daemon) /\ daemon' = None /\ pc = "up"
      /\ UNCHANGED <<db, deploy, env, pc, save, running, held, overlapped, halfway>>
  BY DEF DaemonSchedules, table, admin, marks, process, Stopped
<1> SUFFICES ASSUME ~overlapped PROVE InStep'
  BY <1>1 DEF InStep
<1>2. /\ Busy = {} /\ sched = <<>> /\ daemon = StartPeriod(env)
      /\ \A r \in Requests : save'[r].at = "no"
  BY <1>1 DEF InStep, Waiting, Busy
<1>3. sched' = <<StartPeriod(env)>>
  BY <1>1, <1>2
<1>4. Scheduled' /\ Len(sched') = 1
  BY <1>1, <1>3 DEF Scheduled, Usable, AppliedPeriod, StartPeriod
<1>5. Alone' /\ Once' /\ Waiting' /\ \A r \in Requests : Stored(r)' /\ Stage(r)'
  BY <1>1, <1>2, <1>4 DEF Alone, Once, Waiting, Stored, Stage
<1>6. Settled'
  BY <1>1, <1>2, <1>4 DEF InStep, Settled, Listening
<1>7. ~halfway' => Matches'
  BY <1>1, SameRows DEF InStep, Matches
<1> QED
  BY <1>1, <1>5, <1>6, <1>7 DEF InStep

\* One save of its own: what is to be shown of the step it takes.
Reached(r) ==
    /\ Stored(r) /\ Stage(r)
    /\ ~halfway => Matches
    /\ save[r].at # "every" => Len(sched) = 1
    /\ save[r].at = "no" /\ ~halfway => Listening /\ Scheduled
    /\ running = {held} \ {NoListener}

LEMMA SaveInStep ==
  ASSUME Inv, InStep, NEW r \in Requests, pc = "up", save[r].at # "no",
         save' = [save EXCEPT ![r] = save'[r]], UNCHANGED <<pc, daemon, overlapped>>,
         ~overlapped => Reached(r)'
  PROVE  InStep'
<1> SUFFICES ASSUME ~overlapped PROVE InStep'
  BY DEF InStep
<1>1. \A q \in Requests : q # r => save'[q] = save[q] /\ save[q].at = "no"
  BY DEF InStep, Alone, Inv, Types, Saves
<1>2. daemon = None
  BY DEF InStep, Waiting, Busy
<1>3. Reached(r)'
  OBVIOUS
<1>4. Alone' /\ \A q \in Requests : Stored(q)' /\ Stage(q)'
  <2>1. Alone'
    BY <1>1 DEF Alone
  <2>2. ASSUME NEW q \in Requests PROVE Stored(q)' /\ Stage(q)'
    BY <1>1, <1>3 DEF Reached, Stored, Stage
  <2> QED
    BY <2>1, <2>2
<1>5. Waiting' /\ Once'
  BY <1>2, <1>3 DEF Waiting, Once, Reached
<1>6. Settled'
  BY <1>3 DEF Settled, Reached, Busy
<1> QED
  BY <1>3, <1>4, <1>5, <1>6 DEF InStep, Reached

\* The same of the state before the step.
LEMMA SaveAlone ==
  ASSUME InStep, ~overlapped, NEW r \in Requests, pc = "up", save[r].at # "no"
  PROVE  /\ Stored(r) /\ Stage(r) /\ daemon = None
         /\ ~halfway => Matches
         /\ save[r].at # "every" => Len(sched) = 1
         /\ running = {held} \ {NoListener}
<1>1. daemon = None
  BY DEF InStep, Waiting, Busy
<1>2. save[r].at # "every" => \A q \in Requests : save[q].at # "every"
  BY DEF InStep, Alone
<1> QED
  BY <1>1, <1>2 DEF InStep, Once

LEMMA BeginInStep ==
  ASSUME Inv, InStep, NEW r \in Requests, NEW f \in Forms, SaveBegins(r, f)
  PROVE  InStep'
<1>0. /\ pc = "up" /\ save[r].at = "no" /\ Saves(save)
      /\ UNCHANGED <<db, deploy, env, pc, sched, daemon, running, held, halfway>>
  BY DEF SaveBegins, At, table, process, services, admin, Inv, Types
<1>1. CASE UNCHANGED <<save, overlapped>>
  BY <1>0, <1>1, SameRows
     DEF InStep, Alone, Stored, Matches, Waiting, Once, Settled, Stage, Scheduled, Listening, Busy
<1>2. CASE /\ save' = [save EXCEPT ![r] = [NoSave EXCEPT !.at = "keys", !.form = f, !.i = 1,
                                                         !.known = AllRead]]
           /\ overlapped' = (overlapped \/ Busy # {} \/ daemon # None)
  <2> SUFFICES ASSUME ~overlapped' PROVE InStep'
    BY DEF InStep
  <2>1. ~overlapped /\ Busy = {} /\ daemon = None
    BY <1>2
  <2>2. /\ save'[r].at = "keys"
        /\ \A q \in Requests : q # r => save'[q] = save[q] /\ save[q].at = "no"
    BY <1>0, <1>2, <2>1 DEF Saves, NoSave, Busy
  <2>3. Len(sched) = 1
    BY <1>0, <2>1, <2>2 DEF InStep, Once, Busy
  <2>4. Alone' /\ Waiting' /\ Once' /\ Settled'
    BY <1>0, <2>1, <2>2, <2>3 DEF Alone, Waiting, Once, Settled, Busy
  <2>5. \A q \in Requests : Stored(q)' /\ Stage(q)'
    <3> SUFFICES ASSUME NEW q \in Requests PROVE Stored(q)' /\ Stage(q)'
      OBVIOUS
    <3>1. save'[q].at \in {"keys", "no"}
      BY <2>2
    <3> QED
      BY <3>1 DEF Stored, Stage
  <2>6. ~halfway' => Matches'
    BY <1>0, <2>1, SameRows DEF InStep, Matches
  <2> QED
    BY <1>0, <2>1, <2>4, <2>5, <2>6 DEF InStep
<1> QED
  BY <1>1, <1>2 DEF SaveBegins

\* A row that is written can be read again, and the environment is given the same value.
LEMMA KeyMatches ==
  ASSUME Inv, Matches, NEW k \in Keys, NEW v \in Values(k), CanSet(k), SetSetting(k, v),
         env' = [env EXCEPT ![k] = v], UNCHANGED deploy
  PROVE  Matches'
<1>1. /\ db'[k] = Sealed(k, v) /\ db'[k] # None /\ db'[k].val = v
      /\ \A j \in Keys : j # k => db'[j] = db[j]
  BY SetFits, SealedFits DEF Inv, Types
<1>2. env'[k] = v /\ \A j \in Keys : j # k => env'[j] = env[j]
  BY DEF Inv, Types, Environment
<1> SUFFICES ASSUME NEW j \in DOMAIN Rows', Rows'[j] # Blank PROVE env'[j] = Rows'[j]
  BY DEF Matches
<1>3. j \in Keys /\ Readable(db[j])' /\ ~ReadFails' /\ Rows'[j] = db'[j].val
  BY DEF Rows, AllRead
<1>4. CASE j = k
  BY <1>1, <1>2, <1>3, <1>4
<1>5. CASE j # k
  <2>1. db'[j] = db[j] /\ env'[j] = env[j]
    BY <1>1, <1>2, <1>3, <1>5
  <2>2. ~ReadFails
    BY <1>1, <1>3, KeyFacts DEF ReadFails, CanSet, Master
  <2>3. Readable(db[j])
    BY <1>3, <2>1 DEF Readable, Master
  <2>4. j \in DOMAIN Rows /\ Rows[j] = db[j].val
    BY <1>3, <2>2, <2>3 DEF Rows, AllRead
  <2> QED
    BY <1>3, <2>1, <2>4 DEF Matches
<1> QED
  BY <1>4, <1>5

LEMMA KeyInStep ==
  ASSUME Inv, InStep, NEW r \in Requests, SaveKey(r)
  PROVE  InStep'
<1> DEFINE k == FormOrder[save[r].i]
           v == save[r].form[k]
<1>1. /\ pc = "up" /\ save[r].at = "keys" /\ At(r, "keys")
      /\ UNCHANGED <<pc, deploy, sched, daemon, running, held, overlapped>>
  BY DEF SaveKey, At, services, admin
<1>2. k \in Keys /\ v \in Values(k)
  BY <1>1, Submitted
<1>3. save' = [save EXCEPT ![r] = save'[r]] /\ save'[r].at \in {"keys", "load", "no"}
  BY SaveKeyAt DEF Inv, Types
<1>4. \/ UNCHANGED <<db, env>> /\ halfway' = TRUE
      \/ /\ UNCHANGED halfway /\ save'[r].at # "no"
         /\ \/ UNCHANGED <<db, env>>
            \/ CanSet(k) /\ SetSetting(k, v) /\ env' = [env EXCEPT ![k] = v]
  <2>1. GoTo(r, "load") => save'[r].at # "no"
    BY DEF GoTo, NoSave, Inv, Types, Saves
  <2>2. save' = [save EXCEPT ![r].i = @ + 1] => save'[r].at # "no"
    <3> SUFFICES ASSUME save' = [save EXCEPT ![r].i = @ + 1] PROVE save'[r].at # "no"
      OBVIOUS
    <3>1. save'[r] = [save[r] EXCEPT !.i = save[r].i + 1]
      BY DEF Inv, Types, Saves
    <3>2. save[r] = [at |-> save[r].at, form |-> save[r].form, i |-> save[r].i,
                     known |-> save[r].known, loaded |-> save[r].loaded,
                     period |-> save[r].period, want |-> save[r].want]
      BY DEF Inv, Types, SaveFits
    <3>3. save'[r].at = save[r].at
      BY <3>1, <3>2
    <3> QED
      BY <1>1, <3>3
  <2>3. CASE Keeps(r, k, v) /\ UNCHANGED <<db, env, stale, halfway>>
             /\ (GoTo(r, "load") \/ save' = [save EXCEPT ![r].i = @ + 1])
    BY <2>1, <2>2, <2>3
  <2>4. CASE /\ CanSet(k) /\ SetSetting(k, v) /\ env' = [env EXCEPT ![k] = v] /\ UNCHANGED halfway
             /\ (GoTo(r, "load") \/ save' = [save EXCEPT ![r].i = @ + 1])
    BY <2>1, <2>2, <2>4
  <2>5. CASE halfway' = TRUE /\ UNCHANGED <<db, env, stale>>
    BY <2>5
  <2> QED
    BY <2>3, <2>4, <2>5 DEF SaveKey
<1>5. ASSUME ~overlapped, ~halfway' PROVE Matches'
  <2>1. UNCHANGED halfway
    BY <1>4, <1>5
  <2>2. Matches
    BY <1>1, <1>5, <2>1 DEF InStep
  <2>3. CASE UNCHANGED <<db, env>>
    BY <1>1, <2>2, <2>3, SameRows DEF Matches
  <2>4. CASE CanSet(k) /\ SetSetting(k, v) /\ env' = [env EXCEPT ![k] = v]
    <3> HIDE DEF k, v
    <3> QED
      BY <1>1, <1>2, <2>2, <2>4, KeyMatches
  <2> QED
    BY <1>4, <1>5, <2>3, <2>4
<1>6. ~overlapped => Reached(r)'
  <2> SUFFICES ASSUME ~overlapped PROVE Reached(r)'
    OBVIOUS
  <2>1. Len(sched') = 1 /\ running' = {held'} \ {NoListener}
    BY <1>1, SaveAlone
  <2>2. Stored(r)' /\ Stage(r)'
    BY <1>3 DEF Stored, Stage
  <2> QED
    BY <1>3, <1>4, <1>5, <2>1, <2>2 DEF Reached
<1> QED
  BY <1>1, <1>3, <1>6, SaveInStep

LEMMA ReadsInStep ==
  ASSUME Inv, InStep, NEW r \in Requests, SaveReads(r)
  PROVE  InStep'
<1>1. /\ pc = "up" /\ save[r].at = "load"
      /\ UNCHANGED <<db, deploy, env, pc, sched, daemon, running, held, overlapped, halfway>>
  BY DEF SaveReads, At, table, process, services, admin, marks
<1>2. /\ save' = [save EXCEPT ![r] = save'[r]]
      /\ \/ save'[r].at = "set" /\ save'[r].loaded = Rows
         \/ save'[r].at = "period"
  BY DEF SaveReads, GoTo, NoSave, Inv, Types, Saves
<1>3. ~overlapped => Reached(r)'
  <2> SUFFICES ASSUME ~overlapped PROVE Reached(r)'
    OBVIOUS
  <2>1. /\ ~halfway => Matches
        /\ Len(sched) = 1 /\ running = {held} \ {NoListener}
    BY <1>1, SaveAlone
  <2>2. Rows' = Rows
    BY <1>1, SameRows
  <2>3. Stored(r)' /\ Stage(r)' /\ (~halfway' => Matches')
    BY <1>1, <1>2, <2>1, <2>2 DEF Stored, Stage, Matches
  <2> QED
    BY <1>1, <1>2, <2>1, <2>3 DEF Reached
<1> QED
  BY <1>1, <1>2, <1>3, SaveInStep

\* The environment is made of the rows as they still are.
LEMMA LoadsInStep ==
  ASSUME Inv, InStep, NEW r \in Requests, SaveLoads(r)
  PROVE  InStep'
<1>1. /\ pc = "up" /\ save[r].at = "set" /\ env' = Loaded(save[r].loaded, env)
      /\ UNCHANGED <<db, deploy, pc, sched, daemon, running, held, overlapped>>
  BY DEF SaveLoads, At, table, services, admin
<1>2. save' = [save EXCEPT ![r] = save'[r]] /\ save'[r].at = "period"
  BY DEF SaveLoads, GoTo, NoSave, Inv, Types, Saves
<1>3. ~overlapped => Reached(r)'
  <2> SUFFICES ASSUME ~overlapped PROVE Reached(r)'
    OBVIOUS
  <2>1. /\ save[r].loaded = Rows
        /\ Len(sched) = 1 /\ running = {held} \ {NoListener}
    BY <1>1, SaveAlone DEF Stored
  <2>2. Rows' = Rows
    BY <1>1, SameRows
  <2>3. Matches'
    <3> SUFFICES ASSUME NEW k \in DOMAIN Rows, Rows[k] # Blank PROVE env'[k] = Rows[k]
      BY <2>2 DEF Matches
    <3>1. k \in Keys
      BY RowsRead DEF Inv, Types, Read
    <3> QED
      BY <1>1, <2>1, <3>1 DEF Loaded
  <2>4. Stored(r)' /\ Stage(r)'
    BY <1>2 DEF Stored, Stage
  <2> QED
    BY <1>1, <1>2, <2>1, <2>3, <2>4 DEF Reached
<1> QED
  BY <1>1, <1>2, <1>3, SaveInStep

LEMMA ClearsInStep ==
  ASSUME Inv, InStep, NEW r \in Requests, ApplyClears(r)
  PROVE  InStep'
<1>1. /\ pc = "up" /\ save[r].at = "period"
      /\ UNCHANGED <<db, deploy, env, pc, daemon, running, held, overlapped, halfway>>
  BY DEF ApplyClears, At, table, process, admin, marks
<1>2. save' = [save EXCEPT ![r] = save'[r]]
  BY DEF ApplyClears, GoTo, Inv, Types, Saves
<1>3. \/ /\ Usable(AppliedPeriod(env)) /\ sched' = <<>>
         /\ save'[r].at = "every" /\ save'[r].period = AppliedPeriod(env)
      \/ ~Usable(AppliedPeriod(env)) /\ save'[r].at = "listener" /\ UNCHANGED sched
  BY DEF ApplyClears, GoTo, NoSave, Inv, Types, Saves
<1>4. ~overlapped => Reached(r)'
  <2> SUFFICES ASSUME ~overlapped PROVE Reached(r)'
    OBVIOUS
  <2>1. /\ ~halfway => Matches
        /\ Len(sched) = 1 /\ running = {held} \ {NoListener}
    BY <1>1, SaveAlone
  <2>2. Stored(r)' /\ (~halfway' => Matches')
    BY <1>1, <1>3, <2>1, SameRows DEF Stored, Matches
  <2>3. Stage(r)'
    BY <1>1, <1>3 DEF Stage, Scheduled
  <2> QED
    BY <1>1, <1>3, <2>1, <2>2, <2>3 DEF Reached
<1> QED
  BY <1>1, <1>2, <1>4, SaveInStep

LEMMA SchedulesInStep ==
  ASSUME Inv, InStep, NEW r \in Requests, ApplySchedules(r)
  PROVE  InStep'
<1>1. /\ pc = "up" /\ save[r].at = "every" /\ sched' = Append(sched, save[r].period)
      /\ UNCHANGED <<db, deploy, env, pc, daemon, running, held, overlapped, halfway>>
  BY DEF ApplySchedules, At, table, process, admin, marks
<1>2. save' = [save EXCEPT ![r] = save'[r]] /\ save'[r].at = "listener"
  BY DEF ApplySchedules, GoTo, NoSave, Inv, Types, Saves
<1>3. ~overlapped => Reached(r)'
  <2> SUFFICES ASSUME ~overlapped PROVE Reached(r)'
    OBVIOUS
  <2>1. /\ ~halfway => Matches
        /\ sched = <<>> /\ save[r].period = AppliedPeriod(env)
        /\ running = {held} \ {NoListener}
    BY <1>1, SaveAlone DEF Stage
  <2>2. sched' = <<AppliedPeriod(env)>>
    BY <1>1, <2>1
  <2>3. Scheduled' /\ Len(sched') = 1
    BY <1>1, <2>2 DEF Scheduled
  <2>4. Stored(r)' /\ Stage(r)' /\ (~halfway' => Matches')
    BY <1>1, <1>2, <2>1, <2>3, SameRows DEF Stored, Stage, Matches
  <2> QED
    BY <1>1, <1>2, <2>1, <2>3, <2>4 DEF Reached
<1> QED
  BY <1>1, <1>2, <1>3, SaveInStep

LEMMA SeesInStep ==
  ASSUME Inv, InStep, NEW r \in Requests, ReconcileSees(r)
  PROVE  InStep'
<1>1. /\ pc = "up" /\ save[r].at = "listener"
      /\ UNCHANGED <<db, deploy, env, pc, sched, daemon, running, held, overlapped, halfway>>
  BY DEF ReconcileSees, At, table, process, services, admin, marks
<1>2. /\ save' = [save EXCEPT ![r] = save'[r]] /\ save'[r].at = "reconcile"
      /\ save'[r].want = [run |-> ShouldRun(env), env |-> Listener(env, 0), held |-> held]
  BY DEF ReconcileSees, NoSave, Inv, Types, Saves
<1>3. ~overlapped => Reached(r)'
  <2> SUFFICES ASSUME ~overlapped PROVE Reached(r)'
    OBVIOUS
  <2>1. /\ ~halfway => Matches
        /\ Scheduled /\ Len(sched) = 1
        /\ running = {held} \ {NoListener}
    BY <1>1, SaveAlone DEF Stage
  <2>2. Stage(r)'
    BY <1>1, <1>2, <2>1 DEF Stage, Scheduled
  <2>3. Stored(r)' /\ (~halfway' => Matches')
    BY <1>1, <1>2, <2>1, SameRows DEF Stored, Matches
  <2> QED
    BY <1>1, <1>2, <2>1, <2>2, <2>3 DEF Reached
<1> QED
  BY <1>1, <1>2, <1>3, SaveInStep

\* A listener that goes on has the account that was seen, and so has a new one.
LEMMA ActsInStep ==
  ASSUME Inv, Accounts, InStep, NEW r \in Requests, ReconcileActs(r)
  PROVE  InStep'
<1> DEFINE w == save[r].want
           n == CHOOSE n \in 1 .. MaxListeners : \A l \in running : l.id # n
           new == [w.env EXCEPT !.id = n]
<1>1. /\ pc = "up" /\ save[r].at = "reconcile"
      /\ UNCHANGED <<db, deploy, env, pc, sched, daemon, overlapped, halfway>>
      /\ \/ (w.run <=> w.held # NoListener) /\ ~Changed(w) /\ UNCHANGED <<running, held>>
         \/ /\ ~(w.run <=> w.held # NoListener) \/ Changed(w)
            /\ held' = IF w.run THEN new ELSE NoListener
            /\ running' = (running \ {w.held}) \cup (IF w.run THEN {new} ELSE {})
  BY DEF ReconcileActs, At, table, process, admin, marks
<1>2. save' = [save EXCEPT ![r] = save'[r]] /\ save'[r].at = "no"
  BY DEF ReconcileActs, Answered, GoTo, NoSave, Inv, Types, Saves
<1>3. n \in 1 .. MaxListeners
  BY FreeId DEF ReconcileActs
<1>4. ~overlapped => Reached(r)'
  <2> SUFFICES ASSUME ~overlapped PROVE Reached(r)'
    OBVIOUS
  <2>1. /\ ~halfway => Matches
        /\ Scheduled /\ Len(sched) = 1
        /\ running = {held} \ {NoListener}
        /\ w = [run |-> ShouldRun(env), env |-> Listener(env, 0), held |-> held]
    BY <1>1, SaveAlone DEF Stage
  <2>2. /\ w.run = ShouldRun(env) /\ w.held = held
        /\ w.env.server = Str(env, "ABS_SERVER") /\ w.env.key = Str(env, Secret)
        /\ new = [id |-> n, server |-> Str(env, "ABS_SERVER"), key |-> Str(env, Secret)]
    <3> HIDE DEF n
    <3> QED
      BY <2>1 DEF Listener
  <2>3. new # NoListener /\ SameAccount(new, env)
    <3> HIDE DEF n, w
    <3> QED
      BY <1>3, <2>2, BoundFacts DEF NoListener, SameAccount
  <2>4. Listening' /\ running' = {held'} \ {NoListener}
    <3> HIDE DEF new, w
    <3>1. CASE (w.run <=> w.held # NoListener) /\ ~Changed(w) /\ UNCHANGED <<running, held>>
      BY <1>1, <2>1, <2>2, <3>1 DEF Listening, SameAccount, Changed
    <3>2. CASE /\ held' = IF w.run THEN new ELSE NoListener
               /\ running' = (running \ {w.held}) \cup (IF w.run THEN {new} ELSE {})
      BY <1>1, <2>1, <2>2, <2>3, <3>2 DEF Listening, SameAccount
    <3> QED
      BY <1>1, <3>1, <3>2
  <2>5. Stored(r)' /\ Stage(r)' /\ Scheduled' /\ (~halfway' => Matches')
    BY <1>1, <1>2, <2>1, SameRows DEF Stored, Stage, Scheduled, Matches
  <2> QED
    BY <1>1, <1>2, <2>1, <2>4, <2>5 DEF Reached
<1> QED
  BY <1>1, <1>2, <1>4, SaveInStep

LEMMA InStepNext ==
  ASSUME Inv, Stopped, Stopped', Accounts, InStep, [Next]_vars
  PROVE  InStep'
<1>1. CASE BootstrapCheck \/ BootstrapKey \/ MigrateSecrets
  <2>1. pc' \in {"bootstrap", "migrate", "load"}
    BY <1>1 DEF BootstrapCheck, BootstrapKey, MigrateSecrets
  <2> QED
    BY <2>1, DownInStep
<1>2. CASE LoadAtStart \/ StartServices \/ DaemonSchedules
  BY <1>2, LoadInStep, ServicesInStep, DaemonInStep
<1>3. CASE Killed \/ \E d \in Deploys, e \in Containers : Redeployed(d, e)
  <2>1. pc' \in {"down", "bootstrap"}
    BY <1>3 DEF Killed, Redeployed
  <2> QED
    BY <2>1, DownInStep
<1>4. ASSUME NEW r \in Requests, Save(r) PROVE InStep'
  BY <1>4, BeginInStep, KeyInStep, ReadsInStep, LoadsInStep, ClearsInStep, SchedulesInStep,
     SeesInStep, ActsInStep DEF Save
<1>5. CASE UNCHANGED vars
  <2>1. UNCHANGED <<db, deploy, env, pc, save, sched, daemon, running, held, overlapped, halfway>>
    BY <1>5 DEF vars, table, process, services, admin, marks
  <2>2. Rows' = Rows
    BY <2>1, SameRows
  <2> QED
    BY <2>1, <2>2 DEF InStep, Alone, Stored, Matches, Waiting, Once, Settled, Stage, Scheduled,
                      Listening, Busy
<1> QED
  BY <1>1, <1>2, <1>3, <1>4, <1>5 DEF Next, Start

LEMMA InitIInv == Init => IInv
<1> SUFFICES ASSUME Init PROVE IInv
  OBVIOUS
<1>1. Counters
  BY BoundFacts DEF Init, Counters
<1>2. Stopped
  BY DEF Init, Stopped
<1>3. Accounts
  <2>1. IsFiniteSet({}) /\ NoListener \in Account
    BY FS_EmptySet, BoundFacts DEF NoListener, Account
  <2>2. \A r \in Requests : save[r].at = "no"
    BY NoSaveFits DEF Init
  <2> QED
    BY <2>1, <2>2 DEF Init, Accounts
<1>4. InStep
  <2>1. pc = "bootstrap" /\ \A r \in Requests : save[r].at = "no"
    BY NoSaveFits DEF Init
  <2> QED
    BY <2>1 DEF InStep, Alone, Stored
<1> QED
  BY <1>1, <1>2, <1>3, <1>4, InitInv DEF IInv

\* InForce, in every reachable state: once a save has come to its end and none overlapped
\* it, the environment, the schedule and the listener are those of the stored settings.
THEOREM InForceCorrect == Spec => []InForce
<1>1. IInv /\ [Next]_vars => IInv'
  BY NextInv, CountersNext, StoppedNext, AccountsNext, InStepNext DEF IInv
<1>2. IInv => InForce
  <2> SUFFICES ASSUME IInv PROVE InForce
    OBVIOUS
  <2>1. TypeOK
    <3>1. \A r \in Requests : save[r] # NoSave => pc = "up"
      BY DEF IInv, Stopped
    <3>2. fill \in 0 .. Len(AllSettings)
      BY Orders DEF IInv, Inv, Filling
    <3> QED
      BY <3>1, <3>2 DEF IInv, Inv, Types, Table, Environment, Counters, Accounts, TypeOK
  <2>2. ASSUME pc = "up", Busy = {}, daemon = None, ~overlapped, ~halfway
        PROVE  /\ Matches /\ Len(sched) = 1 /\ Scheduled /\ Listening
               /\ running = {held} \ {NoListener}
    <3>1. \A r \in Requests : save[r].at # "every"
      BY <2>2 DEF Busy
    <3> QED
      BY <2>2, <3>1 DEF IInv, InStep, Once, Settled
  <2> QED
    BY <2>1, <2>2 DEF InForce, Matches, Scheduled, Listening
<1> QED
  BY <1>1, <1>2, InitIInv, PTL DEF Spec
=============================================================================
