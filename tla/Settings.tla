------------------------------- MODULE Settings -------------------------------
(***************************************************************************)
(* The settings: their rows in the database with the secrets sealed, the   *)
(* environment that the process reads them from, and what follows from     *)
(* them at run time: the schedule of the sync cycle and the listener on    *)
(* the socket of ABS.  A start fills an empty table from the container's   *)
(* environment, seals secrets of older versions, and loads the table into  *)
(* the environment; the settings page saves a form key by key, loads again *)
(* and applies the result.  Saves may overlap, calls may fail, and the     *)
(* process may be killed and be given other keys or another environment.   *)
(***************************************************************************)
EXTENDS Naturals, Integers, FiniteSets, Sequences

CONSTANTS
    Tokens,      \* ABS tokens a user may enter
    Servers,     \* ABS servers
    Periods,     \* the numbers a user may enter as the sync period
    Forms,       \* the forms a user may save
    Containers,  \* the environments a container may be given
    MasterKeys,  \* master secrets
    FileKey,     \* the one in the data directory
    Deploys,     \* the keys a container may be given
    Requests,    \* saves under way
    Blank,       \* the empty string
    Junk,        \* a period that is no number
    None,
    MaxSaves, MaxRestarts, MaxFaults, MaxListeners

\* One setting of each kind that the code treats differently.
Toggles == {"ABS_ENABLED", "INSTANT_SYNC_ENABLED"}
Secret == "ABS_KEY"
Keys == Toggles \cup {"ABS_SERVER", Secret, "SYNC_PERIOD_MINS"}
Switch == {"true", "false"}
Values(k) == (CASE k \in Toggles -> Switch
                [] k = "ABS_SERVER" -> Servers
                [] k = Secret -> Tokens
                [] OTHER -> Periods \cup {Junk}) \cup {Blank}

\* The order of ALL_SETTINGS, and of the form: toggles first.
AllSettings == <<"ABS_ENABLED", "ABS_SERVER", Secret, "SYNC_PERIOD_MINS", "INSTANT_SYNC_ENABLED">>
FormOrder == <<"ABS_ENABLED", "INSTANT_SYNC_ENABLED", "ABS_SERVER", Secret, "SYNC_PERIOD_MINS">>

DefaultConfig(k) == CASE k \in Toggles -> "true"
                      [] k = "SYNC_PERIOD_MINS" -> 5
                      [] OTHER -> Blank

\* A row: its value, and the master secret that sealed it.
RowOf(k) == [val : Values(k), seal : {None} \cup IF k = Secret THEN MasterKeys ELSE {}]

ASSUME SettingsAssumption ==
    /\ Periods \subseteq Int /\ 5 \in Periods /\ FileKey \in MasterKeys
    /\ \A f \in Forms : /\ DOMAIN f = Keys /\ \A k \in Keys : f[k] \in Values(k)
                        /\ \A k \in Toggles : f[k] \in Switch    \* a box is ticked or not
    /\ \A e \in Containers : /\ e = [k \in Keys |-> e[k]]
                             /\ \A k \in Keys : e[k] \in Values(k) \cup {None}
    /\ Deploys \subseteq [explicit : MasterKeys \cup {None}, previous : MasterKeys \cup {None},
                          writable : BOOLEAN]
    /\ Blank \notin Switch
    /\ None \notin MasterKeys
    /\ \A k \in Keys : None \notin Values(k) \cup RowOf(k)
    /\ {MaxSaves, MaxRestarts, MaxFaults} \subseteq Nat /\ MaxListeners \in Nat \ {0}

VARIABLES
    db,          \* the rows: [val, seal], or None
    backup,      \* the secrets in backups of the database
    env,         \* os.environ of the process
    container,   \* what the container sets of it
    deploy,      \* the keys the container is given
    pc,          \* where the process is
    fill,        \* how far the table is filled from the environment
    save,        \* the save of each request
    sched,       \* the periods of the scheduled sync cycles
    daemon,      \* the period the daemon thread is to schedule, or None
    running,     \* the socket listeners that run
    held,        \* the one in app.config
    orderly,     \* history: the keys were only rotated as the README tells
    stale,       \* history: the secret was not saved since the last rotation
    overlapped,  \* history: saves of this process overlapped each other or the start
    halfway,     \* history: a start or a save ended half-way, and none was whole since
    saves, restarts, faults

table == <<db, backup>>
process == <<env, pc, fill>>
services == <<sched, daemon, running, held>>
admin == <<container, deploy, orderly>>
marks == <<overlapped, halfway>>
bounds == <<saves, restarts, faults>>
vars == <<table, process, services, admin, stale, save, marks, bounds>>

NoSave == [at |-> "no", form |-> None, i |-> 0, known |-> {}, loaded |-> None, period |-> None,
           want |-> None]
NoListener == [id |-> 0, server |-> Blank, key |-> Blank]

\* get_settings_master_secret: never a key that would be gone after a restart.
Master(d) == IF d.explicit # None THEN d.explicit ELSE IF d.writable THEN FileKey ELSE None

\* A new installation; one that an older version left with its token in plain text; one
\* whose token is sealed under the current or, in the midst of a rotation, the previous key.
Init ==
    /\ container \in Containers /\ deploy \in Deploys
    /\ \/ db = [k \in Keys |-> None] /\ stale = FALSE
       \/ \E t \in Tokens, s \in Servers, m \in {None, deploy.previous, Master(deploy)} :
             /\ db = [k \in Keys |-> [val |-> CASE k = Secret -> t
                                               [] k = "ABS_SERVER" -> s
                                               [] OTHER -> DefaultConfig(k),
                                      seal |-> IF k = Secret THEN m ELSE None]]
             /\ stale = (m \notin {None, Master(deploy)})
    /\ backup = {} /\ env = container /\ pc = "bootstrap" /\ fill = 0
    /\ save = [r \in Requests |-> NoSave]
    /\ sched = <<>> /\ daemon = None /\ running = {} /\ held = NoListener
    /\ orderly = TRUE /\ overlapped = FALSE /\ halfway = FALSE
    /\ saves = 0 /\ restarts = 0 /\ faults = 0

(***************************************************************************)
(* The repository and the encryption.                                      *)
(***************************************************************************)

\* Mutant: written under the first key that may decrypt.
SealUnderPrevious(k, v) ==
    [val |-> v, seal |-> IF k # Secret THEN None
                         ELSE IF deploy.previous # None THEN deploy.previous ELSE Master(deploy)]

\* The row of a value: secrets, blank ones too, are sealed under the current key.
Sealed(k, v) == [val |-> v, seal |-> IF k = Secret THEN Master(deploy) ELSE None]

\* decrypt_value: the current and the previous key are tried; plain values pass.
Readable(row) == row # None /\ row.seal \in {None, Master(deploy), deploy.previous}

\* get_all_settings: a row that cannot be read is left out; without any key the
\* read as a whole fails.
ReadFails == Master(deploy) = None /\ db[Secret] # None
AllRead == {k \in Keys : Readable(db[k])}

\* set_setting: one session per key; it fails for a secret without a key.
CanSet(k) == k = Secret => Master(deploy) # None
SetSetting(k, v) == db' = [db EXCEPT ![k] = Sealed(k, v)]

\* One call of the database that fails.
Fault == faults < MaxFaults /\ faults' = faults + 1
NoFault == UNCHANGED faults

(***************************************************************************)
(* The start.                                                              *)
(***************************************************************************)

\* bootstrap_config: nothing if any row can be read, or if the read fails.
BootstrapCheck ==
    /\ pc = "bootstrap" /\ fill = 0
    /\ IF ReadFails \/ AllRead # {} THEN pc' = "migrate" /\ fill' = 0
                                    ELSE pc' = pc /\ fill' = 1
    /\ UNCHANGED <<table, env, services, admin, stale, save, marks, bounds>>

\* One key of ALL_SETTINGS from the environment or the defaults; an error ends it.
BootstrapKey ==
    LET k == AllSettings[fill]
        v == IF env[k] = None THEN DefaultConfig(k) ELSE env[k]
    IN  /\ pc = "bootstrap" /\ fill # 0
        /\ \/ /\ CanSet(k) /\ SetSetting(k, v) /\ NoFault
              /\ IF fill = Len(AllSettings) THEN pc' = "migrate" /\ fill' = 0
                                            ELSE pc' = pc /\ fill' = fill + 1
           \/ /\ IF CanSet(k) THEN Fault ELSE NoFault
              /\ pc' = "migrate" /\ fill' = 0 /\ UNCHANGED db
        /\ UNCHANGED <<backup, env, services, admin, stale, save, marks, saves, restarts>>

\* encrypt_plaintext_secrets: in one session, after a backup; no backup, no change.
MigrateSecrets ==
    LET row == db[Secret]
        pending == row # None /\ row.val # Blank /\ row.seal = None
    IN  /\ pc = "migrate" /\ pc' = "load"
        /\ \/ /\ pending /\ Master(deploy) # None /\ NoFault
              /\ backup' = backup \cup {row.val}
              /\ SetSetting(Secret, row.val)
           \/ /\ IF pending /\ Master(deploy) # None THEN Fault ELSE NoFault
              /\ UNCHANGED table
        /\ UNCHANGED <<env, fill, services, admin, stale, save, marks, saves, restarts>>

\* load_settings: a blank row leaves what the environment has.
Loaded(rows, e) ==
    [k \in Keys |-> IF k \notin DOMAIN rows THEN e[k]
                    ELSE IF rows[k] # Blank THEN rows[k]
                    ELSE IF e[k] = None THEN Blank ELSE e[k]]
Rows == [k \in (IF ReadFails THEN {} ELSE AllRead) |-> db[k].val]

LoadAtStart ==
    /\ pc = "load" /\ pc' = "services"
    /\ \/ env' = Loaded(Rows, env) /\ NoFault /\ UNCHANGED halfway
       \/ UNCHANGED env /\ Fault /\ halfway' = TRUE
    /\ UNCHANGED <<table, fill, services, admin, stale, save, overlapped, saves, restarts>>

(***************************************************************************)
(* What is made of the environment.                                        *)
(***************************************************************************)

\* get_str, get_bool, and int(get_float) as start_runtime_services reads them.
Str(e, k) == IF e[k] = None THEN Blank ELSE e[k]
On(e, k) == e[k] \in {None, Blank, "true"}
StartPeriod(e) == IF e["SYNC_PERIOD_MINS"] \in {None, Blank, Junk} THEN DefaultConfig("SYNC_PERIOD_MINS")
                  ELSE e["SYNC_PERIOD_MINS"]

\* A save accepts an unset period and whole numbers above 0.
AppliedPeriod(e) == IF e["SYNC_PERIOD_MINS"] = None THEN DefaultConfig("SYNC_PERIOD_MINS")
                    ELSE e["SYNC_PERIOD_MINS"]
Usable(p) == p \notin {Blank, Junk} /\ p > 0

Configured(e) == Str(e, "ABS_SERVER") # Blank /\ Str(e, Secret) # Blank
ShouldRun(e) == On(e, "INSTANT_SYNC_ENABLED") /\ Configured(e)

Listener(e, n) == [id |-> n, server |-> Str(e, "ABS_SERVER"), key |-> Str(e, Secret)]
SameAccount(l, e) == l.server = Str(e, "ABS_SERVER") /\ l.key = Str(e, Secret)

(***************************************************************************)
(* start_runtime_services and the daemon thread.                           *)
(***************************************************************************)

\* A period of 0 or less ends the program; is_configured also looks at ABS_ENABLED.
StartServices ==
    /\ pc = "services"
    /\ IF StartPeriod(env) <= 0
       THEN pc' = "refused" /\ UNCHANGED services
       ELSE /\ pc' = "up" /\ daemon' = StartPeriod(env) /\ UNCHANGED sched
            /\ held' = IF ShouldRun(env) /\ On(env, "ABS_ENABLED") THEN Listener(env, 1)
                      ELSE NoListener
            /\ running' = IF held' = NoListener THEN running ELSE running \cup {held'}
    /\ UNCHANGED <<table, env, fill, admin, stale, save, marks, bounds>>

\* run_sync_daemon schedules its cycle in a thread of its own.
DaemonSchedules ==
    /\ daemon # None
    /\ sched' = Append(sched, daemon) /\ daemon' = None
    /\ UNCHANGED <<table, process, running, held, admin, stale, save, marks, bounds>>

(***************************************************************************)
(* The settings page.                                                      *)
(***************************************************************************)

At(r, at) == pc = "up" /\ save[r].at = at
Busy == {r \in Requests : save[r].at # "no"}
GoTo(r, at) == save' = [save EXCEPT ![r] = [NoSave EXCEPT !.at = at]]
Answered(r) == GoTo(r, "no")

\* A POST: what is stored is read first.  It may overlap another one, or a daemon
\* that has not scheduled its cycle yet.
SaveBegins(r, f) ==
    /\ At(r, "no") /\ saves < MaxSaves /\ saves' = saves + 1
    /\ IF ReadFails
       THEN UNCHANGED <<save, overlapped>>
       ELSE /\ save' = [save EXCEPT ![r] = [NoSave EXCEPT !.at = "keys", !.form = f, !.i = 1,
                                                          !.known = AllRead]]
            /\ overlapped' = (overlapped \/ Busy # {} \/ daemon # None)
    /\ UNCHANGED <<table, process, services, admin, stale, halfway, restarts, faults>>

\* Mutant: a blank secret is cleared like any other text.
KeepsBlankCleared(r, k, v) == v = Blank /\ k \notin save[r].known

\* A blank secret keeps the stored one; a blank text is only cleared if it was known.
Keeps(r, k, v) == v = Blank /\ (k = Secret \/ k \notin save[r].known)

\* One key of the form: the row, then the environment.
SaveKey(r) ==
    LET k == FormOrder[save[r].i]
        v == save[r].form[k]
        next == IF save[r].i = Len(FormOrder)
                THEN GoTo(r, "load")
                ELSE save' = [save EXCEPT ![r].i = @ + 1]
    IN  /\ At(r, "keys")
        /\ \/ Keeps(r, k, v) /\ next /\ NoFault /\ UNCHANGED <<db, env, stale, halfway>>
           \/ /\ ~Keeps(r, k, v) /\ CanSet(k)
              /\ SetSetting(k, v) /\ env' = [env EXCEPT ![k] = v]
              /\ stale' = (stale /\ k # Secret)
              /\ next /\ NoFault /\ UNCHANGED halfway
           \/ /\ ~Keeps(r, k, v)
              /\ IF CanSet(k) THEN Fault ELSE NoFault
              /\ Answered(r) /\ halfway' = TRUE /\ UNCHANGED <<db, env, stale>>
        /\ UNCHANGED <<backup, pc, fill, services, admin, overlapped, saves, restarts>>

\* load_settings once more: it reads all rows, then writes the environment; a
\* failing read is logged only.
SaveReads(r) ==
    /\ At(r, "load")
    /\ \/ save' = [save EXCEPT ![r] = [NoSave EXCEPT !.at = "set", !.loaded = Rows]] /\ NoFault
       \/ GoTo(r, "period") /\ Fault
    /\ UNCHANGED <<table, process, services, admin, stale, marks, saves, restarts>>

SaveLoads(r) ==
    /\ At(r, "set")
    /\ env' = Loaded(save[r].loaded, env) /\ halfway' = FALSE
    /\ GoTo(r, "period")
    /\ UNCHANGED <<table, pc, fill, services, admin, stale, overlapped, bounds>>

\* apply_settings: a period that is no use leaves the schedule as it is.
ApplyClears(r) ==
    LET p == AppliedPeriod(env)
    IN  /\ At(r, "period")
        /\ IF Usable(p)
           THEN /\ sched' = <<>>
                /\ save' = [save EXCEPT ![r] = [NoSave EXCEPT !.at = "every", !.period = p]]
           ELSE GoTo(r, "listener") /\ UNCHANGED sched
        /\ UNCHANGED <<table, process, daemon, running, held, admin, stale, marks, bounds>>

ApplySchedules(r) ==
    /\ At(r, "every")
    /\ sched' = Append(sched, save[r].period)
    /\ GoTo(r, "listener")
    /\ UNCHANGED <<table, process, daemon, running, held, admin, stale, marks, bounds>>

\* reconcile_socket_listener: what it sees, and what it does.
ReconcileSees(r) ==
    /\ At(r, "listener")
    /\ save' = [save EXCEPT ![r] = [NoSave EXCEPT !.at = "reconcile",
           !.want = [run |-> ShouldRun(env), env |-> Listener(env, 0), held |-> held]]]
    /\ UNCHANGED <<table, process, services, admin, stale, marks, bounds>>

\* Mutant: only another server is a change.
ChangedServer(w) == w.run /\ w.held # NoListener /\ w.env.server # w.held.server

Changed(w) == w.run /\ w.held # NoListener
              /\ (w.env.server # w.held.server \/ w.env.key # w.held.key)

\* The thread that was seen is stopped; its successor is a new one.
ReconcileActs(r) ==
    LET w == save[r].want
        new == [w.env EXCEPT !.id = CHOOSE n \in 1 .. MaxListeners : \A l \in running : l.id # n]
        stays == (w.run <=> w.held # NoListener) /\ ~Changed(w)
    IN  /\ At(r, "reconcile") /\ Cardinality(running) < MaxListeners
        /\ IF stays
           THEN UNCHANGED <<running, held>>
           ELSE /\ held' = IF w.run THEN new ELSE NoListener
                /\ running' = (running \ {w.held}) \cup (IF w.run THEN {new} ELSE {})
        /\ Answered(r)
        /\ UNCHANGED <<table, process, sched, daemon, admin, stale, marks, bounds>>

(***************************************************************************)
(* The process is killed; the administrator changes what it is given.      *)
(***************************************************************************)
Killed ==
    /\ pc # "down" /\ restarts < MaxRestarts /\ restarts' = restarts + 1
    /\ pc' = "down" /\ fill' = 0 /\ save' = [r \in Requests |-> NoSave]
    /\ sched' = <<>> /\ daemon' = None /\ running' = {} /\ held' = NoListener
    /\ env' = container /\ overlapped' = FALSE /\ halfway' = FALSE
    /\ UNCHANGED <<table, admin, stale, saves, faults>>

\* README.md:147: the old key becomes the previous one, which goes "once all secrets
\* have been re-saved".
AsTold(d) == IF Master(d) = Master(deploy)
             THEN d.previous = deploy.previous \/ ~stale
             ELSE d.previous = Master(deploy) /\ ~stale

Redeployed(d, e) ==
    /\ pc = "down"
    /\ deploy' = d /\ container' = e
    /\ orderly' = (orderly /\ AsTold(d))
    /\ stale' = (stale \/ (Master(d) # Master(deploy) /\ db[Secret] # None))
    /\ pc' = "bootstrap" /\ env' = e
    /\ UNCHANGED <<table, fill, services, save, marks, bounds>>

Start == BootstrapCheck \/ BootstrapKey \/ MigrateSecrets \/ LoadAtStart \/ StartServices
Save(r) ==
    \/ \E f \in Forms : SaveBegins(r, f)
    \/ SaveKey(r) \/ SaveReads(r) \/ SaveLoads(r)
    \/ ApplyClears(r) \/ ApplySchedules(r) \/ ReconcileSees(r) \/ ReconcileActs(r)

Next ==
    \/ Start \/ DaemonSchedules \/ Killed
    \/ \E r \in Requests : Save(r)
    \/ \E d \in Deploys, e \in Containers : Redeployed(d, e)

Spec == Init /\ [][Next]_vars

(***************************************************************************)
(* Properties.                                                             *)
(***************************************************************************)

Account == [id : 0 .. MaxListeners, server : Servers \cup {Blank}, key : Tokens \cup {Blank}]
TypeOK ==
    /\ \A k \in Keys :
         /\ db[k] \in RowOf(k) \cup {None}
         /\ env[k] \in Values(k) \cup {None}
    /\ backup \subseteq Tokens /\ container \in Containers /\ deploy \in Deploys
    /\ pc \in {"down", "bootstrap", "migrate", "load", "services", "up", "refused"}
    /\ fill \in 0 .. Len(AllSettings)
    /\ running \subseteq Account /\ held \in Account
    /\ \A r \in Requests : save[r] # NoSave => pc = "up"
    /\ saves \in 0 .. MaxSaves /\ restarts \in 0 .. MaxRestarts /\ faults \in 0 .. MaxFaults

\* A stored secret is never lost and never comes back to plain text, whatever fails, is
\* left blank or can no longer be read: it gives way to one that a user submits, and is
\* sealed where it was plain only behind a backup (settings_repository.py:121,
\* settings_bp.py:244).
SecretKept ==
    [][LET row == db[Secret]
           new == db'[Secret]
       IN  row # None /\ new # row =>
             /\ new # None /\ new.seal # None
             /\ \/ \E r \in Requests : At(r, "keys") /\ save[r].form[Secret] = new.val /\ new.val # Blank
                \/ new.val = row.val /\ row.seal = None /\ row.val \in backup']_vars

\* If the keys are only rotated as the README tells, the secret can be read, however
\* starts, migrations and saves that fail lie between the rotations.
SecretReadable == orderly => db[Secret] = None \/ Readable(db[Secret])

\* The types hold, and when no save is under way and none overlapped another, what is stored is in force:
\* the environment has every value that can be read and is not blank, one sync cycle
\* is scheduled, with that period if it is of use, and one listener runs with that
\* account, or none (apply_settings, reconcile_socket_listener).
InForce ==
    /\ TypeOK
    /\ pc = "up" /\ Busy = {} /\ daemon = None /\ ~overlapped /\ ~halfway =>
        /\ \A k \in DOMAIN Rows : Rows[k] # Blank => env[k] = Rows[k]
        /\ Len(sched) = 1
        /\ Usable(AppliedPeriod(env)) => sched[1] = AppliedPeriod(env)
        /\ running = {held} \ {NoListener}
        /\ held # NoListener => SameAccount(held, env)
        /\ On(env, "ABS_ENABLED") => (held # NoListener <=> ShouldRun(env))
=============================================================================
