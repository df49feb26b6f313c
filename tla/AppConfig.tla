------------------------------ MODULE AppConfig ------------------------------
(***************************************************************************)
(* The saved configuration of the application: Inner::cfg in memory,       *)
(* config.json on disk, the import that waits for the user, and the        *)
(* commands that change them (lib.rs, config.rs).  Every command that      *)
(* writes the file holds CONFIG_IO from the read of Inner::cfg to the last *)
(* byte; Inner itself is only held for the assignments.  The user          *)
(* interface works on the configuration it was last sent, which is the     *)
(* public one: the profiles without their secrets.                         *)
(***************************************************************************)
EXTENDS Naturals, FiniteSets

CONSTANTS Tasks,      \* threads of the blocking pool that run the commands
          None,
          Instances,  \* control-plane instances that can be imported
          Origins,    \* control planes
          BuiltIn,    \* the origin of BIBA_BYPASS_DOMAINS_URL
          MaxOps,     \* bound on the commands
          MaxFails,   \* bound on the failed writes
          MaxCrashes  \* bound on the crashes

VARIABLES mem,      \* Inner::cfg
          disk,     \* config.json, or "torn" in the middle of a write
          io,       \* the task that holds CONFIG_IO
          pending,  \* Inner::pending_import
          task,     \* task[t]: the command the task executes
          seen,     \* the configuration the user interface was last sent
          dirty,    \* the last write of the file failed
          given,    \* the secrets given to a profile, <<profile, secret>>
          redeemed, \* the fetched payloads that nobody applied or dropped
          ops, fails, crashes

confVars == <<mem, disk, io, pending, task, seen, dirty, given, redeemed, ops,
              fails, crashes>>

(***************************************************************************)
(* A profile is known by its id; 0 is the profile of an empty              *)
(* configuration, i the one of instance i.  text stands for its public     *)
(* fields and key for its secret ones (0 is the empty secret).             *)
(***************************************************************************)
Ids == Instances \cup {0}
Profile(text, key, origin) == [text |-> text, key |-> key, origin |-> origin]
Default == [locale |-> 0, active |-> 0,
            profs  |-> [p \in {0} |-> Profile(0, 0, None)]]

\* SavedConfig::active_profile: the one with the id, or the first.
Active(c) == IF c.active \in DOMAIN c.profs THEN c.active
             ELSE CHOOSE p \in DOMAIN c.profs : \A q \in DOMAIN c.profs : p <= q

\* normalize_loaded, for the fields that are modelled.
Normalize(c) ==
    LET d == IF DOMAIN c.profs = {} THEN [c EXCEPT !.profs = Default.profs] ELSE c
    IN  [d EXCEPT !.active = Active(d)]

\* load_config_from_path: a file that cannot be parsed is an empty one.
Load(file) == IF file.torn THEN Default ELSE Normalize(file.cfg)
Whole(c) == [torn |-> FALSE, cfg |-> c]

\* to_public_saved_config: the secrets are left out.
Public(c) == [c EXCEPT !.profs = [p \in DOMAIN c.profs |-> [c.profs[p] EXCEPT !.key = 0]]]

(***************************************************************************)
(* merge_saved_config.  A payload says which fields it has, and which      *)
(* profiles in it have their secrets.                                      *)
(***************************************************************************)

\* The stored profile whose secrets a profile of the payload keeps.
StoredProfile(stored, p) == IF p \in DOMAIN stored.profs THEN p ELSE None

Merge(stored, pay) ==
    LET profs == IF "profiles" \in pay.has THEN pay.cfg.profs ELSE stored.profs
        KeyOf(p) == LET s == StoredProfile(stored, p) IN
                    IF p \in pay.keyed THEN pay.cfg.profs[p].key
                    ELSE IF s = None THEN 0 ELSE stored.profs[s].key
    IN  [locale |-> IF "locale" \in pay.has THEN pay.cfg.locale ELSE stored.locale,
         active |-> IF "active" \in pay.has THEN pay.cfg.active ELSE stored.active,
         profs  |-> [p \in DOMAIN profs |-> [profs[p] EXCEPT !.key = KeyOf(p)]]]

Payload(has, keyed, cfg) == [has |-> has, keyed |-> keyed, cfg |-> cfg]

\* What the user interface sends: the language alone, or its whole configuration
\* with one profile edited (its secret too, or not), removed or selected.
Payloads(v) ==
    LET all == {"locale", "active", "profiles"}
        S   == DOMAIN seen.profs
    IN  {Payload({"locale"}, {}, [Default EXCEPT !.locale = v])}
        \cup {Payload(all, {}, [seen EXCEPT !.profs[p].text = v]) : p \in S}
        \cup {Payload(all, {p}, [seen EXCEPT !.profs[p].key = v]) : p \in S}
        \cup {Payload(all, {}, [seen EXCEPT !.profs = [q \in S \ {p} |-> seen.profs[q]]]) : p \in S}
        \cup {Payload(all, {}, [seen EXCEPT !.active = p]) : p \in S}

\* profile_control_plane_origins with the built-in one.
Allowed(c) == {BuiltIn} \cup ({c.profs[p].origin : p \in DOMAIN c.profs} \ {None})

\* import_control_plane_payload: the profile of the instance, new or not,
\* becomes the active one and takes the secrets of the payload.
Import(c, imp) ==
    [c EXCEPT !.active = imp.inst,
              !.profs  = [p \in DOMAIN c.profs \cup {imp.inst} |->
                            IF p = imp.inst THEN Profile(imp.ver, imp.ver, imp.origin)
                            ELSE c.profs[p]]]

\* apply_invite_to_cfg: the fields of the invite go into the active profile.
Invite(c, v) ==
    LET a == Active(c) IN
    [c EXCEPT !.profs[a].text = v, !.profs[a].key = v]

Idle == [cmd |-> "idle", pc |-> "idle", cfg |-> Default, imp |-> None, ver |-> 0]

Init ==
    /\ mem = Default /\ disk = Whole(Default) /\ io = None /\ pending = None
    /\ task = [t \in Tasks |-> Idle] /\ seen = Public(Default) /\ dirty = FALSE
    /\ given = {} /\ redeemed = {} /\ ops = 0 /\ fails = 0 /\ crashes = 0

NewOp == ops < MaxOps /\ ops' = ops + 1
Goto(t, rec) == task' = [task EXCEPT ![t] = rec]

\* The task takes CONFIG_IO and goes on to write cfg.
WriteFile(t, cmd, cfg, imp, ver) ==
    /\ io' = t
    /\ Goto(t, [cmd |-> cmd, pc |-> "open", cfg |-> cfg, imp |-> imp, ver |-> ver])

\* Mutant: CONFIG_IO is not asked for.
NoGuard(t) == task[t].cmd = "idle"

CanLock(t) == task[t].cmd = "idle" /\ io = None

\* save_config_cmd: the memory first, then the file.
Save(t) ==
    /\ CanLock(t) /\ NewOp
    /\ \E pay \in Payloads(ops + 1) :
          /\ mem' = Normalize(Merge(mem, pay))
          /\ given' = given \cup {<<p, pay.cfg.profs[p].key>> : p \in pay.keyed}
    /\ WriteFile(t, "save", mem', None, 0)
    /\ UNCHANGED <<disk, pending, seen, dirty, redeemed, fails, crashes>>

\* apply_invite_cmd works on a copy; an invite that does not decode ends it.
ApplyInvite(t) ==
    /\ CanLock(t) /\ NewOp
    /\ given' = given \cup {<<Active(mem), ops + 1>>}
    /\ WriteFile(t, "invite", Invite(mem, ops + 1), None, 0)
    /\ UNCHANGED <<mem, disk, pending, seen, dirty, redeemed, fails, crashes>>

\* connect_inner writes the configuration it is going to use.
ConnectSaves(t) ==
    /\ CanLock(t) /\ NewOp
    /\ WriteFile(t, "connect", mem, None, 0)
    /\ UNCHANGED <<mem, disk, pending, seen, dirty, given, redeemed, fails, crashes>>

\* handle_import_deeplink: the list of origins is read, ...
OpenLink(t) ==
    /\ task[t].cmd = "idle" /\ NewOp
    /\ \E i \in Instances, o \in Allowed(mem) :
          Goto(t, [cmd |-> "link", pc |-> "redeem", cfg |-> Default, ver |-> ops + 1,
                   imp |-> [inst |-> i, ver |-> ops + 1, origin |-> o]])
    /\ UNCHANGED <<mem, disk, io, pending, seen, dirty, given, redeemed, fails, crashes>>

\* The import that waits, which another one may replace.
Waiting == IF pending = None THEN {} ELSE {pending.ver}

\* ... and the answer of the control plane waits for the user, if it is one.
Redeem(t) ==
    /\ task[t].pc = "redeem"
    /\ \/ /\ pending' = task[t].imp
          /\ redeemed' = (redeemed \ Waiting) \cup {task[t].ver}
       \/ UNCHANGED <<pending, redeemed>>
    /\ Goto(t, Idle)
    /\ UNCHANGED <<mem, disk, io, seen, dirty, given, ops, fails, crashes>>

\* apply_pending_import takes the import and works on a copy.
Confirm(t) ==
    /\ CanLock(t) /\ NewOp /\ pending # None
    /\ pending' = None
    /\ given' = given \cup {<<pending.inst, pending.ver>>}
    /\ WriteFile(t, "import", Import(mem, pending), pending, pending.ver)
    /\ UNCHANGED <<mem, disk, seen, dirty, redeemed, fails, crashes>>

\* cancel_pending_import_cmd
Cancel(t) ==
    /\ task[t].cmd = "idle" /\ NewOp /\ pending # None
    /\ pending' = None /\ redeemed' = redeemed \ Waiting
    /\ UNCHANGED <<mem, disk, io, task, seen, dirty, given, fails, crashes>>

\* save_config_to_path: std::fs::write empties the file, then fills it.
Open(t) ==
    /\ task[t].pc = "open"
    /\ disk' = [disk EXCEPT !.torn = TRUE]
    /\ Goto(t, [task[t] EXCEPT !.pc = "fill"])
    /\ UNCHANGED <<mem, io, pending, seen, dirty, given, redeemed, ops, fails, crashes>>

\* The command ends; an invite and an import are now in memory as well.
Fill(t) ==
    /\ task[t].pc = "fill"
    /\ disk' = Whole(task[t].cfg) /\ dirty' = FALSE
    /\ mem' = IF task[t].cmd \in {"invite", "import"} THEN task[t].cfg ELSE mem
    /\ redeemed' = redeemed \ {task[t].ver}
    /\ io' = None /\ Goto(t, Idle)
    /\ UNCHANGED <<pending, seen, given, ops, fails, crashes>>

\* A failed import waits for the user again, in the place of one that arrived
\* meanwhile, or that was cancelled.
PutBack(t) ==
    IF task[t].cmd = "import"
      THEN /\ pending' = task[t].imp
           /\ redeemed' = (redeemed \ Waiting) \cup {task[t].ver}
      ELSE UNCHANGED <<pending, redeemed>>

WriteFails(t) ==
    /\ task[t].pc \in {"open", "fill"} /\ fails < MaxFails
    /\ fails' = fails + 1 /\ dirty' = TRUE
    /\ PutBack(t) /\ io' = None /\ Goto(t, Idle)
    /\ UNCHANGED <<mem, disk, seen, given, ops, crashes>>

\* A snapshot reaches the user interface (get_state, the vpn-state event).
Refresh ==
    /\ seen' = Public(mem) /\ seen' # seen
    /\ UNCHANGED <<mem, disk, io, pending, task, dirty, given, redeemed, ops, fails, crashes>>

\* The process dies and is started again.
Crash ==
    /\ crashes < MaxCrashes /\ crashes' = crashes + 1
    /\ mem' = Load(disk) /\ io' = None /\ pending' = None
    /\ task' = [t \in Tasks |-> Idle] /\ seen' = Public(mem') /\ redeemed' = {}
    /\ UNCHANGED <<disk, dirty, given, ops, fails>>

Next ==
    \/ \E t \in Tasks : \/ Save(t) \/ ApplyInvite(t) \/ ConnectSaves(t)
                        \/ OpenLink(t) \/ Redeem(t) \/ Confirm(t) \/ Cancel(t)
                        \/ Open(t) \/ Fill(t) \/ WriteFails(t)
    \/ Refresh \/ Crash

Spec == Init /\ [][Next]_confVars

(***************************************************************************)
(* Properties                                                              *)
(***************************************************************************)
Configs == {mem} \cup {task[t].cfg : t \in Tasks} \cup (IF disk.torn THEN {} ELSE {disk.cfg})

\* Only the holder of CONFIG_IO leaves the file half written, and the active
\* profile exists in memory.
ConfigTypeOK ==
    /\ io \in Tasks \cup {None} /\ mem.active \in DOMAIN mem.profs
    /\ DOMAIN mem.profs \subseteq Ids /\ ops \in 0..MaxOps
    /\ \A t \in Tasks : task[t].pc \in {"open", "fill"} <=> io = t
    /\ disk.torn => dirty \/ crashes > 0 \/ (io # None /\ task[io].pc = "fill")

\* Whenever nobody writes it, the file holds what the memory holds, unless the
\* last write of it failed.
FileIsMemory == io = None /\ ~dirty /\ ~disk.torn => disk.cfg = mem

\* No profile ever holds, in memory or in the file, a secret that was given to
\* another one, though what the user interface sends has no secrets and may be
\* older than the profiles it is merged into.
SecretsNotMixed ==
    \A c \in Configs : \A p \in DOMAIN c.profs :
        c.profs[p].key = 0 \/ <<p, c.profs[p].key>> \in given

\* An imported profile loses its secret only by being removed.
KeepsSecrets ==
    crashes' = crashes =>
        \A p \in Instances \cap DOMAIN mem.profs \cap DOMAIN mem'.profs :
            mem'.profs[p].key = 0 => mem.profs[p].key = 0
SecretsKept == [][KeepsSecrets]_confVars

\* Whatever is imported, removed and saved, the origins an import may come from
\* are those of the first configuration: no deep link widens the list.
OriginsClosed ==
    \A c \in Configs : \A p \in DOMAIN c.profs : c.profs[p].origin \in {BuiltIn, None}

\* A payload that was fetched (its token is spent) waits or is being written
\* until it is in the file, cancelled or replaced by another one: an import
\* whose write failed can be confirmed again.
ImportNotLost ==
    redeemed \subseteq {task[t].ver : t \in {u \in Tasks : task[u].cmd = "import"}}
                       \cup Waiting

\* File and memory agree, a secret stays with its profile, imports do not
\* widen the list of origins, and a redeemed import is not lost.
StoreInv ==
    /\ ConfigTypeOK
    /\ FileIsMemory
    /\ SecretsNotMixed
    /\ OriginsClosed
    /\ ImportNotLost
=============================================================================
