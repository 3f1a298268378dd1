----------------------------- MODULE HookLayer -----------------------------
(***************************************************************************)
(* install-hooks.py and uninstall-hooks.py on a user's Codex directory.    *)
(* Codex reads hooks from hooks.json and from config.toml; a run of either *)
(* script reads a file, computes a new one and moves it into place, after  *)
(* copying both files to backups named by the second.  Runs follow one     *)
(* another; each may be killed between any two of its steps, and the user, *)
(* an editor or Codex may rewrite a file between any two of them.          *)
(*                                                                         *)
(* An event of hooks.json holds a sequence of groups, a group a set of     *)
(* handlers.  In config.toml the handlers of others are the events of      *)
(* `inline'; ours are the events of `own' in the block between the two     *)
(* marker lines, and those of `loose' outside of it.                       *)
(***************************************************************************)
EXTENDS Naturals, Sequences, SequencesExt, FiniteSets

CONSTANTS
    Events,       \* EVENTS
    Ours,         \* the handler with this project's command
    Others,       \* handlers of others
    Absent,       \* no such file, or no such key
    UserJson,     \* what others may make of hooks.json
    UserConfig,   \* what others may make of config.toml
    MaxRuns,      \* bound: runs of the scripts
    MaxEdits,     \* bound: edits by others
    MaxTime       \* bound: the clock of the backups, in seconds

Group == (SUBSET (Others \cup {Ours})) \ {{}}
\* No list for an event and an empty one are the same here.
HookTable == [Events -> Seq(Group)]
Json == [hooks: HookTable \cup {Absent}]
\* `marks': the block's marker lines, of which an edit may lose one or both;
\* `guest': text of others between them.
Config ==
    [inline: SUBSET Events, marks: {"none", "pair", "broken"},
     own: SUBSET Events, loose: SUBSET Events, guest: BOOLEAN]
NoBlock(c) == c.marks = "none" /\ c.own = {} /\ c.loose = {} /\ ~c.guest

Mentions(table, h) == \E e \in Events : \E g \in Range(table[e]) : h \in g

ASSUME HookLayerAssumption ==
    /\ Ours \notin Others
    /\ Absent \notin Json \cup Config \cup HookTable
    /\ UserJson \subseteq Json \cup {Absent}
    /\ \A j \in UserJson \ {Absent} :
          j.hooks # Absent => ~Mentions(j.hooks, Ours)
    /\ UserConfig \subseteq Config \cup {Absent}
    /\ \A c \in UserConfig \ {Absent} : NoBlock(c)
    /\ MaxRuns \in Nat /\ MaxEdits \in Nat /\ MaxTime \in Nat

VARIABLES
    json,      \* hooks.json
    config,    \* config.toml
    backups,   \* the copies made, by file and second
    script,    \* the script that runs, or ran last
    at,        \* where it is, or "idle"
    inline,    \* main of the installer: `inline', the target is config.toml
    stamp,     \* the second its backups are named by
    read,      \* the content it read, to be replaced
    changed,   \* it replaced a file
    outcome,   \* how the last run ended
    now, runs, edits,
    edited,    \* history: the files others rewrote since the last run began
    used,      \* history: the seconds that named backups
    shared,    \* history: those that named the backups of two runs
    replaced   \* history: what runs replaced, as it should be in a backup

files == <<json, config>>
local == <<script, at, inline, stamp, read, changed, outcome>>
world == <<now, runs, edits, edited>>
ledger == <<used, shared, replaced>>
vars == <<files, backups, local, world, ledger>>
-----------------------------------------------------------------------------
\* has_command
HasOurs(groups) == \E g \in Range(groups) : Ours \in g

\* Plausible bug: one own handler anywhere is taken for all of them.
Bug_WithOurs(table) ==
    IF Mentions(table, Ours) THEN table
    ELSE [e \in Events |-> Append(table[e], {Ours})]
\* install_json: a group of its own for every event without the handler.
WithOurs(table) ==
    [e \in Events |->
        IF HasOurs(table[e]) THEN table[e] ELSE Append(table[e], {Ours})]
InstalledJson(j) ==
    [hooks |-> WithOurs(IF j = Absent \/ j.hooks = Absent
                        THEN [e \in Events |-> <<>>] ELSE j.hooks)]

\* The groups that have handlers, in their order.
Inhabited(groups) ==
    LET kept == {i \in DOMAIN groups : groups[i] # {}}
        Place(i) == Cardinality({j \in kept : j <= i})
    IN [k \in 1..Cardinality(kept) |-> groups[CHOOSE i \in kept : Place(i) = k]]

\* Plausible bug: a group goes with its handler.
Bug_GroupsWithoutOurs(groups) ==
    Inhabited([i \in DOMAIN groups |-> IF Ours \in groups[i] THEN {} ELSE groups[i]])
\* uninstall_json: groups that are left without a handler go.
GroupsWithoutOurs(groups) ==
    Inhabited([i \in DOMAIN groups |-> groups[i] \ {Ours}])
WithoutOurs(table) == [e \in Events |-> GroupsWithoutOurs(table[e])]
UninstalledJson(j) == [j EXCEPT !.hooks = WithoutOurs(@)]

\* install_inline without a block (inline_missing), and uninstall_inline with one.
InstalledConfig(c) ==
    IF c.loose = Events THEN c
    ELSE [c EXCEPT !.marks = "pair", !.own = Events \ c.loose]
\* Plausible bug: the lines of the markers go, what is between them stays.
Bug_UninstalledConfig(c) == [c EXCEPT !.marks = "none", !.guest = FALSE]
UninstalledConfig(c) == [c EXCEPT !.marks = "none", !.own = {}, !.guest = FALSE]

\* Any event of the [hooks] table; what Codex keeps about trust is none.
InlineEvents(c) == IF c = Absent THEN {} ELSE c.inline \cup c.own \cup c.loose
IsInline(c) == InlineEvents(c) # {}
Mixed(j, c) == j # Absent /\ IsInline(c)
-----------------------------------------------------------------------------
Init ==
    /\ json \in UserJson /\ config \in UserConfig
    /\ backups = {}
    /\ script = "none" /\ at = "idle" /\ outcome = "none"
    /\ inline = FALSE /\ stamp = 0 /\ read = Absent /\ changed = FALSE
    /\ now = 0 /\ runs = 0 /\ edits = 0
    /\ edited = {} /\ used = {} /\ shared = {} /\ replaced = {}

\* Plausible bug: the backups are named by a coarser time.
Bug_Timestamp == now \div 2
Timestamp == now
\* timestamp(): the name of this run's backups.
Stamp ==
    /\ stamp' = Timestamp
    /\ used' = used \cup {now}
    /\ shared' = IF now \in used THEN shared \cup {now} ELSE shared

Begin(s) ==
    /\ at = "idle" /\ runs < MaxRuns
    /\ script' = s /\ runs' = runs + 1
    /\ changed' = FALSE /\ edited' = {}
    /\ UNCHANGED <<files, backups, read, now, edits, replaced>>

\* Plausible bug: mixed layers are not refused.
Bug_MayInstall == TRUE
MayInstall == ~Mixed(json, config)
\* The target is chosen before the copies are made.
Install ==
    /\ Begin("install")
    /\ inline' = IsInline(config)
    /\ \/ /\ MayInstall
          /\ at' = "backup_json" /\ outcome' = "none"
          /\ Stamp
       \/ /\ ~MayInstall
          /\ at' = "idle" /\ outcome' = "refused"
          /\ UNCHANGED <<stamp, used, shared>>
Uninstall ==
    /\ Begin("uninstall")
    /\ at' = "backup_json" /\ outcome' = "none" /\ inline' = FALSE
    /\ Stamp

\* What a run read is of no use after it.
Leave(how) == at' = "idle" /\ outcome' = how /\ read' = Absent

Copy(name, content) ==
    backups' = {b \in backups : b.file # name \/ b.stamp # stamp}
                 \cup {[file |-> name, stamp |-> stamp, content |-> content]}
BackupJson ==
    /\ at = "backup_json" /\ at' = "backup_config"
    /\ IF json = Absent THEN UNCHANGED backups ELSE Copy("json", json)
    /\ UNCHANGED <<files, script, inline, stamp, read, changed, outcome, world,
                   ledger>>
BackupConfig ==
    /\ at = "backup_config"
    /\ at' = IF inline THEN "read_config" ELSE "read_json"
    /\ IF config = Absent THEN UNCHANGED backups ELSE Copy("config", config)
    /\ UNCHANGED <<files, script, inline, stamp, read, changed, outcome, world,
                   ledger>>

JsonAfter(j) ==
    IF script = "install" THEN InstalledJson(j) ELSE UninstalledJson(j)
\* The installer is done with one file, the uninstaller goes on to the other.
AfterJson ==
    IF script = "install" THEN Leave("ok")
    ELSE at' = "read_config" /\ read' = Absent /\ UNCHANGED outcome

\* install_json and uninstall_json up to the replacement.
ReadJson ==
    /\ at = "read_json"
    /\ \/ /\ script = "uninstall" /\ json = Absent
          /\ AfterJson
       \/ /\ script = "uninstall" /\ json # Absent /\ json.hooks = Absent
          /\ Leave("failed")
       \/ /\ script = "uninstall" => json # Absent /\ json.hooks # Absent
          /\ IF json = JsonAfter(json) THEN AfterJson
             ELSE at' = "write_json" /\ read' = json /\ UNCHANGED outcome
    /\ UNCHANGED <<files, backups, script, inline, stamp, changed, world, ledger>>
\* What a replacement destroys should be in this run's backup, if the file is
\* still the one that was copied.
Replaces(name, content) ==
    /\ changed' = TRUE
    /\ replaced' = IF name \in edited \/ content = Absent THEN replaced
                   ELSE replaced \cup
                          {[file |-> name, stamp |-> stamp, content |-> content]}
\* atomic_text: the uninstaller needs the file, for its mode.
WriteJson ==
    /\ at = "write_json"
    /\ IF script = "uninstall" /\ json = Absent
       THEN Leave("failed") /\ UNCHANGED <<json, changed, replaced>>
       ELSE json' = JsonAfter(read) /\ Replaces("json", json) /\ AfterJson
    /\ UNCHANGED <<config, backups, script, inline, stamp, world, used, shared>>

\* install_inline leaves a block alone, complete or not; uninstall_inline knows
\* nothing of handlers outside of one.
ConfigAfter(c) ==
    CASE script = "install" /\ c.marks = "none" -> InstalledConfig(c)
      [] script = "uninstall" /\ c.marks = "pair" -> UninstalledConfig(c)
      [] OTHER -> c
ReadConfig ==
    /\ at = "read_config"
    /\ \/ /\ config = Absent
          /\ Leave(IF script = "install" THEN "failed" ELSE "ok")
       \/ /\ config # Absent /\ config.marks = "broken"
          /\ Leave("failed")
       \/ /\ config # Absent /\ config.marks # "broken"
          /\ IF ConfigAfter(config) = config THEN Leave("ok")
             ELSE at' = "write_config" /\ read' = config /\ UNCHANGED outcome
    /\ UNCHANGED <<files, backups, script, inline, stamp, changed, world, ledger>>
WriteConfig ==
    /\ at = "write_config"
    /\ IF script = "uninstall" /\ config = Absent
       THEN Leave("failed") /\ UNCHANGED <<config, changed, replaced>>
       ELSE /\ config' = ConfigAfter(read)
            /\ Replaces("config", config)
            /\ Leave("ok")
    /\ UNCHANGED <<json, backups, script, inline, stamp, world, used, shared>>

Script ==
    \/ Install \/ Uninstall \/ BackupJson \/ BackupConfig
    \/ ReadJson \/ WriteJson \/ ReadConfig \/ WriteConfig
-----------------------------------------------------------------------------
(* The rest of the world.                                                   *)
Killed ==
    /\ at # "idle" /\ Leave("killed")
    /\ UNCHANGED <<files, backups, script, inline, stamp, changed, world, ledger>>
Tick ==
    /\ now < MaxTime /\ now' = now + 1
    /\ UNCHANGED <<files, backups, local, runs, edits, edited, ledger>>

Edit(name) ==
    /\ edits < MaxEdits /\ edits' = edits + 1
    /\ edited' = edited \cup {name}
    /\ UNCHANGED <<backups, local, now, runs, ledger>>
RewriteJson(j) == Edit("json") /\ json' = j /\ UNCHANGED config
RewriteConfig(c) == Edit("config") /\ config' = c /\ UNCHANGED json
\* Another handler joins the group that the installer made.
JoinGroup(e, h) ==
    /\ json # Absent /\ json.hooks # Absent
    /\ HasOurs(json.hooks[e])
    /\ Edit("json")
    /\ json' = [json EXCEPT !.hooks[e] =
                  [i \in DOMAIN @ |-> IF Ours \in @[i] THEN @[i] \cup {h} ELSE @[i]]]
    /\ UNCHANGED config
\* An event loses its groups.
ClearEvent(e) ==
    /\ json # Absent /\ json.hooks # Absent /\ json.hooks[e] # <<>>
    /\ Edit("json")
    /\ json' = [json EXCEPT !.hooks[e] = <<>>]
    /\ UNCHANGED config
\* The block loses a handler or a marker line, or both with a rewrite that
\* drops comments, or something is put into it, or others leave.
EditBlock ==
    /\ config # Absent /\ config.marks = "pair"
    /\ Edit("config")
    /\ \/ config' = [config EXCEPT !.marks = "broken"]
       \/ config' = [config EXCEPT !.guest = TRUE]
       \/ config' = [config EXCEPT !.marks = "none", !.own = {}, !.guest = FALSE,
                                  !.loose = @ \cup config.own]
       \/ \E e \in config.own : config' = [config EXCEPT !.own = @ \ {e}]
       \/ \E e \in config.inline : config' = [config EXCEPT !.inline = @ \ {e}]
    /\ UNCHANGED json

Next ==
    \/ Script \/ Killed \/ Tick
    \/ \E j \in UserJson : RewriteJson(j)
    \/ \E c \in UserConfig : RewriteConfig(c)
    \/ \E e \in Events, h \in Others : JoinGroup(e, h)
    \/ \E e \in Events : ClearEvent(e)
    \/ EditBlock

Spec == Init /\ [][Next]_vars
-----------------------------------------------------------------------------
Name == [file: {"json", "config"}, stamp: 0..MaxTime, content: Json \cup Config]
TypeOK ==
    /\ json \in Json \cup {Absent} /\ config \in Config \cup {Absent}
    /\ backups \subseteq Name /\ replaced \subseteq Name
    /\ script \in {"none", "install", "uninstall"}
    /\ at \in {"idle", "backup_json", "backup_config", "read_json",
              "write_json", "read_config", "write_config"}
    /\ inline \in BOOLEAN /\ stamp \in 0..MaxTime /\ changed \in BOOLEAN
    /\ read \in Json \cup Config \cup {Absent}
    /\ outcome \in {"none", "ok", "failed", "refused", "killed"}
    /\ now \in 0..MaxTime /\ runs \in 0..MaxRuns /\ edits \in 0..MaxEdits
    /\ edited \subseteq {"json", "config"}
    /\ used \subseteq 0..MaxTime /\ shared \subseteq used

OwnInJson(e) ==
    IF json = Absent \/ json.hooks = Absent THEN 0
    ELSE Cardinality({i \in DOMAIN json.hooks[e] : Ours \in json.hooks[e][i]})
OwnInConfig(e) ==
    IF config = Absent THEN 0
    ELSE Cardinality({part \in {"own", "loose"} : e \in config[part]})

\* However runs are repeated, killed and mixed with edits, Codex never finds the
\* handler twice for one event: not in one file, and not once in each.
NoHandlerTwice == \A e \in Events : OwnInJson(e) + OwnInConfig(e) <= 1

Done(s) == at = "idle" /\ script = s /\ outcome = "ok" /\ edited = {}
\* An installer that ends well leaves every event with the handler, unless it
\* found a block between markers, which it does not look into.
InstallCovers ==
    Done("install") /\ (changed \/ ~inline) =>
        \A e \in Events : OwnInJson(e) + OwnInConfig(e) = 1
\* An uninstaller that ends well leaves none in either file, whatever runs
\* before it were killed half-way, but for those outside of the markers.
UninstallRemovesAll ==
    Done("uninstall") =>
        \A e \in Events : OwnInJson(e) = 0 /\ (OwnInConfig(e) = 0 \/ e \in config.loose)

\* What a run replaced in a file that was not edited under it can be recovered
\* from a backup, unless a later run began within the same second.
OriginalRecoverable ==
    \A r \in replaced : r \in backups \/ r.stamp \in shared

\* The handlers of others in hooks.json: per event their groups, in order.
Foreign(j) ==
    [e \in Events |->
        IF j = Absent \/ j.hooks = Absent THEN <<>>
        ELSE Inhabited([i \in DOMAIN j.hooks[e] |-> j.hooks[e][i] \cap Others])]
ByScript == edits' = edits
\* A run that replaces the file it read keeps what others have there, group by
\* group and in order.  Text of others between the markers is lost.
ForeignKept ==
    [][ByScript =>
         /\ json' # json /\ json = read => Foreign(json') = Foreign(json)
         /\ config' # config /\ config = read =>
               config'.inline = config.inline /\ config'.loose = config.loose]_vars
=============================================================================
