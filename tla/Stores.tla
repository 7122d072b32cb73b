------------------------------- MODULE Stores -------------------------------
(***************************************************************************)
(* The files under ~/.wh and the commands that change them: aliases.json   *)
(* (wh/wns/aliases.py), relays.yaml (wh/relay/config.py), config.json, the *)
(* identity and known_hosts directories (wh/wns/identity.py), names        *)
(* (wh/wns/names.py) and namespaces (wh/enterprise/namespace.py), with the *)
(* commands of wh/wns/cli.py, wh/cli/relay.py and wh/cli/namespace.py.     *)
(*                                                                         *)
(* A command is a process that reads a file whole, decides, may ask the    *)
(* user, and writes the file back whole.  Nothing is locked.  A file is    *)
(* opened for writing, which empties it, and its text, less than a write   *)
(* buffer, is written from the file's start when it is closed; a process   *)
(* may be killed in between.  A text that another process has written into *)
(* the file meanwhile keeps its tail if it is the longer one: after JSON   *)
(* the tail cannot be parsed, in YAML it may be read as more entries.      *)
(*                                                                         *)
(* The contents are what a command may add, remove or overwrite: the value *)
(* of an entry is the process that wrote it.  No name or description reads *)
(* as a key of its file, and namespaces of one name have one limit.  A     *)
(* directory of identity/ is taken together with the one file in it.       *)
(***************************************************************************)
EXTENDS Naturals, FiniteSets

CONSTANTS
    Procs,      \* commands that run, each once
    Names,      \* names of aliases, relays and claims
    Addrs,      \* addresses of identities
    Spaces,     \* names of namespaces
    Persons,    \* members and admins of a namespace
    MaxMembers, \* max_members of the namespaces
    Public,     \* the built-in relay
    Old,        \* who wrote what was there before
    Empty,      \* a file without its text
    Garbled,    \* a file that cannot be parsed
    None

VARIABLES
    disk,       \* disk[f]: None for no file, Empty, Garbled, or its content
    proc        \* the processes; data is what one will write, or has in its file

vars == <<disk, proc>>

Content(default, entries) == [default |-> default, entries |-> entries]
NoEntries == [n \in Names |-> None]

AliasFile == <<"aliases", None>>
RelayFile == <<"relays", None>>
ConfigFile == <<"config", None>>
Identity(a) == <<"identity", a>>
Known(a) == <<"known", a>>
Claim(n) == <<"claim", n>>
Space(s) == <<"space", s>>

Disk == {AliasFile, RelayFile, ConfigFile}
          \cup {Identity(a) : a \in Addrs} \cup {Known(a) : a \in Addrs}
          \cup {Claim(n) : n \in Names} \cup {Space(s) : s \in Spaces}

\* One entry of each kind was there before: the name Prior, the default relay
\* and the default identity among them.
Prior(n) == [m \in Names |-> IF m = n THEN Old ELSE None]

Before(f, n, a, m) ==
    IF f = AliasFile THEN Content(None, Prior(n))
    ELSE IF f = RelayFile THEN Content(n, Prior(n))
    ELSE IF f = Identity(a) THEN Content(None, NoEntries)
    ELSE IF f \in {ConfigFile, Claim(n)} THEN Content(a, NoEntries)
    ELSE IF f[1] = "space" THEN Content(None, [q \in Persons |-> IF q = m THEN {"member"} ELSE {}])
    ELSE None

NewProc == [pc |-> "idle", file |-> AliasFile, data |-> None]

Init ==
    /\ LET n == CHOOSE x \in Names : TRUE
           a == CHOOSE x \in Addrs : TRUE
           m == CHOOSE x \in Persons : TRUE
       IN  disk = [f \in Disk |-> Before(f, n, a, m)]
    /\ proc = [p \in Procs |-> NewProc]
-----------------------------------------------------------------------------
Unreadable == {None, Empty, Garbled}

\* AliasStore._load: what cannot be parsed counts as no alias.
Aliases == IF disk[AliasFile] \in Unreadable THEN Content(None, NoEntries) ELSE disk[AliasFile]

\* RelayConfigManager.load raises for a file it cannot parse; an empty file is the
\* default configuration.
RelaysFail == disk[RelayFile] = Garbled
Relays == IF disk[RelayFile] \in Unreadable THEN Content(Public, NoEntries) ELSE disk[RelayFile]

\* _load_config: what cannot be parsed counts as no setting.
Config == IF disk[ConfigFile] \in Unreadable THEN Content(None, NoEntries) ELSE disk[ConfigFile]

\* _load_namespaces: a file that cannot be parsed is skipped.
Namespace(s) == IF disk[Space(s)] \in Unreadable THEN None ELSE disk[Space(s)]

\* load_identity and load_claim raise for a file they cannot parse.
Loaded(f) == disk[f] \notin Unreadable

\* list_identities fails altogether when one file cannot be parsed.
ListFails == \E a \in Addrs : disk[Identity(a)] \in {Empty, Garbled}
Identities == {a \in Addrs : disk[Identity(a)] # None}

\* get_default_identity: the configured one if it is there, else the first one
\* in the order of the directory.
Defaults == IF Config.default \in Identities THEN {Config.default} ELSE Identities

\* What a command does after it read its file.
Fail == [pc |-> "failed", data |-> None]
Done == [pc |-> "done", data |-> None]
Save(d) == [pc |-> "open", data |-> d]
Ask(d) == [pc |-> "confirm", data |-> d]
Remove == [pc |-> "unlink", data |-> None]

\* A process runs a command: it reads f and goes on as o says.
Run(p, f, o) ==
    /\ proc[p].pc = "idle"
    /\ proc' = [proc EXCEPT ![p] = [pc |-> o.pc, file |-> f, data |-> o.data]]
    /\ UNCHANGED disk

Set(c, n, v) == [c EXCEPT !.entries[n] = v]
-----------------------------------------------------------------------------
AliasAdded(p, n) == Set(Aliases, n, p)

\* alias add, with or without --force.
AliasAdd(p, n, force) ==
    Run(p, AliasFile,
        IF Aliases.entries[n] # None /\ ~force THEN Fail ELSE Save(AliasAdded(p, n)))

\* alias remove.
AliasRemove(p, n) ==
    Run(p, AliasFile,
        IF Aliases.entries[n] = None THEN Fail ELSE Save(Set(Aliases, n, None)))

\* alias show and alias resolve; also the commands that take an alias.
AliasShow(p, n) == Run(p, AliasFile, IF Aliases.entries[n] = None THEN Fail ELSE Done)

RelayAdded(p, n, default) ==
    Set(IF default THEN [Relays EXCEPT !.default = n] ELSE Relays, n, p)

\* relay add refuses a name that is taken, relay share --receive replaces it.
RelayAdd(p, n, default) ==
    Run(p, RelayFile,
        IF RelaysFail \/ Relays.entries[n] # None THEN Fail ELSE Save(RelayAdded(p, n, default)))

RelayReceive(p, n, default) ==
    Run(p, RelayFile, IF RelaysFail THEN Fail ELSE Save(RelayAdded(p, n, default)))

\* Wrong form: the default stays.
RelayRemovedOnly(n) == Set(Relays, n, None)

\* remove_relay goes back to the built-in relay when the default goes.
RelayRemoved(n) ==
    Set(IF Relays.default = n THEN [Relays EXCEPT !.default = Public] ELSE Relays, n, None)

\* relay remove: the configuration read before the question is written after it.
RelayRemove(p, n) ==
    Run(p, RelayFile,
        IF RelaysFail \/ Relays.entries[n] = None THEN Fail ELSE Ask(RelayRemoved(n)))

RelayDefaulted(n) == [Relays EXCEPT !.default = n]

\* relay set-default.
RelaySetDefault(p, n) ==
    Run(p, RelayFile,
        IF RelaysFail \/ (n # Public /\ Relays.entries[n] = None) THEN Fail
        ELSE Save(RelayDefaulted(n)))

\* relay list, relay share, and resolve_relay of every command.
RelayShow(p, n) ==
    Run(p, RelayFile, IF RelaysFail \/ Relays.entries[n] = None THEN Fail ELSE Done)
-----------------------------------------------------------------------------
\* identity create: the address of a new key was never used.
IdentityCreate(p, a) ==
    /\ disk[Identity(a)] = None /\ \A q \in Procs : proc[q].file # Identity(a)
    /\ Run(p, Identity(a), Save(Content(None, NoEntries)))

\* identity set-name: the whole identity is written back.
IdentitySetName(p, a) ==
    Run(p, Identity(a),
        IF Loaded(Identity(a)) THEN Save(Content(p, NoEntries)) ELSE Fail)

\* identity delete, after a question.
IdentityDelete(p, a) ==
    Run(p, Identity(a), IF Loaded(Identity(a)) THEN Ask(None) ELSE Fail)

\* identity set-default and clear-default; a default is not cleared by delete.
SetDefault(p, a) ==
    Run(p, ConfigFile,
        IF Loaded(Identity(a)) THEN Save([Config EXCEPT !.default = a]) ELSE Fail)

ClearDefault(p) ==
    Run(p, ConfigFile,
        IF Config.default = None THEN Done ELSE Save([Config EXCEPT !.default = None]))

\* identity list, show, default and export.
IdentityShow(p) == Run(p, ConfigFile, IF ListFails THEN Fail ELSE Done)

\* NameClaim.create: a claim is signed by the identity it leads to.
NewClaim(a) == Content(a, NoEntries)

\* identity claim-name, for a given identity or the default one; a claim that
\* is there already is replaced.
ClaimName(p, n) ==
    \/ \E a \in Addrs :
         Run(p, Claim(n), IF Loaded(Identity(a)) THEN Save(NewClaim(a)) ELSE Fail)
    \/ \E a \in Defaults :
         Run(p, Claim(n), IF ListFails THEN Fail ELSE Save(NewClaim(a)))

\* identity release-name, after a question.
ReleaseName(p, n) == Run(p, Claim(n), IF Loaded(Claim(n)) THEN Ask(None) ELSE Fail)

\* save_known_host: the public key.
KnownHost == Content(None, NoEntries)

\* identity import.
ImportHost(p, a) == Run(p, Known(a), Save(KnownHost))

\* lookup_and_cache: the key of a host seen for the first time is saved.
CacheHost(p, a) ==
    Run(p, Known(a),
        IF disk[Known(a)] = None THEN Save(KnownHost)
        ELSE IF Loaded(Known(a)) THEN Done ELSE Fail)
-----------------------------------------------------------------------------
Members(c) == {m \in Persons : "member" \in c.entries[m]}

\* NamespaceManager.create: nobody is in a new namespace.
NewSpace == Content(None, [m \in Persons |-> {}])

\* namespace create.
SpaceCreate(p, s) ==
    Run(p, Space(s), IF Namespace(s) # None THEN Fail ELSE Save(NewSpace))

\* NamespaceManager.delete refuses a namespace with members, unless forced.
Deletable(s, force) == Namespace(s) # None /\ (force \/ Members(Namespace(s)) = {})

\* namespace delete: the question comes before the files are read.
SpaceDelete(p, s, force) ==
    Run(p, Space(s), IF Deletable(s, force) THEN Remove ELSE Fail)

Full(c) == Cardinality(Members(c)) >= MaxMembers

\* namespace add-member; the limit is checked before the name is.
AddMember(p, s, m) ==
    LET c == Namespace(s) IN
    Run(p, Space(s),
        IF c = None \/ Full(c) THEN Fail
        ELSE IF m \in Members(c) THEN Done
        ELSE Save(Set(c, m, c.entries[m] \cup {"member"})))

\* namespace remove-member, add-admin and remove-admin.
Change(p, s, m, new) ==
    LET c == Namespace(s) IN
    Run(p, Space(s),
        IF c = None THEN Fail ELSE IF c.entries[m] = new THEN Done ELSE Save(Set(c, m, new)))

RemoveMember(p, s, m) ==
    Change(p, s, m, IF Namespace(s) = None THEN {} ELSE Namespace(s).entries[m] \ {"member"})

AddAdmin(p, s, m) ==
    Change(p, s, m, IF Namespace(s) = None THEN {} ELSE Namespace(s).entries[m] \cup {"admin"})

RemoveAdmin(p, s, m) ==
    Change(p, s, m, IF Namespace(s) = None THEN {} ELSE Namespace(s).entries[m] \ {"admin"})
-----------------------------------------------------------------------------
Stay(p, pc) == proc' = [proc EXCEPT ![p].pc = pc] /\ UNCHANGED disk

\* The user answers.
Confirm(p) ==
    /\ proc[p].pc = "confirm"
    /\ \/ Stay(p, "declined")
       \/ /\ proc[p].data # None
          /\ Stay(p, "open")
       \/ /\ proc[p].data = None
          /\ Stay(p, IF proc[p].file[1] = "identity" THEN "erase" ELSE "unlink")

\* The processes that have a text in the file of p.
Writers(p) == {q \in Procs : proc[q].pc = "done" /\ proc[q].file = proc[p].file}

\* The processes after p went on to pc and all text of its file is gone.
Cleared(p, pc) ==
    [q \in Procs |-> IF q = p THEN [proc[q] EXCEPT !.pc = pc]
                     ELSE IF q \in Writers(p) THEN [proc[q] EXCEPT !.data = None]
                     ELSE proc[q]]

\* The file is opened for writing, or made anew.
OpenFile(p) ==
    /\ proc[p].pc = "open"
    /\ disk' = [disk EXCEPT ![proc[p].file] = Empty]
    /\ proc' = Cleared(p, "write")

\* A YAML file that starts with the text of p and ends with the tail of another: more
\* relays after those of p, or an older list of members, as the last one counts.
Blends(p) ==
    LET new == proc[p].data
        under == {proc[q].data : q \in Writers(p)} \ {None}
    IN  IF proc[p].file = RelayFile
        THEN {[new EXCEPT !.entries = e] : e \in
                {e \in [Names -> Procs \cup {Old, None}] : \A n \in Names :
                    \/ e[n] = new.entries[n]
                    \/ e[n] # None /\ \E text \in under : e[n] = text.entries[n]}}
        ELSE IF proc[p].file[1] = "space"
        THEN {[new EXCEPT !.entries =
                [m \in Persons |-> (new.entries[m] \cap {"admin"})
                                     \cup (text.entries[m] \cap {"member"})]] : text \in under}
        ELSE {}

\* The text is written when the file is closed: into an empty file, over what another
\* process has written there, or into a file that is removed.
WriteFile(p) ==
    LET f == proc[p].file IN
    \/ /\ proc[p].pc = "write"
       /\ \E text \in IF disk[f] = Empty THEN {proc[p].data}
                       ELSE {proc[p].data, Garbled} \cup Blends(p) :
            disk' = [disk EXCEPT ![f] = text]
       /\ proc' = [proc EXCEPT ![p].pc = "done"]
    \/ /\ proc[p].pc = "unlinked"
       /\ Stay(p, "failed")

\* delete_identity overwrites the key with zeros first; no directory, no key.
Erase(p) ==
    /\ proc[p].pc = "erase"
    /\ IF disk[proc[p].file] = None THEN Stay(p, "failed")
       ELSE /\ disk' = [disk EXCEPT ![proc[p].file] = Garbled]
            /\ proc' = Cleared(p, "unlink")

\* The file is removed: delete_identity, delete_claim, _delete_namespace_file.  Who
\* has it open goes on to write into it.
Unlink(p) ==
    /\ proc[p].pc = "unlink"
    /\ disk' = [disk EXCEPT ![proc[p].file] = None]
    /\ proc' = [q \in Procs |->
                  IF proc[q].file = proc[p].file /\ proc[q].pc = "write"
                  THEN [proc[q] EXCEPT !.pc = "unlinked"] ELSE Cleared(p, "removed")[q]]

\* Commands that ran before these left the files as mixtures of their texts.
MixedBefore ==
    /\ \A p \in Procs : proc[p].pc = "idle"
    /\ disk' = [f \in Disk |-> IF disk[f] = None THEN None ELSE Garbled]
    /\ UNCHANGED proc

\* The process is killed.
Kill(p) ==
    /\ proc[p].pc \in {"confirm", "open", "write", "unlinked", "erase", "unlink"}
    /\ Stay(p, "killed")
-----------------------------------------------------------------------------
Command(p) ==
    \/ \E n \in Names :
         \/ AliasRemove(p, n) \/ AliasShow(p, n) \/ RelayRemove(p, n) \/ RelayShow(p, n)
         \/ ClaimName(p, n) \/ ReleaseName(p, n)
         \/ \E flag \in BOOLEAN :
              AliasAdd(p, n, flag) \/ RelayAdd(p, n, flag) \/ RelayReceive(p, n, flag)
    \/ \E n \in Names \cup {Public} : RelaySetDefault(p, n)
    \/ \E a \in Addrs : \/ IdentityCreate(p, a) \/ IdentitySetName(p, a) \/ IdentityDelete(p, a)
                        \/ SetDefault(p, a) \/ ImportHost(p, a) \/ CacheHost(p, a)
    \/ ClearDefault(p) \/ IdentityShow(p)
    \/ \E s \in Spaces :
         \/ SpaceCreate(p, s) \/ \E force \in BOOLEAN : SpaceDelete(p, s, force)
         \/ \E m \in Persons : \/ AddMember(p, s, m) \/ RemoveMember(p, s, m)
                               \/ AddAdmin(p, s, m) \/ RemoveAdmin(p, s, m)

Next ==
    \/ MixedBefore
    \/ \E p \in Procs :
         \/ Command(p) \/ Confirm(p) \/ OpenFile(p) \/ WriteFile(p) \/ Erase(p) \/ Unlink(p)
         \/ Kill(p)

Spec == Init /\ [][Next]_vars
-----------------------------------------------------------------------------
\* What may be in a file, and in which file: Namespace entries are roles, the
\* entries of the other files are who wrote them.
Entries == [Names -> Procs \cup {Old, None}]
Roles == [Persons -> SUBSET {"member", "admin"}]
Texts == [default : Names \cup Addrs \cup Procs \cup {None, Public}, entries : Entries \cup Roles]

Good(f, text) ==
    /\ text \in Texts
    /\ f[1] = "space" => text.entries \in Roles /\ Cardinality(Members(text)) <= MaxMembers
    /\ f[1] # "space" => text.entries \in Entries
    /\ f[1] \notin {"aliases", "relays", "space"} => text.entries = NoEntries
    /\ f = RelayFile =>
         /\ text.default \in Names \cup {Public}
         /\ text.default # Public => text.entries[text.default] # None

Processes ==
    [pc : {"idle", "confirm", "open", "write", "unlinked", "erase", "unlink", "done", "declined",
           "removed", "failed", "killed"},
     file : Disk, data : Texts \cup {None}]

TypeOK ==
    /\ disk \in [Disk -> Texts \cup Unreadable]
    /\ proc \in [Procs -> Processes]

\* Whatever commands write the files side by side or are killed, a relays.yaml that
\* can be read has its default among its relays, so that get_default_relay finds it,
\* and a namespace that can be read has no more members than its limit.
FilesConsistent ==
    /\ LET c == disk[RelayFile] IN
         c \notin Unreadable /\ c.default # Public => c.entries[c.default] # None
    /\ \A s \in Spaces :
         Namespace(s) # None => Cardinality(Members(Namespace(s))) <= MaxMembers

\* The inductive invariant of FilesConsistent: what can be read, what a command is
\* about to write and what one has in a file is right for its file.
Consistent ==
    /\ \A f \in Disk : disk[f] \in Unreadable \/ Good(f, disk[f])
    /\ \A p \in Procs :
         proc[p].pc \in {"confirm", "open", "write", "done"} /\ proc[p].data # None =>
             Good(proc[p].file, proc[p].data)
    /\ \A p \in Procs : proc[p].pc \in {"open", "write"} => proc[p].data # None

StoresInv == TypeOK /\ Consistent
=============================================================================
