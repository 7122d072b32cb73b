------------------------------- MODULE Rsync -------------------------------
(***************************************************************************)
(* wh rsync (wh/cli/rsync.py): the listening side sends the manifest of    *)
(* its directory, the sending side answers with its own, the listening     *)
(* side asks for the files that are new or differ, and the sending side    *)
(* streams them, then the deletions, then DONE.                            *)
(*                                                                         *)
(* A file's content is one of Contents; "torn" is a file opened for        *)
(* writing and not yet closed: the START, DATA and END messages of a file  *)
(* are one message here, which the receiver handles in two steps.  It      *)
(* writes paths relative to its working directory, which need not be the   *)
(* directory it scanned.                                                   *)
(***************************************************************************)
EXTENDS Naturals, Sequences, FiniteSets

CONSTANTS
    Files,      \* relative paths
    Contents,   \* checksums
    None

VARIABLES
    source,     \* the sending side's files
    vanished,   \* files removed from the source after the scan
    dest,       \* the directory the listening side scans
    cwd,        \* its working directory, when that is another one
    inDest,     \* the working directory is the destination
    withDelete, dryRun,   \* options of the sending side
    sender, receiver, \* pcs of the two commands
    mine,       \* local_manifest of the sender; theirs is remote_manifest
    theirs,
    scanned,    \* local_manifest of the receiver
    toSender, toReceiver, \* the streams between them
    open,       \* _current_file of the receiver, whose handle is open, or None
    dropped,    \* a manifest came before receive_manifest had made its future
    lost        \* the connection broke

files == <<source, vanished, dest, cwd, inDest, withDelete, dryRun>>
manifests == <<mine, theirs, scanned>>
streams == <<toSender, toReceiver>>
vars == <<files, sender, receiver, manifests, streams, open, dropped, lost>>

NoFiles == [f \in Files |-> None]
Listing == [Files -> Contents \cup {None}]

Init ==
    /\ source = NoFiles /\ dest = NoFiles /\ cwd = NoFiles /\ vanished = {}
    /\ inDest = FALSE /\ withDelete = FALSE /\ dryRun = FALSE
    /\ sender = "off" /\ receiver = "off"
    /\ mine = NoFiles /\ theirs = NoFiles /\ scanned = NoFiles
    /\ toSender = <<>> /\ toReceiver = <<>>
    /\ open = None /\ dropped = FALSE /\ lost = FALSE

\* The messages: _send_message and its callers.
Manifest(listing) == [type |-> "MANIFEST", listing |-> listing]
Request(paths) == [type |-> "REQUEST", files |-> paths]
File(f, content) == [type |-> "FILE", file |-> f, content |-> content]
Delete(paths) == [type |-> "DELETE", files |-> paths]
Finished == [type |-> "DONE"]
-----------------------------------------------------------------------------
\* The two commands are started, with any files and options, and connected.
Begin ==
    /\ sender = "off"
    /\ source' \in Listing \ {NoFiles} /\ dest' \in Listing
    /\ inDest' \in BOOLEAN /\ withDelete' \in BOOLEAN /\ dryRun' \in BOOLEAN
    /\ sender' = "connecting" /\ receiver' = "connecting"
    /\ UNCHANGED <<vanished, cwd, manifests, streams, open, dropped, lost>>

\* The receiver is connected: it scans its directory and sends the manifest.
SendManifest ==
    /\ receiver = "connecting" /\ ~lost
    /\ scanned' = dest
    /\ toSender' = Append(toSender, Manifest(dest))
    /\ receiver' = "manifest"
    /\ UNCHANGED <<files, sender, mine, theirs, toReceiver, open, dropped, lost>>

\* The sender is connected, scans its source and makes the manifest's future.
Scan ==
    /\ sender = "connecting"
    /\ mine' = source
    /\ sender' = "manifest"
    /\ UNCHANGED <<files, receiver, theirs, scanned, streams, open, dropped, lost>>

\* A scanned file disappears before it is sent.
Vanish(f) ==
    /\ sender \in {"manifest", "request"} /\ source[f] # None
    /\ source' = [source EXCEPT ![f] = None]
    /\ vanished' = vanished \cup {f}
    /\ UNCHANGED <<dest, cwd, inDest, withDelete, dryRun, sender, receiver, manifests, streams, open,
                   dropped, lost>>

\* Wrong form: a file that is there already is taken to be the same.
ToSendNew(local, remote) == {f \in Files : local[f] # None /\ remote[f] = None}

\* compare_manifests: the files that are new or have another checksum,
ToSend(local, remote) == {f \in Files : local[f] # None /\ remote[f] # local[f]}

\* and those only the remote side has.
ToDelete(local, remote) == {f \in Files : local[f] = None /\ remote[f] # None}

\* _handle_manifest of the sender and what receive_manifest resumes: a dry run
\* ends there, else the sender's manifest goes out.
GetManifest ==
    /\ toSender # <<>> /\ Head(toSender).type = "MANIFEST"
    /\ toSender' = Tail(toSender)
    /\ \/ /\ sender = "manifest"
          /\ theirs' = Head(toSender).listing
          /\ IF dryRun
             THEN sender' = "done" /\ UNCHANGED toReceiver
             ELSE /\ sender' = "request"
                  /\ toReceiver' = Append(toReceiver, Manifest(mine))
          /\ UNCHANGED dropped
       \/ /\ sender = "connecting"
          /\ dropped' = TRUE
          /\ UNCHANGED <<theirs, sender, toReceiver>>
    /\ UNCHANGED <<files, receiver, mine, scanned, open, lost>>

\* Wrong form: nothing is asked for when nothing is needed.
RequestsSome(wanted) == IF wanted = {} THEN <<>> ELSE <<Request(wanted)>>

\* send_request.
Requests(wanted) == <<Request(wanted)>>

\* The receiver has the sender's manifest: compare, and request what it needs.
SendRequest ==
    /\ receiver = "manifest"
    /\ toReceiver # <<>> /\ Head(toReceiver).type = "MANIFEST"
    /\ toReceiver' = Tail(toReceiver)
    /\ toSender' = toSender \o Requests(ToSend(Head(toReceiver).listing, scanned))
    /\ receiver' = "receiving"
    /\ UNCHANGED <<files, sender, manifests, open, dropped, lost>>

\* The files of a request that exist, in the order of a directory's listing, of
\* which nothing is known.
Orders(S) == {order \in [1 .. Cardinality(S) -> S] : S \subseteq {order[i] : i \in DOMAIN order}}

Deletions ==
    IF withDelete /\ ToDelete(mine, theirs) # {}
    THEN <<Delete(ToDelete(mine, theirs))>> ELSE <<>>

\* The request is there: every requested file as it is now, the deletions and
\* DONE are written to the stream, and the command ends.
SendFiles ==
    /\ sender = "request"
    /\ toSender # <<>> /\ Head(toSender).type = "REQUEST"
    /\ toSender' = Tail(toSender)
    /\ \E order \in Orders({f \in Head(toSender).files : source[f] # None}) :
         toReceiver' = toReceiver \o [i \in DOMAIN order |-> File(order[i], source[order[i]])]
                                  \o Deletions \o <<Finished>>
    /\ sender' = "done"
    /\ UNCHANGED <<files, receiver, manifests, open, dropped, lost>>
-----------------------------------------------------------------------------
\* The receiver's files after those in S became x, in its working directory.
Written(S, x) ==
    LET new(old) == [f \in Files |-> IF f \in S THEN x ELSE old[f]] IN
    IF inDest THEN dest' = new(dest) /\ UNCHANGED cwd ELSE cwd' = new(cwd) /\ UNCHANGED dest

\* _process_buffer has a message of this type for the receiver.
Incoming(type) == receiver = "receiving" /\ toReceiver # <<>> /\ Head(toReceiver).type = type

\* _handle_file_start and _handle_file_data: the file is opened for writing.
FileStart ==
    /\ Incoming("FILE") /\ open = None
    /\ open' = Head(toReceiver).file
    /\ Written({Head(toReceiver).file}, "torn")
    /\ UNCHANGED <<source, vanished, inDest, withDelete, dryRun, sender, receiver, manifests,
                   streams, dropped, lost>>

Receiving(type) ==
    /\ Incoming(type)
    /\ toReceiver' = Tail(toReceiver)
    /\ UNCHANGED <<source, vanished, inDest, withDelete, dryRun, sender, manifests, toSender, dropped,
                   lost>>

\* _handle_file_end: the handle is closed.
FileEnd ==
    /\ Receiving("FILE") /\ open # None
    /\ open' = None
    /\ Written({Head(toReceiver).file}, Head(toReceiver).content)
    /\ UNCHANGED receiver

\* _handle_delete.
FileDelete ==
    /\ Receiving("DELETE")
    /\ Written(Head(toReceiver).files, None)
    /\ UNCHANGED <<open, receiver>>

\* _handle_done: the command reports what it received.
Done ==
    /\ Receiving("DONE")
    /\ receiver' = "done"
    /\ UNCHANGED <<dest, cwd, open>>

\* The connection breaks, or ends with the sender's dry run: what is on the way
\* is lost and _done is set, which wakes a receiver that waits for files but
\* not one that waits for a manifest.
Lose ==
    /\ ~lost /\ receiver \notin {"off", "done"}
    /\ lost' = TRUE
    /\ toSender' = <<>> /\ toReceiver' = <<>>
    /\ receiver' = IF receiver = "receiving" THEN "done" ELSE receiver
    /\ UNCHANGED <<files, sender, manifests, open, dropped>>
-----------------------------------------------------------------------------
Step ==
    \/ SendManifest \/ Scan \/ GetManifest \/ SendRequest \/ SendFiles
    \/ FileStart \/ FileEnd \/ FileDelete \/ Done

Next == Begin \/ Step \/ Lose \/ \E f \in Files : Vanish(f)

Spec == Init /\ [][Next]_vars

\* The two event loops run what is ready.
Fairness == WF_vars(Step)
-----------------------------------------------------------------------------
Messages ==
    [type : {"MANIFEST"}, listing : Listing] \cup [type : {"REQUEST", "DELETE"}, files : SUBSET Files]
    \cup [type : {"FILE"}, file : Files, content : Contents] \cup [type : {"DONE"}]

TypeOK ==
    /\ {source, mine, theirs, scanned} \subseteq Listing
    /\ {dest, cwd} \subseteq [Files -> Contents \cup {None, "torn"}]
    /\ vanished \subseteq Files
    /\ {inDest, withDelete, dryRun, dropped, lost} \subseteq BOOLEAN
    /\ sender \in {"off", "connecting", "manifest", "request", "done"}
    /\ receiver \in {"off", "connecting", "manifest", "receiving", "done"}
    /\ open \in Files \cup {None}
    /\ {toSender, toReceiver} \subseteq Seq(Messages)

\* A receiver that saw DONE has every file of the sender's manifest that still
\* existed when it was sent, with the sender's content, none of them torn, and
\* with --delete no other file: provided it runs in the directory it scanned.
SyncedWhenDone ==
    receiver = "done" /\ ~lost /\ inDest =>
        \A f \in Files :
            /\ mine[f] # None /\ f \notin vanished => dest[f] = mine[f]
            /\ mine[f] = None /\ withDelete => dest[f] = None
            /\ dest[f] # "torn"

\* The inductive invariant of SyncedWhenDone, phase by phase.  Until the
\* receiver has the sender's manifest it has touched no file and each stream
\* carries at most the one message due there.
Listed == inDest => dest = scanned

Comparing ==
    /\ receiver \in {"off", "connecting"} =>
         toSender = <<>> /\ toReceiver = <<>> /\ sender \notin {"request", "done"}
    /\ receiver = "manifest" =>
         /\ Listed
         /\ \/ /\ toSender = <<Manifest(scanned)>> /\ toReceiver = <<>>
               /\ sender \in {"connecting", "manifest"}
            \/ /\ toSender = <<>> /\ toReceiver = <<>>
               /\ sender \in {"connecting", "manifest"} \/ (sender = "done" /\ dryRun)
            \/ /\ toSender = <<>> /\ toReceiver = <<Manifest(mine)>>
               /\ sender = "request" /\ theirs = scanned
    /\ receiver = "receiving" =>
         \/ /\ toSender = <<Request(ToSend(mine, scanned))>> /\ toReceiver = <<>>
            /\ sender = "request" /\ theirs = scanned /\ Listed
         \/ toSender = <<>> /\ sender = "done"
    /\ receiver = "done" => toSender = <<>> /\ sender = "done"

\* What the sender reads while it sends is what it scanned, but for the files
\* that vanished.
Source ==
    /\ sender = "off" => receiver = "off"
    /\ receiver \in {"off", "connecting"} => dest \in Listing
    /\ lost => toSender = <<>> /\ toReceiver = <<>>
    /\ receiver \in {"off", "connecting", "manifest"} => open = None
    /\ sender \in {"off", "connecting"} => vanished = {}
    /\ sender \notin {"off", "connecting"} =>
         \A f \in Files : source[f] = mine[f] \/ (source[f] = None /\ f \in vanished)

\* While the files are on the way, the stream ends with DONE, carries nothing but
\* files of the sender's manifest and the deletions, and what is not yet in the
\* destination is still in it.
Streaming ==
    receiver = "receiving" /\ sender = "done" =>
        /\ toReceiver # <<>>
        /\ \A i \in DOMAIN toReceiver :
             /\ toReceiver[i].type \in {"FILE", "DELETE", "DONE"}
             /\ toReceiver[i].type = "DONE" <=> i = Len(toReceiver)
             /\ toReceiver[i].type = "FILE" => toReceiver[i].content = mine[toReceiver[i].file]
             /\ toReceiver[i].type = "DELETE" => toReceiver[i].files = ToDelete(mine, scanned)
        /\ inDest => \A f \in Files :
             /\ mine[f] = None => dest[f] \in {scanned[f], None}
             /\ \/ \E i \in DOMAIN toReceiver : toReceiver[i].type = "FILE" /\ toReceiver[i].file = f
                \/ dest[f] # "torn" /\ (mine[f] # None /\ f \notin vanished => dest[f] = mine[f])
             /\ \/ \E i \in DOMAIN toReceiver : toReceiver[i].type = "DELETE"
                \/ mine[f] = None /\ withDelete => dest[f] = None

RsyncInv == TypeOK /\ SyncedWhenDone /\ Source /\ (~lost => Comparing /\ Streaming)

\* A session ends on both sides unless the connection breaks, the run is dry or
\* the receiver's manifest came too early; in those cases one side waits on.
SyncEnds ==
    sender = "connecting" ~>
        lost \/ dryRun \/ dropped \/ (sender = "done" /\ receiver = "done")
=============================================================================
