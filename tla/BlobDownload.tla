---------------------------- MODULE BlobDownload ----------------------------
(***************************************************************************)
(* How ollama_openvino downloads a blob (server/download.go).  The pulls   *)
(* that want the blob share one download, kept in blobDownloadManager and  *)
(* named here after the pull that started it.  Its parts are fetched by    *)
(* goroutines of their own into one file; what each part has is recorded   *)
(* in a file of its own, from which a later download resumes, also after a *)
(* crash.  When all parts are there, the part files are removed and the    *)
(* data file is renamed to the blob.                                       *)
(*                                                                         *)
(* The registry answers with the bytes it was asked for, or fails.         *)
(***************************************************************************)
EXTENDS Integers, FiniteSets

CONSTANTS
    Pulls,
    Total,            \* bytes of the blob
    PartSize,         \* bytes of a part; the last one may have fewer
    MaxCrashes,       \* bound: crashes of the process
    None

ASSUME BlobAssumption ==
    /\ Total \in Nat \ {0} /\ PartSize \in Nat \ {0} /\ MaxCrashes \in Nat
    /\ None \notin Pulls /\ IsFiniteSet(Pulls)

Bytes == 0..Total - 1
Parts == {b \div PartSize : b \in Bytes}
Size(p) == Cardinality({b \in Bytes : b \div PartSize = p})
BytesOf(p, n) == p * PartSize..p * PartSize + n - 1

(* A part file that is not there, and one that was emptied and not written *)
NoFile == -1
Torn == -2

VARIABLES
    (* on disk *)
    blob,             \* absent, whole, or cut (has not all bytes)
    partial,          \* the bytes that the data file has
    partFiles,        \* of each part: the bytes it records, NoFile or Torn
    (* in memory *)
    manager,          \* the download in blobDownloadManager
    pc, on,           \* where each pull is, and its download
    known,            \* of a download: the parts in b.Parts
    completed,        \* ... their Completed
    chunk,            \* ... what their goroutines are doing
    run,              \* ... where its goroutine run is
    done, err, references, cancelFunc,
    (* history *)
    crashes,
    short             \* a download resumed from a part of the part files

disk == <<blob, partial, partFiles>>
pulls == <<pc, on>>
downloads == <<known, completed, chunk, run, done, err, references, cancelFunc>>
vars == <<disk, manager, pulls, downloads, crashes, short>>
history == <<crashes, short>>

Ended == {"idle", "hit", "success", "error", "gone", "dead"}

Unprepared == [p \in Parts |-> 0]
Untried == [p \in Parts |-> "todo"]

Init ==
    /\ blob = "absent" /\ partial = {} /\ partFiles = [p \in Parts |-> NoFile]
    /\ manager = None
    /\ pc = [c \in Pulls |-> "idle"] /\ on = [c \in Pulls |-> None]
    /\ known = [d \in Pulls |-> {}] /\ completed = [d \in Pulls |-> Unprepared]
    /\ chunk = [d \in Pulls |-> Untried]
    /\ run = [d \in Pulls |-> "none"] /\ done = [d \in Pulls |-> "nil"]
    /\ err = [d \in Pulls |-> "none"] /\ references = [d \in Pulls |-> 0]
    /\ cancelFunc = [d \in Pulls |-> "nil"]
    /\ crashes = 0 /\ short = FALSE

Goto(c, place) == pc' = [pc EXCEPT ![c] = place]

-----------------------------------------------------------------------------
(* downloadBlob.                                                           *)

Stat(c) ==
    /\ pc[c] = "idle"
    /\ Goto(c, IF blob = "absent" THEN "missing" ELSE "hit")
    /\ UNCHANGED <<disk, manager, on, downloads, history>>

LoadOrStore(c) ==
    /\ pc[c] = "missing"
    /\ IF manager = None
       THEN manager' = c /\ on' = [on EXCEPT ![c] = c] /\ Goto(c, "prepare")
       ELSE on' = [on EXCEPT ![c] = manager] /\ Goto(c, "join") /\ UNCHANGED manager
    /\ UNCHANGED <<disk, downloads, history>>

(* Prepare fails: the download is forgotten, its channel stays open.       *)
FailPrepare(c) ==
    /\ Goto(c, "error")
    /\ manager' = None

(* Prepare takes up the parts that have a file.                            *)
OnDisk == {p \in Parts : partFiles[p] # NoFile}
ReadParts(c) ==
    /\ pc[c] = "prepare"
    /\ done' = [done EXCEPT ![c] = "open"]
    /\ IF \E p \in Parts : partFiles[p] = Torn
       THEN FailPrepare(c) /\ UNCHANGED <<known, completed, run, short>>
       ELSE IF OnDisk = {}
       THEN Goto(c, "head") /\ UNCHANGED <<manager, known, completed, run, short>>
       ELSE /\ known' = [known EXCEPT ![c] = OnDisk]
            /\ completed' = [completed EXCEPT ![c] =
                  [p \in Parts |-> IF p \in OnDisk THEN partFiles[p] ELSE 0]]
            /\ short' = (short \/ OnDisk # Parts)
            /\ Goto(c, "join") /\ run' = [run EXCEPT ![c] = "start"]
            /\ UNCHANGED manager
    /\ UNCHANGED <<disk, on, chunk, err, references, cancelFunc, crashes>>

(* ... or asks for the size of the blob and makes the files, one by one.   *)
NextPart(c) == Cardinality(known[c])

HeadFails(c) ==
    /\ pc[c] = "head" /\ known[c] = {}
    /\ FailPrepare(c)
    /\ UNCHANGED <<disk, on, downloads, history>>

NewPart(c) ==
    /\ pc[c] = "head"
    /\ partFiles' = [partFiles EXCEPT ![NextPart(c)] = Torn]
    /\ Goto(c, "newPart")
    /\ UNCHANGED <<blob, partial, manager, on, downloads, history>>

WriteNewPart(c) ==
    /\ pc[c] = "newPart"
    /\ \/ FailPrepare(c) /\ UNCHANGED <<partFiles, known, run>>
       \/ /\ partFiles' = [partFiles EXCEPT ![NextPart(c)] = 0]
          /\ known' = [known EXCEPT ![c] = @ \union {NextPart(c)}]
          /\ IF known'[c] = Parts
             THEN Goto(c, "join") /\ run' = [run EXCEPT ![c] = "start"]
             ELSE Goto(c, "head") /\ UNCHANGED run
          /\ UNCHANGED manager
    /\ UNCHANGED <<blob, partial, on, completed, chunk, done, err, references, cancelFunc,
                   history>>

-----------------------------------------------------------------------------
(* Wait.                                                                   *)

Acquire(c) ==
    /\ pc[c] = "join"
    /\ references' = [references EXCEPT ![on[c]] = @ + 1]
    /\ Goto(c, "wait")
    /\ UNCHANGED <<disk, manager, on, known, completed, chunk, run, done, err, cancelFunc,
                   history>>

(* The last to leave cancels the download.                                 *)
LastOne(c) == references[on[c]] = 1
(* Mutant: a pull that leaves is counted twice.                            *)
Mut_ReleaseTwice(c) ==
    /\ references' = [references EXCEPT ![on[c]] = @ - 2]
    /\ cancelFunc' = [cancelFunc EXCEPT ![on[c]] = IF LastOne(c) THEN "called" ELSE @]
Release(c) ==
    /\ references' = [references EXCEPT ![on[c]] = @ - 1]
    /\ cancelFunc' = [cancelFunc EXCEPT ![on[c]] = IF LastOne(c) THEN "called" ELSE @]

(* The process ends; what it has in memory is lost.  When it starts again, *)
(* it removes the files that no manifest needs, unless OLLAMA_NOPRUNE.     *)
Restart ==
    /\ pc' = [c \in Pulls |-> IF pc[c] \in Ended THEN pc[c] ELSE "dead"]
    /\ on' = [c \in Pulls |-> None] /\ manager' = None
    /\ known' = [d \in Pulls |-> {}] /\ completed' = [d \in Pulls |-> Unprepared]
    /\ chunk' = [d \in Pulls |-> Untried]
    /\ run' = [d \in Pulls |-> "none"] /\ done' = [d \in Pulls |-> "nil"]
    /\ err' = [d \in Pulls |-> "none"] /\ references' = [d \in Pulls |-> 0]
    /\ cancelFunc' = [d \in Pulls |-> "nil"]
    /\ \/ UNCHANGED disk
       \/ /\ partial' = {} /\ partFiles' = [p \in Parts |-> NoFile]
            /\ blob' = IF \E c \in Pulls : pc[c] \in {"success", "hit"} THEN blob ELSE "absent"

(* Mutant: the last to leave forgets the download, which still ends.       *)
Mut_LeaveForgets(c) ==
    /\ pc[c] = "wait"
    /\ ~(LastOne(c) /\ cancelFunc[on[c]] = "nil")
    /\ manager' = IF LastOne(c) THEN None ELSE manager
    /\ Goto(c, "gone")
    /\ Release(c)
    /\ UNCHANGED <<disk, on, known, completed, chunk, run, done, err, history>>

Leave(c) ==
    /\ pc[c] = "wait"
    /\ ~(LastOne(c) /\ cancelFunc[on[c]] = "nil")
    /\ Goto(c, "gone")
    /\ Release(c)
    /\ UNCHANGED <<disk, manager, on, known, completed, chunk, run, done, err, history>>

(* The last one leaves before run has set CancelFunc: a call of nil.       *)
LeaveTooEarly(c) ==
    /\ pc[c] = "wait" /\ LastOne(c) /\ cancelFunc[on[c]] = "nil"
    /\ crashes < MaxCrashes
    /\ Restart
    /\ crashes' = crashes + 1
    /\ UNCHANGED short

SeeDone(c) ==
    /\ pc[c] = "wait" /\ done[on[c]] = "closed"
    /\ Goto(c, IF err[on[c]] = "nil" THEN "verify" ELSE "error")
    /\ Release(c)
    /\ UNCHANGED <<disk, manager, on, known, completed, chunk, run, done, err, history>>

(* PullModel checks the digest of what was downloaded.                     *)
Verify(c) ==
    /\ pc[c] = "verify"
    /\ Goto(c, IF blob = "whole" THEN "success" ELSE "error")
    /\ blob' = IF blob = "cut" THEN "absent" ELSE blob
    /\ UNCHANGED <<partial, partFiles, manager, on, downloads, history>>

-----------------------------------------------------------------------------
(* run.                                                                    *)

(* Mutant: a download that failed does not close done.                     *)
Mut_ReturnsSilently(d, error) ==
    /\ run' = [run EXCEPT ![d] = IF error = "nil" THEN "return" ELSE "over"]
    /\ err' = [err EXCEPT ![d] = error]

(* Its deferred calls: the download leaves the manager, then done closes.  *)
Returns(d, error) ==
    /\ run' = [run EXCEPT ![d] = "return"]
    /\ err' = [err EXCEPT ![d] = error]

(* Mutant: the data file is opened anew.                                   *)
Mut_TruncateToNothing(d) ==
    /\ run[d] = "start"
    /\ cancelFunc' = [cancelFunc EXCEPT ![d] = "set"]
    /\ partial' = {}
    /\ run' = [run EXCEPT ![d] = "direct"]
    /\ UNCHANGED <<blob, partFiles, manager, pulls, known, completed, chunk, done, err,
                   references, history>>

Truncate(d) ==
    /\ run[d] = "start"
    /\ cancelFunc' = [cancelFunc EXCEPT ![d] = "set"]
    /\ partial' = {b \in partial : b < Cardinality({a \in Bytes : a \div PartSize \in known[d]})}
    /\ run' = [run EXCEPT ![d] = "direct"]
    /\ UNCHANGED <<blob, partFiles, manager, pulls, known, completed, chunk, done, err,
                   references, history>>

DirectURL(d) ==
    /\ run[d] = "direct"
    /\ \/ /\ Returns(d, "error")
          /\ UNCHANGED chunk
       \/ /\ cancelFunc[d] # "called"
          /\ run' = [run EXCEPT ![d] = "parts"]
          /\ chunk' = [chunk EXCEPT ![d] =
                [p \in Parts |-> IF p \notin known[d] \/ completed[d][p] = Size(p)
                                 THEN "done" ELSE "todo"]]
          /\ UNCHANGED err
    /\ UNCHANGED <<disk, manager, pulls, known, completed, done, references, cancelFunc,
                   history>>

Failed(d) == \E p \in Parts : chunk[d][p] = "failed"
At(d, p, place) == run[d] = "parts" /\ chunk[d][p] = place

(* downloadChunk: some bytes of the rest of the part arrive, ...           *)
CopyN(d, p) ==
    /\ At(d, p, "todo") /\ cancelFunc[d] # "called" /\ ~Failed(d)
    /\ \E n \in completed[d][p]..Size(p) :
         /\ n = completed[d][p] => n = Size(p)
         /\ partial' = partial \union BytesOf(p, n)
         /\ chunk' = [chunk EXCEPT ![d][p] = "copied"]
         /\ completed' = [completed EXCEPT ![d][p] = n]
    /\ UNCHANGED <<blob, partFiles, manager, pulls, known, run, done, err, references,
                   cancelFunc, history>>

(* ... or the requests fail too often, after bytes that are not counted;   *)
(* or the download is cancelled.                                           *)
GiveUp(d, p) ==
    /\ At(d, p, "todo")
    /\ \E n \in completed[d][p]..Size(p) : partial' = partial \union BytesOf(p, n)
    /\ chunk' = [chunk EXCEPT ![d][p] = "failed"]
    /\ UNCHANGED <<blob, partFiles, manager, pulls, known, completed, run, done, err, references,
                   cancelFunc, history>>

(* writePart empties the part file, then writes it, or fails to; then the  *)
(* part is tried again, not for ever.                                      *)
OpenPart(d, p) ==
    /\ At(d, p, "copied")
    /\ partFiles' = [partFiles EXCEPT ![p] = Torn]
    /\ chunk' = [chunk EXCEPT ![d][p] = "torn"]
    /\ UNCHANGED <<blob, partial, manager, pulls, known, completed, run, done, err,
                   references, cancelFunc, history>>

WritePart(d, p) ==
    /\ At(d, p, "torn")
    /\ \/ /\ partFiles' = [partFiles EXCEPT ![p] = completed[d][p]]
          /\ chunk' = [chunk EXCEPT ![d][p] = IF completed[d][p] = Size(p) THEN "done" ELSE "todo"]
       \/ /\ \E next \in {"todo", "failed"} :
                /\ completed[d][p] = Size(p) => next = "failed"
                /\ chunk' = [chunk EXCEPT ![d][p] = next]
          /\ UNCHANGED partFiles
    /\ UNCHANGED <<blob, partial, manager, pulls, known, completed, run, done, err,
                   references, cancelFunc, history>>

(* Mutant: the errors of the parts are not looked at.                      *)
Mut_GroupWaitIgnoresErrors(d) ==
    /\ run[d] = "parts" /\ \A p \in Parts : chunk[d][p] \in {"done", "failed"}
    /\ run' = [run EXCEPT ![d] = "remove"]
    /\ UNCHANGED <<disk, manager, pulls, known, completed, chunk, done, err, references,
                   cancelFunc, history>>

GroupWait(d) ==
    /\ run[d] = "parts" /\ \A p \in Parts : chunk[d][p] \in {"done", "failed"}
    /\ IF Failed(d) THEN Returns(d, "error")
       ELSE run' = [run EXCEPT ![d] = "remove"] /\ UNCHANGED err
    /\ UNCHANGED <<disk, manager, pulls, known, completed, chunk, done, references,
                   cancelFunc, history>>

(* The part files are removed by number, from 0 up.                        *)
RemovePart(d) ==
    /\ run[d] = "remove"
    /\ LET p == Cardinality({q \in Parts : chunk[d][q] = "removed"})
       IN \/ /\ p < Cardinality(known[d]) /\ partFiles[p] # NoFile
             /\ partFiles' = [partFiles EXCEPT ![p] = NoFile]
             /\ chunk' = [chunk EXCEPT ![d][p] = "removed"]
             /\ UNCHANGED <<run, err>>
          \/ /\ p < Cardinality(known[d]) /\ partFiles[p] = NoFile
             /\ Returns(d, "error")
             /\ UNCHANGED <<partFiles, chunk>>
          \/ /\ p = Cardinality(known[d])
             /\ run' = [run EXCEPT ![d] = "rename"]
             /\ UNCHANGED <<partFiles, chunk, err>>
    /\ UNCHANGED <<blob, partial, manager, pulls, known, completed, done, references,
                   cancelFunc, history>>

Rename(d) ==
    /\ run[d] = "rename"
    /\ blob' = IF partial = Bytes THEN "whole" ELSE "cut"
    /\ partial' = {}
    /\ Returns(d, "nil")
    /\ UNCHANGED <<partFiles, manager, pulls, known, completed, chunk, done, references,
                   cancelFunc, history>>

Delete(d) ==
    /\ run[d] = "return"
    /\ manager' = None
    /\ run' = [run EXCEPT ![d] = "close"]
    /\ UNCHANGED <<disk, pulls, known, completed, chunk, done, err, references, cancelFunc,
                   history>>

(* Nobody looks at the parts of the download from then on.                 *)
CloseDone(d) ==
    /\ run[d] = "close"
    /\ done' = [done EXCEPT ![d] = "closed"]
    /\ run' = [run EXCEPT ![d] = "over"]
    /\ known' = [known EXCEPT ![d] = {}] /\ completed' = [completed EXCEPT ![d] = Unprepared]
    /\ chunk' = [chunk EXCEPT ![d] = Untried]
    /\ UNCHANGED <<disk, manager, pulls, err, references, cancelFunc, history>>

Crash ==
    /\ crashes < MaxCrashes
    /\ Restart
    /\ crashes' = crashes + 1
    /\ UNCHANGED short

-----------------------------------------------------------------------------
Prepare(c) == ReadParts(c) \/ HeadFails(c) \/ NewPart(c) \/ WriteNewPart(c)
Part(d, p) == CopyN(d, p) \/ GiveUp(d, p) \/ OpenPart(d, p) \/ WritePart(d, p)
Run(d) == \/ Truncate(d) \/ DirectURL(d) \/ GroupWait(d) \/ RemovePart(d) \/ Rename(d)
          \/ Delete(d) \/ CloseDone(d)

Next ==
    \/ \E c \in Pulls : \/ Stat(c) \/ LoadOrStore(c) \/ Prepare(c) \/ Acquire(c) \/ Leave(c)
                        \/ LeaveTooEarly(c) \/ SeeDone(c) \/ Verify(c)
    \/ \E d \in Pulls : Run(d) \/ \E p \in Parts : Part(d, p)
    \/ Crash

(* Goroutines are scheduled.  Nobody has to ask for the blob or to leave.  *)
Fairness ==
    \A c \in Pulls : /\ WF_vars(Prepare(c) \/ SeeDone(c))
                     /\ WF_vars(Run(c) \/ \E p \in Parts : Part(c, p))

Spec == Init /\ [][Next]_vars /\ Fairness
-----------------------------------------------------------------------------
TypeOK ==
    /\ short \in BOOLEAN /\ crashes \in 0..MaxCrashes
    /\ blob \in {"absent", "whole", "cut"} /\ partial \subseteq Bytes
    /\ partFiles \in [Parts -> Torn..PartSize]
    /\ manager \in Pulls \union {None} /\ on \in [Pulls -> Pulls \union {None}]
    /\ pc \in [Pulls -> Ended \union {"missing", "prepare", "head", "newPart", "join", "wait",
                                      "verify"}]
    /\ known \in [Pulls -> SUBSET Parts] /\ completed \in [Pulls -> [Parts -> 0..PartSize]]
    /\ chunk \in [Pulls -> [Parts -> {"todo", "copied", "torn", "done", "failed", "removed"}]]
    /\ run \in [Pulls -> {"none", "start", "direct", "parts", "remove", "rename", "return",
                          "close", "over"}]
    /\ done \in [Pulls -> {"nil", "open", "closed"}]
    /\ err \in [Pulls -> {"none", "nil", "error"}]
    /\ references \in [Pulls -> Nat] /\ cancelFunc \in [Pulls -> {"nil", "set", "called"}]

(* The data file and the part files have no lock: whoever prepares or runs *)
(* a download is alone, although downloads are forgotten before their      *)
(* waiters know that they ended.                                           *)
Working(d) == pc[d] \in {"prepare", "head", "newPart"}
              \/ run[d] \notin {"none", "close", "over"}
OneWriter == \A d, e \in Pulls : Working(d) /\ Working(e) => d = e

(* A part file never claims bytes the data file does not have, whenever a  *)
(* download stops or the process ends: what is resumed is right.  (Not so  *)
(* once a download took some part files for all of them: the data file is  *)
(* cut to their size.)                                                     *)
PartFilesTellTruth ==
    ~short => \A p \in Parts : partFiles[p] >= 0 => BytesOf(p, partFiles[p]) \subseteq partial

(* What is renamed to the blob is the blob, under the same condition.      *)
BlobIsWhole == ~short => blob # "cut"

(* Every pull that waits for a download is told how it ended, however it   *)
(* ends, except if the Prepare of the pull that started it failed.         *)
PrepareFailed(d) == pc[d] = "error" /\ run[d] = "none"
WaitersAnswered ==
    \A c \in Pulls :
        pc[c] = "wait" ~> pc[c] # "wait" \/ PrepareFailed(on[c])
=============================================================================
