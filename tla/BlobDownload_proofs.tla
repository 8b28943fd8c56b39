------------------------ MODULE BlobDownload_proofs ------------------------
(***************************************************************************)
(* Proofs about BlobDownload, for every finite set of pulls, every size of *)
(* the blob and of its parts, and any number of crashes.                   *)
(***************************************************************************)
EXTENDS BlobDownload, FiniteSetTheorems, TLAPS

-----------------------------------------------------------------------------
(* The parts of the blob.                                                  *)

(* The integer division of a byte by the size of a part.                   *)
LEMMA Division ==
  ASSUME NEW s \in Nat \ {0}, NEW b \in Nat, NEW p \in Nat
  PROVE  /\ b \div s \in Nat
         /\ p * s \in Nat
         /\ b \div s = p <=> p * s <= b /\ b < p * s + s
<1>1. b = s * (b \div s) + (b % s) /\ 0 <= b % s /\ b % s < s /\ b \div s \in Nat
  OBVIOUS
<1>. DEFINE q == b \div s
            r == b % s
<1>2. q \in Nat /\ r \in Nat /\ r < s /\ b = s * q + r
  BY <1>1
<1>. HIDE DEF q, r
<1>3. p * s \in Nat
  OBVIOUS
<1>4. ASSUME q = p PROVE p * s <= b /\ b < p * s + s
  <2>1. s * q = p * s
    BY <1>4, <1>2
  <2> QED BY <2>1, <1>2, <1>3
<1>5. ASSUME p * s <= b, b < p * s + s PROVE q = p
  <2>1. CASE q < p
    <3>1. (p - q) * s >= s
      BY <2>1, <1>2
    <3>2. p * s = s * q + (p - q) * s
      BY <1>2
    <3> QED BY <3>1, <3>2, <1>2, <1>5
  <2>2. CASE q > p
    <3>1. (q - p) * s >= s
      BY <2>2, <1>2
    <3>2. s * q = p * s + (q - p) * s
      BY <1>2
    <3> QED BY <3>1, <3>2, <1>2, <1>5
  <2> QED BY <2>1, <2>2, <1>2
<1> QED BY <1>2, <1>3, <1>4, <1>5 DEF q

(* A part has up to PartSize bytes, in a row.                              *)
LEMMA PartBytes ==
  ASSUME BlobAssumption, NEW p \in Parts
  PROVE  /\ p \in Nat /\ Size(p) \in 1..PartSize
         /\ BytesOf(p, Size(p)) = {b \in Bytes : b \div PartSize = p}
         /\ BytesOf(p, 0) = {}
         /\ \A n \in 0..Size(p) : BytesOf(p, n) \subseteq Bytes
<1>1. PICK b0 \in Bytes : b0 \div PartSize = p
  BY DEF Parts
<1>2. p \in Nat /\ b0 \in Nat /\ b0 < Total
  BY <1>1, Division DEF BlobAssumption, Bytes
<1>. DEFINE lo == p * PartSize
            hi == IF lo + PartSize <= Total THEN lo + PartSize - 1 ELSE Total - 1
            S == {b \in Bytes : b \div PartSize = p}
<1>3. lo \in Nat /\ PartSize \in Nat \ {0} /\ Total \in Nat \ {0}
  BY <1>2, Division DEF BlobAssumption
<1>4. \A b \in Bytes : b \div PartSize = p <=> lo <= b /\ b < lo + PartSize
  BY <1>2, <1>3, Division DEF Bytes
<1>5. lo <= b0 /\ b0 < lo + PartSize
  BY <1>1, <1>4
<1>. HIDE DEF lo
<1>6. hi \in Nat /\ lo <= hi /\ hi < lo + PartSize /\ hi < Total
  BY <1>2, <1>3, <1>5
<1>7. S = lo..hi
  BY <1>3, <1>4, <1>6 DEF Bytes
<1>. HIDE DEF hi
<1>8. Cardinality(S) = hi - lo + 1
  <2>1. Cardinality(lo..hi) = IF lo > hi THEN 0 ELSE hi - lo + 1
    BY <1>3, <1>6, FS_Interval
  <2>2. Cardinality(lo..hi) = hi - lo + 1
    BY <2>1, <1>3, <1>6
  <2> QED BY <2>2, <1>7
<1>9. Size(p) = hi - lo + 1
  BY <1>8 DEF Size
<1>10. BytesOf(p, Size(p)) = lo..hi
  BY <1>3, <1>6, <1>9 DEF BytesOf, lo
<1>11. BytesOf(p, 0) = {}
  BY <1>3 DEF BytesOf, lo
<1>12. \A n \in 0..Size(p) : BytesOf(p, n) \subseteq Bytes
  <2> SUFFICES ASSUME NEW n \in 0..Size(p) PROVE \A b \in BytesOf(p, n) : b \in Bytes
    OBVIOUS
  <2>1. BytesOf(p, n) = lo..lo + n - 1
    BY DEF BytesOf, lo
  <2> QED BY <2>1, <1>3, <1>6, <1>9 DEF Bytes
<1> QED BY <1>2, <1>3, <1>6, <1>7, <1>9, <1>10, <1>11, <1>12, SMTT(60)

(* The parts are numbered from 0 without a gap.                            *)
LEMMA PartNumbers ==
  ASSUME BlobAssumption
  PROVE  \E k \in Nat : Parts = 0..k
<1>. DEFINE k == (Total - 1) \div PartSize
<1>1. Total - 1 \in Nat /\ PartSize \in Nat \ {0} /\ Total \in Nat
  BY DEF BlobAssumption
<1>2. k \in Nat /\ k * PartSize \in Nat /\ k * PartSize <= Total - 1
  BY <1>1, Division
<1>3. ASSUME NEW b \in Bytes PROVE b \div PartSize \in 0..k
  <2>. DEFINE p == b \div PartSize
  <2>1. b \in Nat /\ b <= Total - 1
    BY <1>1 DEF Bytes
  <2>2. p \in Nat /\ p * PartSize \in Nat /\ p * PartSize <= b
    BY <2>1, <1>1, Division
  <2>3. Total - 1 < k * PartSize + PartSize
    BY <1>1, <1>2, Division
  <2>4. CASE p > k
    <3>. HIDE DEF p, k
    <3>1. (p - k) * PartSize >= PartSize
      BY <2>4, <2>2, <1>2, <1>1
    <3>2. p * PartSize = k * PartSize + (p - k) * PartSize
      BY <2>2, <1>2, <1>1
    <3> QED BY <3>1, <3>2, <2>1, <2>2, <2>3, <1>1, <1>2
  <2> QED BY <2>2, <2>4, <1>2
<1>4. ASSUME NEW p \in 0..k PROVE p \in Parts
  <2>. DEFINE b == p * PartSize
  <2>1. b \in Nat /\ p \in Nat
    BY <1>1, <1>2, Division
  <2>2. b <= k * PartSize
    <3>. HIDE DEF k
    <3>1. (k - p) * PartSize >= 0 /\ k * PartSize = p * PartSize + (k - p) * PartSize
      BY <1>1, <1>2, <2>1
    <3> QED BY <3>1, <2>1, <1>2
  <2>3. b \div PartSize = p
    BY <1>1, <2>1, Division
  <2>4. b \in Bytes
    BY <2>1, <2>2, <1>1, <1>2 DEF Bytes
  <2> QED BY <2>3, <2>4 DEF Parts
<1>5. Parts = 0..k
  BY <1>3, <1>4 DEF Parts
<1> QED BY <1>2, <1>5

-----------------------------------------------------------------------------
Waiting(d) == {c \in Pulls : pc[c] = "wait" /\ on[c] = d}

(* references counts those that wait.                                      *)
RefInv ==
    /\ \A d \in Pulls : references[d] = Cardinality(Waiting(d))
    /\ \A c \in Pulls : pc[c] \in {"prepare", "head", "newPart", "join", "wait"} => on[c] \in Pulls

(* A download that is not prepared yet has nothing, and gets its parts in  *)
(* the order of their numbers.                                             *)
Before == {"idle", "missing", "prepare"}
Making == {"head", "newPart"}
FreshInv ==
    \A c \in Pulls :
        /\ pc[c] \in Before \union Making => run[c] = "none" /\ completed[c] = Unprepared
        /\ pc[c] \in Before => known[c] = {}
        /\ pc[c] \in Making => \E n \in Parts : known[c] = 0..n - 1

(* Whoever prepares or runs a download is the one in the manager.          *)
OwnInv == \A d \in Pulls : Working(d) => manager = d

(* The stages of the downloads are a function of the downloads.            *)
LEMMA Stages ==
  ASSUME TypeOK
  PROVE  DOMAIN run = Pulls
<1>1. run \in [Pulls -> {"none", "start", "direct", "parts", "remove", "rename", "return",
                         "close", "over"}]
  BY DEF TypeOK
<1> QED BY <1>1

(* A download that is prepared or runs stays the one in the manager, until *)
(* it has done its last step on the files.                                 *)
LEMMA OwnStep ==
  ASSUME BlobAssumption, TypeOK, FreshInv, OwnInv, [Next]_vars
  PROVE  OwnInv'
<1>. USE DEF OwnInv, Working
<1>1. CASE UNCHANGED vars
  BY <1>1, BlobAssumption DEF vars, TypeOK, disk, pulls, downloads, history, Goto
<1>2. ASSUME NEW c \in Pulls, Stat(c) PROVE OwnInv'
  BY <1>2, BlobAssumption DEF Stat, TypeOK, disk, pulls, downloads, history, Goto
<1>3. ASSUME NEW c \in Pulls, LoadOrStore(c) PROVE OwnInv'
  BY <1>3, BlobAssumption DEF LoadOrStore, TypeOK, disk, pulls, downloads, history, Goto, FreshInv, Before
<1>4. ASSUME NEW c \in Pulls, ReadParts(c) PROVE OwnInv'
  BY <1>4, BlobAssumption DEF ReadParts, TypeOK, disk, pulls, downloads, history, Goto, FailPrepare, FreshInv, Making, Before
<1>5. ASSUME NEW c \in Pulls, HeadFails(c) PROVE OwnInv'
  BY <1>5, BlobAssumption DEF HeadFails, TypeOK, disk, pulls, downloads, history, Goto, FailPrepare, FreshInv, Making, Before
<1>6. ASSUME NEW c \in Pulls, NewPart(c) PROVE OwnInv'
  BY <1>6, BlobAssumption DEF NewPart, TypeOK, disk, pulls, downloads, history, Goto
<1>7. ASSUME NEW c \in Pulls, WriteNewPart(c) PROVE OwnInv'
  BY <1>7, BlobAssumption DEF WriteNewPart, TypeOK, disk, pulls, downloads, history, Goto, FailPrepare, FreshInv, Making, Before
<1>8. ASSUME NEW c \in Pulls, Acquire(c) PROVE OwnInv'
  BY <1>8, BlobAssumption DEF Acquire, TypeOK, disk, pulls, downloads, history, Goto
<1>9. ASSUME NEW c \in Pulls, Leave(c) PROVE OwnInv'
  BY <1>9, BlobAssumption DEF Leave, TypeOK, disk, pulls, downloads, history, Goto, Release
<1>10. ASSUME NEW c \in Pulls, LeaveTooEarly(c) PROVE OwnInv'
  BY <1>10, BlobAssumption DEF LeaveTooEarly, TypeOK, disk, pulls, downloads, history, Goto, Restart, Ended
<1>11. ASSUME NEW c \in Pulls, SeeDone(c) PROVE OwnInv'
  BY <1>11, BlobAssumption DEF SeeDone, TypeOK, disk, pulls, downloads, history, Goto, Release
<1>12. ASSUME NEW c \in Pulls, Verify(c) PROVE OwnInv'
  BY <1>12, BlobAssumption DEF Verify, TypeOK, disk, pulls, downloads, history, Goto
<1>13. ASSUME NEW d \in Pulls, Truncate(d) PROVE OwnInv'
  BY <1>13, BlobAssumption DEF Truncate, TypeOK, disk, pulls, downloads, history, Goto
<1>14. ASSUME NEW d \in Pulls, DirectURL(d) PROVE OwnInv'
  <2>1. run[d] = "direct" /\ UNCHANGED <<manager, pc>>
    BY <1>14 DEF DirectURL, pulls
  <2>2. \E place \in {"return", "parts"} : run' = [run EXCEPT ![d] = place]
    BY <1>14 DEF DirectURL, Returns
  <2>3. DOMAIN run = Pulls
    BY Stages
  <2>4. \A e \in Pulls : Working(e)' => Working(e)
    BY <2>1, <2>2, <2>3
  <2> QED BY <2>1, <2>4
<1>15. ASSUME NEW d \in Pulls, GroupWait(d) PROVE OwnInv'
  <2>1. run[d] = "parts" /\ UNCHANGED <<manager, pc>>
    BY <1>15 DEF GroupWait, pulls
  <2>2. \E place \in {"return", "remove"} : run' = [run EXCEPT ![d] = place]
    BY <1>15 DEF GroupWait, Returns
  <2>3. DOMAIN run = Pulls
    BY Stages
  <2>4. \A e \in Pulls : Working(e)' => Working(e)
    BY <2>1, <2>2, <2>3
  <2> QED BY <2>1, <2>4
<1>16. ASSUME NEW d \in Pulls, RemovePart(d) PROVE OwnInv'
  BY <1>16, BlobAssumption DEF RemovePart, TypeOK, disk, pulls, downloads, history, Goto, Returns
<1>17. ASSUME NEW d \in Pulls, Rename(d) PROVE OwnInv'
  BY <1>17, BlobAssumption DEF Rename, TypeOK, disk, pulls, downloads, history, Goto, Returns
<1>18. ASSUME NEW d \in Pulls, Delete(d) PROVE OwnInv'
  <2>1. run[d] = "return" /\ pc' = pc /\ run' = [run EXCEPT ![d] = "close"]
    BY <1>18 DEF Delete, pulls
  <2>2. DOMAIN run = Pulls
    BY Stages
  <2>3. ASSUME NEW e \in Pulls, Working(e)' PROVE FALSE
    <3>1. CASE e = d
      <4>1. pc[d] \in {"prepare", "head", "newPart"}
        BY <2>1, <2>2, <2>3, <3>1
      <4>2. run[d] = "none"
        BY <4>1 DEF FreshInv, Before, Making
      <4> QED BY <2>1, <4>2
    <3>2. CASE e # d
      <4>1. Working(e) /\ Working(d)
        BY <2>1, <2>2, <2>3, <3>2
      <4> QED BY <3>2, <4>1
    <3> QED BY <3>1, <3>2
  <2> QED BY <2>3
<1>19. ASSUME NEW d \in Pulls, CloseDone(d) PROVE OwnInv'
  BY <1>19, BlobAssumption DEF CloseDone, TypeOK, disk, pulls, downloads, history, Goto
<1>20. ASSUME NEW d \in Pulls, NEW p \in Parts, CopyN(d, p) PROVE OwnInv'
  BY <1>20, BlobAssumption DEF CopyN, TypeOK, disk, pulls, downloads, history, Goto, At
<1>21. ASSUME NEW d \in Pulls, NEW p \in Parts, GiveUp(d, p) PROVE OwnInv'
  BY <1>21, BlobAssumption DEF GiveUp, TypeOK, disk, pulls, downloads, history, Goto, At
<1>22. ASSUME NEW d \in Pulls, NEW p \in Parts, OpenPart(d, p) PROVE OwnInv'
  BY <1>22, BlobAssumption DEF OpenPart, TypeOK, disk, pulls, downloads, history, Goto, At
<1>23. ASSUME NEW d \in Pulls, NEW p \in Parts, WritePart(d, p) PROVE OwnInv'
  BY <1>23, BlobAssumption DEF WritePart, TypeOK, disk, pulls, downloads, history, Goto, At
<1>24. ASSUME Crash PROVE OwnInv'
  BY <1>24, BlobAssumption DEF Crash, TypeOK, disk, pulls, downloads, history, Goto, Restart, Ended
<1> QED
  BY <1>1, <1>2, <1>3, <1>4, <1>5, <1>6, <1>7, <1>8, <1>9, <1>10, <1>11, <1>12, <1>13, <1>14, <1>15, <1>16, <1>17, <1>18, <1>19, <1>20, <1>21, <1>22, <1>23, <1>24 DEF Next, Prepare, Run, Part

(* A download gets its parts in the order of their numbers, before it runs. *)
LEMMA FreshStep ==
  ASSUME BlobAssumption, TypeOK, FreshInv, OwnInv, [Next]_vars
  PROVE  FreshInv'
<1>. USE DEF FreshInv, Before, Making
<1>0. PICK k \in Nat : Parts = 0..k
  BY BlobAssumption, PartNumbers
<1>1. CASE UNCHANGED vars
  BY <1>1, <1>0 DEF vars, TypeOK, disk, pulls, downloads, history, Goto
<1>2. ASSUME NEW c \in Pulls, Stat(c) PROVE FreshInv'
  BY <1>2, <1>0, SMTT(60) DEF Stat, TypeOK, disk, pulls, downloads, history, Goto
<1>3. ASSUME NEW c \in Pulls, LoadOrStore(c) PROVE FreshInv'
  <2>1. /\ pc[c] = "missing" /\ \A q \in Pulls : q # c => pc'[q] = pc[q]
        /\ pc'[c] \in {"prepare", "join"}
        /\ UNCHANGED <<run, completed, known>>
    BY <1>3 DEF LoadOrStore, TypeOK, downloads, Goto
  <2>2. ASSUME NEW q \in Pulls PROVE
           /\ pc'[q] \in Before \union Making => run'[q] = "none" /\ completed'[q] = Unprepared
           /\ pc'[q] \in Before => known'[q] = {}
           /\ pc'[q] \in Making => \E n \in Parts : known'[q] = 0..n - 1
    <3>1. CASE q = c
      BY <2>1, <3>1
    <3>2. CASE q # c
      BY <2>1, <3>2
    <3> QED BY <3>1, <3>2
  <2> QED BY <2>2
<1>4. ASSUME NEW c \in Pulls, ReadParts(c) PROVE FreshInv'
  <2>1. /\ pc[c] = "prepare" /\ \A q \in Pulls : q # c => pc'[q] = pc[q]
        /\ pc'[c] \in {"head", "join", "error"}
        /\ \A q \in Pulls : q # c => run'[q] = run[q] /\ completed'[q] = completed[q] /\ known'[q] = known[q]
        /\ pc'[c] = "head" => UNCHANGED <<run, completed, known>>
    BY <1>4 DEF ReadParts, FailPrepare, TypeOK, Goto
  <2>2. 0 \in Parts /\ {} = 0..0 - 1
    BY <1>0
  <2>3. ASSUME NEW q \in Pulls PROVE
           /\ pc'[q] \in Before \union Making => run'[q] = "none" /\ completed'[q] = Unprepared
           /\ pc'[q] \in Before => known'[q] = {}
           /\ pc'[q] \in Making => \E n \in Parts : known'[q] = 0..n - 1
    <3>1. CASE q = c
      <4>1. pc'[q] = "head" => known'[q] = 0..0 - 1
        BY <2>1, <2>2, <3>1
      <4> QED BY <2>1, <2>2, <3>1, <4>1
    <3>2. CASE q # c
      BY <2>1, <3>2
    <3> QED BY <3>1, <3>2
  <2> QED BY <2>3
<1>5. ASSUME NEW c \in Pulls, HeadFails(c) PROVE FreshInv'
  BY <1>5, <1>0 DEF HeadFails, TypeOK, disk, pulls, downloads, history, Goto, FailPrepare
<1>6. ASSUME NEW c \in Pulls, NewPart(c) PROVE FreshInv'
  BY <1>6, <1>0 DEF NewPart, TypeOK, disk, pulls, downloads, history, Goto
<1>7. ASSUME NEW c \in Pulls, WriteNewPart(c) PROVE FreshInv'
  <2>1. PICK n \in Parts : known[c] = 0..n - 1
    BY <1>7 DEF WriteNewPart
  <2>2. NextPart(c) = n
    <3>1. n \in Nat
      BY <1>0
    <3>2. Cardinality(0..n - 1) = IF 0 > n - 1 THEN 0 ELSE (n - 1) - 0 + 1
      BY <3>1, FS_Interval
    <3>3. Cardinality(0..n - 1) = n
      BY <3>1, <3>2
    <3> QED BY <2>1, <3>3 DEF NextPart
  <2>3. (0..n - 1) \union {n} = 0..n
    BY <1>0
  <2>4. 0..n # Parts => n + 1 \in Parts
    BY <1>0
  <2>5. n = n + 1 - 1
    BY <1>0
  <2>6. /\ pc[c] = "newPart" /\ \A q \in Pulls : q # c => pc'[q] = pc[q]
        /\ pc'[c] \in {"head", "join", "error"}
        /\ \A q \in Pulls : q # c => run'[q] = run[q] /\ known'[q] = known[q]
        /\ pc'[c] = "head" => run' = run /\ known'[c] = 0..n /\ 0..n # Parts
        /\ completed' = completed
    <3>1. CASE FailPrepare(c) /\ UNCHANGED <<partFiles, known, run>>
      BY <1>7, <3>1 DEF WriteNewPart, FailPrepare, TypeOK, Goto
    <3>2. CASE ~(FailPrepare(c) /\ UNCHANGED <<partFiles, known, run>>)
      <4>1. known' = [known EXCEPT ![c] = known[c] \union {n}]
        BY <1>7, <3>2, <2>2 DEF WriteNewPart
      <4>2. known'[c] = 0..n /\ \A q \in Pulls : q # c => known'[q] = known[q]
        BY <4>1, <2>1, <2>3 DEF TypeOK
      <4>. HIDE <4>1
      <4> QED BY <1>7, <3>2, <4>2 DEF WriteNewPart, TypeOK, Goto
    <3> QED BY <3>1, <3>2
  <2>7. ASSUME NEW q \in Pulls PROVE
           /\ pc'[q] \in Before \union Making => run'[q] = "none" /\ completed'[q] = Unprepared
           /\ pc'[q] \in Before => known'[q] = {}
           /\ pc'[q] \in Making => \E m \in Parts : known'[q] = 0..m - 1
    <3>1. CASE q = c
      <4>1. pc'[q] = "head" => known'[q] = 0..(n + 1) - 1 /\ n + 1 \in Parts
        <5>2. pc'[q] = "head" => known'[q] = 0..n /\ n + 1 \in Parts
          BY <2>4, <2>6, <3>1
        <5>3. 0..n = 0..(n + 1) - 1
          <6>1. n + 1 - 1 = n /\ n \in Int
            BY <1>0
          <6>. DEFINE m == (n + 1) - 1
          <6>2. m = n
            BY <6>1
          <6>. HIDE DEF m
          <6>3. 0..n = 0..m
            BY <6>2
          <6> QED BY <6>3 DEF m
        <5> QED BY <5>2, <5>3
      <4> QED BY <2>6, <3>1, <4>1
    <3>2. CASE q # c
      BY <2>6, <3>2
    <3> QED BY <3>1, <3>2
  <2> QED BY <2>7
<1>8. ASSUME NEW c \in Pulls, Acquire(c) PROVE FreshInv'
  BY <1>8, <1>0 DEF Acquire, TypeOK, disk, pulls, downloads, history, Goto
<1>9. ASSUME NEW c \in Pulls, Leave(c) PROVE FreshInv'
  BY <1>9, <1>0 DEF Leave, TypeOK, disk, pulls, downloads, history, Goto, Release
<1>10. ASSUME NEW c \in Pulls, LeaveTooEarly(c) PROVE FreshInv'
  BY <1>10, <1>0 DEF LeaveTooEarly, TypeOK, disk, pulls, downloads, history, Goto, Restart, Ended
<1>11. ASSUME NEW c \in Pulls, SeeDone(c) PROVE FreshInv'
  BY <1>11, <1>0 DEF SeeDone, TypeOK, disk, pulls, downloads, history, Goto, Release
<1>12. ASSUME NEW c \in Pulls, Verify(c) PROVE FreshInv'
  BY <1>12, <1>0 DEF Verify, TypeOK, disk, pulls, downloads, history, Goto
<1>13. ASSUME NEW d \in Pulls, Truncate(d) PROVE FreshInv'
  BY <1>13, <1>0 DEF Truncate, TypeOK, disk, pulls, downloads, history, Goto
<1>14. ASSUME NEW d \in Pulls, DirectURL(d) PROVE FreshInv'
  BY <1>14, <1>0 DEF DirectURL, TypeOK, disk, pulls, downloads, history, Goto, Returns, Working
<1>15. ASSUME NEW d \in Pulls, GroupWait(d) PROVE FreshInv'
  BY <1>15, <1>0 DEF GroupWait, TypeOK, disk, pulls, downloads, history, Goto, Returns
<1>16. ASSUME NEW d \in Pulls, RemovePart(d) PROVE FreshInv'
  BY <1>16, <1>0 DEF RemovePart, TypeOK, disk, pulls, downloads, history, Goto, Returns
<1>17. ASSUME NEW d \in Pulls, Rename(d) PROVE FreshInv'
  BY <1>17, <1>0 DEF Rename, TypeOK, disk, pulls, downloads, history, Goto, Returns
<1>18. ASSUME NEW d \in Pulls, Delete(d) PROVE FreshInv'
  BY <1>18, <1>0 DEF Delete, TypeOK, disk, pulls, downloads, history, Goto
<1>19. ASSUME NEW d \in Pulls, CloseDone(d) PROVE FreshInv'
  BY <1>19, <1>0 DEF CloseDone, TypeOK, disk, pulls, downloads, history, Goto
<1>20. ASSUME NEW d \in Pulls, NEW p \in Parts, CopyN(d, p) PROVE FreshInv'
  BY <1>20, <1>0, SMTT(60) DEF CopyN, TypeOK, disk, pulls, downloads, history, Goto, At
<1>21. ASSUME NEW d \in Pulls, NEW p \in Parts, GiveUp(d, p) PROVE FreshInv'
  BY <1>21, <1>0 DEF GiveUp, TypeOK, disk, pulls, downloads, history, Goto, At
<1>22. ASSUME NEW d \in Pulls, NEW p \in Parts, OpenPart(d, p) PROVE FreshInv'
  BY <1>22, <1>0 DEF OpenPart, TypeOK, disk, pulls, downloads, history, Goto, At
<1>23. ASSUME NEW d \in Pulls, NEW p \in Parts, WritePart(d, p) PROVE FreshInv'
  BY <1>23, <1>0 DEF WritePart, TypeOK, disk, pulls, downloads, history, Goto, At
<1>24. ASSUME Crash PROVE FreshInv'
  BY <1>24, <1>0 DEF Crash, TypeOK, disk, pulls, downloads, history, Goto, Restart, Ended
<1> QED
  BY <1>1, <1>2, <1>3, <1>4, <1>5, <1>6, <1>7, <1>8, <1>9, <1>10, <1>11, <1>12, <1>13, <1>14, <1>15, <1>16, <1>17, <1>18, <1>19, <1>20, <1>21, <1>22, <1>23, <1>24 DEF Next, Prepare, Run, Part

(* references keeps counting those that wait.                              *)
LEMMA RefStep ==
  ASSUME BlobAssumption, TypeOK, RefInv, [Next]_vars
  PROVE  RefInv'
<1>. USE DEF RefInv
<1>0. \A d \in Pulls : IsFiniteSet(Waiting(d))
  BY FS_Subset DEF BlobAssumption, Waiting
<1>1. CASE UNCHANGED vars
  BY <1>1 DEF vars, Waiting, TypeOK, disk, pulls, downloads, history, Goto
<1>2. ASSUME NEW c \in Pulls, Stat(c) PROVE RefInv'
  BY <1>2 DEF Stat, Waiting, TypeOK, disk, pulls, downloads, history, Goto
<1>3. ASSUME NEW c \in Pulls, LoadOrStore(c) PROVE RefInv'
  <2>1. /\ pc[c] = "missing" /\ \A q \in Pulls : q # c => pc'[q] = pc[q]
        /\ pc'[c] \in {"prepare", "join"}
        /\ on' \in {[on EXCEPT ![c] = c], [on EXCEPT ![c] = manager]} /\ (manager \in Pulls \/ on' = [on EXCEPT ![c] = c])
        /\ references' = references
    BY <1>3 DEF LoadOrStore, TypeOK, Goto, downloads
  <2>2. \A d \in Pulls : Waiting(d)' = Waiting(d)
    BY <2>1 DEF Waiting, TypeOK
  <2> QED BY <2>1, <2>2, ZenonT(60) DEF TypeOK
<1>4. ASSUME NEW c \in Pulls, ReadParts(c) PROVE RefInv'
  <2>1. /\ pc[c] = "prepare" /\ \A q \in Pulls : q # c => pc'[q] = pc[q]
        /\ pc'[c] \in {"head", "join", "error"}
        /\ on' = on
        /\ references' = references
    BY <1>4 DEF ReadParts, TypeOK, FailPrepare, Goto
  <2>2. \A d \in Pulls : Waiting(d)' = Waiting(d)
    BY <2>1 DEF Waiting, TypeOK
  <2> QED BY <2>1, <2>2 DEF TypeOK
<1>5. ASSUME NEW c \in Pulls, HeadFails(c) PROVE RefInv'
  BY <1>5 DEF HeadFails, Waiting, TypeOK, disk, pulls, downloads, history, Goto, FailPrepare
<1>6. ASSUME NEW c \in Pulls, NewPart(c) PROVE RefInv'
  BY <1>6, SMTT(60) DEF NewPart, Waiting, TypeOK, disk, pulls, downloads, history, Goto
<1>7. ASSUME NEW c \in Pulls, WriteNewPart(c) PROVE RefInv'
  <2>1. /\ pc[c] = "newPart" /\ \A q \in Pulls : q # c => pc'[q] = pc[q]
        /\ pc'[c] \in {"head", "join", "error"}
        /\ on' = on
        /\ references' = references
    BY <1>7 DEF WriteNewPart, TypeOK, FailPrepare, Goto
  <2>2. \A d \in Pulls : Waiting(d)' = Waiting(d)
    BY <2>1 DEF Waiting, TypeOK
  <2> QED BY <2>1, <2>2 DEF TypeOK
<1>8. ASSUME NEW c \in Pulls, Acquire(c) PROVE RefInv'
  <2>1. /\ pc[c] = "join" /\ pc'[c] = "wait" /\ on' = on /\ \A q \in Pulls : q # c => pc'[q] = pc[q]
        /\ references' = [references EXCEPT ![on[c]] = @ + 1]
    BY <1>8 DEF Acquire, TypeOK, Goto
  <2>2. on[c] \in Pulls
    BY <2>1
  <2>3. \A d \in Pulls : Waiting(d)' = IF on[c] = d THEN Waiting(d) \union {c} ELSE Waiting(d)
    BY <2>1 DEF Waiting
  <2>4. ASSUME NEW d \in Pulls PROVE references'[d] = Cardinality(Waiting(d))'
    <3>1. Cardinality(Waiting(d) \union {c}) = IF c \in Waiting(d) THEN Cardinality(Waiting(d)) ELSE Cardinality(Waiting(d)) + 1
      BY <1>0, FS_AddElement
    <3>2. c \notin Waiting(d)
      BY <2>1 DEF Waiting
    <3>3. references'[d] = IF on[c] = d THEN references[d] + 1 ELSE references[d]
      BY <2>1, <2>2 DEF TypeOK
    <3> QED BY <3>1, <3>2, <3>3, <2>3
  <2> QED BY <2>1, <2>4
<1>9. ASSUME NEW c \in Pulls, Leave(c) PROVE RefInv'
  <2>1. /\ pc[c] = "wait" /\ on' = on /\ \A q \in Pulls : q # c => pc'[q] = pc[q]
        /\ pc'[c] \notin {"prepare", "head", "newPart", "join", "wait"}
        /\ references' = [references EXCEPT ![on[c]] = @ - 1]
    BY <1>9 DEF Leave, Release, TypeOK, Goto
  <2>2. on[c] \in Pulls
    BY <2>1
  <2>3. \A d \in Pulls : Waiting(d)' = Waiting(d) \ {c}
    BY <2>1 DEF Waiting
  <2>4. ASSUME NEW d \in Pulls PROVE references'[d] = Cardinality(Waiting(d))'
    <3>1. Cardinality(Waiting(d) \ {c}) = IF c \in Waiting(d) THEN Cardinality(Waiting(d)) - 1 ELSE Cardinality(Waiting(d))
      BY <1>0, FS_RemoveElement
    <3>2. c \in Waiting(d) <=> on[c] = d
      BY <2>1 DEF Waiting
    <3>3. references'[d] = IF on[c] = d THEN references[d] - 1 ELSE references[d]
      BY <2>1, <2>2 DEF TypeOK
    <3> QED BY <3>1, <3>2, <3>3, <2>3
  <2> QED BY <2>1, <2>4
<1>10. ASSUME NEW c \in Pulls, LeaveTooEarly(c) PROVE RefInv'
  <2>1. /\ \A q \in Pulls : pc'[q] \notin {"prepare", "head", "newPart", "join", "wait"}
        /\ references' = [d \in Pulls |-> 0]
    BY <1>10 DEF LeaveTooEarly, Restart, Ended
  <2>2. \A d \in Pulls : Waiting(d)' = {}
    BY <2>1 DEF Waiting
  <2> QED BY <2>1, <2>2, FS_EmptySet
<1>11. ASSUME NEW c \in Pulls, SeeDone(c) PROVE RefInv'
  <2>1. /\ pc[c] = "wait" /\ on' = on /\ \A q \in Pulls : q # c => pc'[q] = pc[q]
        /\ pc'[c] \notin {"prepare", "head", "newPart", "join", "wait"}
        /\ references' = [references EXCEPT ![on[c]] = @ - 1]
    BY <1>11 DEF SeeDone, Release, TypeOK, Goto
  <2>2. on[c] \in Pulls
    BY <2>1
  <2>3. \A d \in Pulls : Waiting(d)' = Waiting(d) \ {c}
    BY <2>1 DEF Waiting
  <2>4. ASSUME NEW d \in Pulls PROVE references'[d] = Cardinality(Waiting(d))'
    <3>1. Cardinality(Waiting(d) \ {c}) = IF c \in Waiting(d) THEN Cardinality(Waiting(d)) - 1 ELSE Cardinality(Waiting(d))
      BY <1>0, FS_RemoveElement
    <3>2. c \in Waiting(d) <=> on[c] = d
      BY <2>1 DEF Waiting
    <3>3. references'[d] = IF on[c] = d THEN references[d] - 1 ELSE references[d]
      BY <2>1, <2>2 DEF TypeOK
    <3> QED BY <3>1, <3>2, <3>3, <2>3
  <2> QED BY <2>1, <2>4
<1>12. ASSUME NEW c \in Pulls, Verify(c) PROVE RefInv'
  BY <1>12 DEF Verify, Waiting, TypeOK, disk, pulls, downloads, history, Goto
<1>13. ASSUME NEW d \in Pulls, Truncate(d) PROVE RefInv'
  BY <1>13 DEF Truncate, Waiting, TypeOK, disk, pulls, downloads, history, Goto
<1>14. ASSUME NEW d \in Pulls, DirectURL(d) PROVE RefInv'
  BY <1>14 DEF DirectURL, Waiting, TypeOK, disk, pulls, downloads, history, Goto, Returns
<1>15. ASSUME NEW d \in Pulls, GroupWait(d) PROVE RefInv'
  BY <1>15 DEF GroupWait, Waiting, TypeOK, disk, pulls, downloads, history, Goto, Returns
<1>16. ASSUME NEW d \in Pulls, RemovePart(d) PROVE RefInv'
  BY <1>16 DEF RemovePart, Waiting, TypeOK, disk, pulls, downloads, history, Goto, Returns
<1>17. ASSUME NEW d \in Pulls, Rename(d) PROVE RefInv'
  BY <1>17 DEF Rename, Waiting, pulls
<1>18. ASSUME NEW d \in Pulls, Delete(d) PROVE RefInv'
  BY <1>18 DEF Delete, Waiting, TypeOK, disk, pulls, downloads, history, Goto
<1>19. ASSUME NEW d \in Pulls, CloseDone(d) PROVE RefInv'
  BY <1>19 DEF CloseDone, Waiting, pulls
<1>20. ASSUME NEW d \in Pulls, NEW p \in Parts, CopyN(d, p) PROVE RefInv'
  BY <1>20 DEF CopyN, Waiting, pulls
<1>21. ASSUME NEW d \in Pulls, NEW p \in Parts, GiveUp(d, p) PROVE RefInv'
  BY <1>21 DEF GiveUp, Waiting, pulls
<1>22. ASSUME NEW d \in Pulls, NEW p \in Parts, OpenPart(d, p) PROVE RefInv'
  BY <1>22 DEF OpenPart, Waiting, TypeOK, disk, pulls, downloads, history, Goto, At
<1>23. ASSUME NEW d \in Pulls, NEW p \in Parts, WritePart(d, p) PROVE RefInv'
  BY <1>23 DEF WritePart, Waiting, TypeOK, disk, pulls, downloads, history, Goto, At
<1>24. ASSUME Crash PROVE RefInv'
  <2>1. /\ \A q \in Pulls : pc'[q] \notin {"prepare", "head", "newPart", "join", "wait"}
        /\ references' = [d \in Pulls |-> 0]
    BY <1>24 DEF Crash, Restart, Ended
  <2>2. \A d \in Pulls : Waiting(d)' = {}
    BY <2>1 DEF Waiting
  <2> QED BY <2>1, <2>2, FS_EmptySet
<1> QED
  BY <1>1, <1>2, <1>3, <1>4, <1>5, <1>6, <1>7, <1>8, <1>9, <1>10, <1>11, <1>12, <1>13, <1>14, <1>15, <1>16, <1>17, <1>18, <1>19, <1>20, <1>21, <1>22, <1>23, <1>24 DEF Next, Prepare, Run, Part

(* Every variable keeps its type.                                          *)
LEMMA TypeStep ==
  ASSUME BlobAssumption, TypeOK, FreshInv, RefInv', [Next]_vars
  PROVE  TypeOK'
<1>. USE DEF TypeOK
<1>0. /\ \A d \in Pulls : references'[d] \in Nat
      /\ \A p \in Parts : Size(p) \in 1..PartSize /\ \A n \in 0..Size(p) : BytesOf(p, n) \subseteq Bytes
      /\ MaxCrashes \in Nat /\ PartSize \in Nat
      /\ NoFile \in Torn..PartSize /\ Torn \in Torn..PartSize /\ 0 \in Torn..PartSize
      /\ \A n \in 0..PartSize : n \in Torn..PartSize
      /\ \A n \in Torn..PartSize : n \notin {NoFile, Torn} => n \in 0..PartSize
  <2>1. \A d \in Pulls : references'[d] = Cardinality(Waiting(d)')
    BY DEF RefInv
  <2>2. \A d \in Pulls : Waiting(d)' \in SUBSET Pulls
    BY DEF Waiting
  <2>3. \A d \in Pulls : Cardinality(Waiting(d)') \in Nat
    BY <2>2, FS_Subset, FS_CardinalityType DEF BlobAssumption
  <2>4. \A p \in Parts : Size(p) \in 1..PartSize /\ \A n \in 0..Size(p) : BytesOf(p, n) \subseteq Bytes
    BY PartBytes
  <2>5. MaxCrashes \in Nat /\ PartSize \in Nat
    BY DEF BlobAssumption
  <2>6. /\ NoFile \in Torn..PartSize /\ Torn \in Torn..PartSize /\ 0 \in Torn..PartSize
        /\ \A n \in 0..PartSize : n \in Torn..PartSize
        /\ \A n \in Torn..PartSize : n \notin {NoFile, Torn} => n \in 0..PartSize
    BY <2>5 DEF NoFile, Torn
  <2>. HIDE DEF TypeOK
  <2> QED BY <2>1, <2>3, <2>4, <2>5, <2>6
<1>1. CASE UNCHANGED vars
  BY <1>1, <1>0 DEF vars, disk, pulls, downloads, history, Goto
<1>2. ASSUME NEW c \in Pulls, Stat(c) PROVE TypeOK'
  BY <1>2, <1>0 DEF Stat, disk, pulls, downloads, history, Goto, Ended
<1>3. ASSUME NEW c \in Pulls, LoadOrStore(c) PROVE TypeOK'
  <2>1. manager' \in Pulls \union {None} /\ on' \in [Pulls -> Pulls \union {None}]
    BY <1>3, ZenonT(60) DEF LoadOrStore
  <2>2. /\ \/ pc' = [pc EXCEPT ![c] = "prepare"]
           \/ pc' = [pc EXCEPT ![c] = "join"]
        /\ UNCHANGED <<disk, downloads, history>>
    BY <1>3 DEF LoadOrStore, Goto
  <2> QED BY <2>1, <2>2 DEF disk, downloads, history, Ended
<1>4. ASSUME NEW c \in Pulls, ReadParts(c) PROVE TypeOK'
  <2>1. \/ pc' = [pc EXCEPT ![c] = "error"]
        \/ pc' = [pc EXCEPT ![c] = "head"]
        \/ pc' = [pc EXCEPT ![c] = "join"]
    BY <1>4 DEF ReadParts, FailPrepare, Goto
  <2>2. manager' \in Pulls \union {None} /\ run' \in [Pulls -> {"none", "start", "direct", "parts", "remove", "rename", "return", "close", "over"}]
    BY <1>4 DEF ReadParts, FailPrepare
  <2>3. OnDisk \in SUBSET Parts /\ short' \in BOOLEAN
    BY <1>4 DEF OnDisk, ReadParts
  <2>4. known' \in [Pulls -> SUBSET Parts]
    BY <1>4, <2>3, ZenonT(60) DEF ReadParts
  <2>5. completed' \in [Pulls -> [Parts -> 0..PartSize]]
    <3>1. CASE completed' = completed
      BY <3>1
    <3>2. CASE completed' # completed
      <4>. DEFINE f == [p \in Parts |-> IF p \in OnDisk THEN partFiles[p] ELSE 0]
      <4>1. ~\E p \in Parts : partFiles[p] = Torn
        BY <1>4, <3>2 DEF ReadParts
      <4>2. f \in [Parts -> 0..PartSize]
        BY <4>1, <1>0 DEF OnDisk
      <4>3. completed' = [completed EXCEPT ![c] = f]
        BY <1>4, <3>2 DEF ReadParts
      <4>. HIDE DEF f
      <4> QED BY <4>2, <4>3
    <3> QED BY <3>1, <3>2
  <2>6. done' = [done EXCEPT ![c] = "open"] /\ UNCHANGED <<disk, on, chunk, err, references, cancelFunc, crashes>>
    BY <1>4 DEF ReadParts
  <2> QED BY <2>1, <2>2, <2>3, <2>4, <2>5, <2>6 DEF disk, Ended
<1>5. ASSUME NEW c \in Pulls, HeadFails(c) PROVE TypeOK'
  BY <1>5, <1>0 DEF HeadFails, disk, pulls, downloads, history, Goto, FailPrepare, Ended
<1>6. ASSUME NEW c \in Pulls, NewPart(c) PROVE TypeOK'
  <2>1. partFiles' \in [Parts -> Torn..PartSize]
    BY <1>6, <1>0 DEF NewPart
  <2> QED BY <1>6, <2>1 DEF NewPart, downloads, history, Goto
<1>7. ASSUME NEW c \in Pulls, WriteNewPart(c) PROVE TypeOK'
  <2>1. partFiles' \in [Parts -> Torn..PartSize]
    BY <1>7, <1>0 DEF WriteNewPart
  <2>2. known' \in [Pulls -> SUBSET Parts]
    <3>1. CASE known' = known
      BY <3>1
    <3>2. CASE known' # known
      <4>1. PICK n \in Parts : known[c] = 0..n - 1
        BY <1>7 DEF WriteNewPart, FreshInv, Making
      <4>2. NextPart(c) \in Parts
        <5>1. n \in Nat
          BY PartBytes
        <5>2. Cardinality(0..n - 1) = IF 0 > n - 1 THEN 0 ELSE (n - 1) - 0 + 1
          BY <5>1, FS_Interval
        <5>3. Cardinality(0..n - 1) = n
          BY <5>1, <5>2
        <5> QED BY <4>1, <5>3 DEF NextPart
      <4>3. known' = [known EXCEPT ![c] = known[c] \union {NextPart(c)}]
        BY <1>7, <3>2 DEF WriteNewPart
      <4> QED BY <4>2, <4>3
    <3> QED BY <3>1, <3>2
  <2>3. run' \in [Pulls -> {"none", "start", "direct", "parts", "remove", "rename", "return", "close", "over"}]
    BY <1>7 DEF WriteNewPart
  <2>4. \/ pc' = [pc EXCEPT ![c] = "error"]
        \/ pc' = [pc EXCEPT ![c] = "head"]
        \/ pc' = [pc EXCEPT ![c] = "join"]
    BY <1>7 DEF WriteNewPart, FailPrepare, Goto
  <2>5. manager' \in Pulls \union {None}
        /\ UNCHANGED <<blob, partial, on, completed, chunk, done, err, references, cancelFunc, history>>
    BY <1>7 DEF WriteNewPart, FailPrepare
  <2> QED BY <2>1, <2>2, <2>3, <2>4, <2>5, SMTT(60) DEF history, Ended
<1>8. ASSUME NEW c \in Pulls, Acquire(c) PROVE TypeOK'
  BY <1>8, <1>0 DEF Acquire, disk, pulls, downloads, history, Goto, Ended
<1>9. ASSUME NEW c \in Pulls, Leave(c) PROVE TypeOK'
  BY <1>9, <1>0 DEF Leave, disk, pulls, downloads, history, Goto, Release, Ended
<1>10. ASSUME NEW c \in Pulls, LeaveTooEarly(c) PROVE TypeOK'
  BY <1>10, <1>0 DEF LeaveTooEarly, disk, pulls, downloads, history, Goto, Restart, Ended, NoFile, Torn, Unprepared, Untried
<1>11. ASSUME NEW c \in Pulls, SeeDone(c) PROVE TypeOK'
  BY <1>11, <1>0 DEF SeeDone, disk, pulls, downloads, history, Goto, Release, Ended
<1>12. ASSUME NEW c \in Pulls, Verify(c) PROVE TypeOK'
  BY <1>12, <1>0 DEF Verify, disk, pulls, downloads, history, Goto, Ended
<1>13. ASSUME NEW d \in Pulls, Truncate(d) PROVE TypeOK'
  BY <1>13, <1>0 DEF Truncate, disk, pulls, downloads, history, Goto
<1>14. ASSUME NEW d \in Pulls, DirectURL(d) PROVE TypeOK'
  <2>1. chunk' \in [Pulls -> [Parts -> {"todo", "copied", "torn", "done", "failed", "removed"}]]
    <3>. DEFINE f == [p \in Parts |-> IF p \notin known[d] \/ completed[d][p] = Size(p)
                                     THEN "done" ELSE "todo"]
    <3>1. f \in [Parts -> {"todo", "copied", "torn", "done", "failed", "removed"}]
      OBVIOUS
    <3>2. chunk' = chunk \/ chunk' = [chunk EXCEPT ![d] = f]
      BY <1>14 DEF DirectURL
    <3>. HIDE DEF f
    <3> QED BY <3>1, <3>2
  <2>2. /\ run' \in [Pulls -> {"none", "start", "direct", "parts", "remove", "rename", "return", "close", "over"}]
        /\ err' \in [Pulls -> {"none", "nil", "error"}]
    BY <1>14 DEF DirectURL, Returns
  <2> QED BY <1>14, <2>1, <2>2 DEF DirectURL, disk, pulls, history
<1>15. ASSUME NEW d \in Pulls, GroupWait(d) PROVE TypeOK'
  <2>1. \E place \in {"return", "remove"} : run' = [run EXCEPT ![d] = place]
    BY <1>15 DEF GroupWait, Returns
  <2>2. err' = err \/ err' = [err EXCEPT ![d] = "error"]
    BY <1>15 DEF GroupWait, Returns
  <2>3. UNCHANGED <<disk, manager, pulls, known, completed, chunk, done, references, cancelFunc,
                    history>>
    BY <1>15 DEF GroupWait
  <2>4. err' \in [Pulls -> {"none", "nil", "error"}]
    BY <2>2
  <2>5. run' \in [Pulls -> {"none", "start", "direct", "parts", "remove", "rename", "return",
                            "close", "over"}]
    BY <2>1
  <2> QED BY <2>3, <2>4, <2>5 DEF disk, pulls, history
<1>16. ASSUME NEW d \in Pulls, RemovePart(d) PROVE TypeOK'
  <2>. DEFINE k == Cardinality({q \in Parts : chunk[d][q] = "removed"})
  <2>1. chunk' = chunk \/ chunk' = [chunk EXCEPT ![d][k] = "removed"]
    BY <1>16 DEF RemovePart
  <2>2. partFiles' = partFiles \/ partFiles' = [partFiles EXCEPT ![k] = NoFile]
    BY <1>16 DEF RemovePart
  <2>. HIDE DEF k
  <2>3. chunk' \in [Pulls -> [Parts -> {"todo", "copied", "torn", "done", "failed", "removed"}]]
    <3>. DEFINE f == [chunk[d] EXCEPT ![k] = "removed"]
    <3>1. f \in [Parts -> {"todo", "copied", "torn", "done", "failed", "removed"}]
      OBVIOUS
    <3>2. chunk' = chunk \/ chunk' = [chunk EXCEPT ![d] = f]
      BY <2>1
    <3>. HIDE DEF f
    <3> QED BY <3>1, <3>2
  <2>4. partFiles' \in [Parts -> Torn..PartSize]
    BY <2>2, <1>0
  <2>5. /\ run' \in [Pulls -> {"none", "start", "direct", "parts", "remove", "rename", "return", "close", "over"}]
        /\ err' \in [Pulls -> {"none", "nil", "error"}]
    BY <1>16 DEF RemovePart, Returns
  <2> QED BY <1>16, <2>3, <2>4, <2>5 DEF RemovePart, pulls, history
<1>17. ASSUME NEW d \in Pulls, Rename(d) PROVE TypeOK'
  BY <1>17, <1>0 DEF Rename, disk, pulls, downloads, history, Goto, Returns
<1>18. ASSUME NEW d \in Pulls, Delete(d) PROVE TypeOK'
  BY <1>18, <1>0 DEF Delete, disk, pulls, downloads, history, Goto
<1>19. ASSUME NEW d \in Pulls, CloseDone(d) PROVE TypeOK'
  BY <1>19, <1>0 DEF CloseDone, disk, pulls, downloads, history, Goto, Unprepared, Untried
<1>20. ASSUME NEW d \in Pulls, NEW p \in Parts, CopyN(d, p) PROVE TypeOK'
  BY <1>20, <1>0 DEF CopyN, disk, pulls, downloads, history, Goto, At
<1>21. ASSUME NEW d \in Pulls, NEW p \in Parts, GiveUp(d, p) PROVE TypeOK'
  BY <1>21, <1>0 DEF GiveUp, disk, pulls, downloads, history, Goto, At
<1>22. ASSUME NEW d \in Pulls, NEW p \in Parts, OpenPart(d, p) PROVE TypeOK'
  BY <1>22, <1>0 DEF OpenPart, disk, pulls, downloads, history, Goto, At, Torn, NoFile
<1>23. ASSUME NEW d \in Pulls, NEW p \in Parts, WritePart(d, p) PROVE TypeOK'
  <2>1. partFiles' \in [Parts -> Torn..PartSize]
    <3>1. completed[d][p] \in Torn..PartSize
      BY <1>0
    <3>2. partFiles' = partFiles \/ partFiles' = [partFiles EXCEPT ![p] = completed[d][p]]
      BY <1>23 DEF WritePart
    <3> QED BY <3>1, <3>2
  <2>2. chunk' \in [Pulls -> [Parts -> {"todo", "copied", "torn", "done", "failed", "removed"}]]
    <3>. DEFINE f(v) == [chunk[d] EXCEPT ![p] = v]
    <3>1. \A v \in {"todo", "done", "failed"} :
            f(v) \in [Parts -> {"todo", "copied", "torn", "done", "failed", "removed"}]
      OBVIOUS
    <3>2. \E v \in {"todo", "done", "failed"} : chunk' = [chunk EXCEPT ![d] = f(v)]
      BY <1>23 DEF WritePart
    <3>. HIDE DEF f
    <3> QED BY <3>1, <3>2
  <2> QED BY <1>23, <2>1, <2>2 DEF WritePart, pulls, history
<1>24. ASSUME Crash PROVE TypeOK'
  BY <1>24, <1>0 DEF Crash, disk, pulls, downloads, history, Goto, Restart, Ended, NoFile, Torn, Unprepared, Untried
<1> QED
  BY <1>1, <1>2, <1>3, <1>4, <1>5, <1>6, <1>7, <1>8, <1>9, <1>10, <1>11, <1>12, <1>13, <1>14, <1>15, <1>16, <1>17, <1>18, <1>19, <1>20, <1>21, <1>22, <1>23, <1>24 DEF Next, Prepare, Run, Part

(* What a download that runs has, if it took up all the parts.             *)
Fetching == {"start", "direct", "parts", "remove", "rename"}
RunInv(d) ==
    /\ known[d] = Parts
    /\ \A p \in Parts : completed[d][p] \in 0..Size(p) /\ BytesOf(p, completed[d][p]) \subseteq partial
    /\ run[d] = "parts" => \A p \in Parts : chunk[d][p] = "done" => completed[d][p] = Size(p)
    /\ run[d] \in {"remove", "rename"} => \A p \in Parts : completed[d][p] = Size(p)
    /\ run[d] = "remove" => \A p \in Parts : chunk[d][p] = "removed" => partFiles[p] = NoFile
    /\ run[d] = "remove" => \A p \in Parts : chunk[d][p] \in {"done", "removed"}
    /\ run[d] = "rename" => \A p \in Parts : partFiles[p] = NoFile

(* PartFilesTellTruth and BlobIsWhole, with what they rest on.             *)
DiskInv ==
    ~short =>
        /\ \A p \in Parts : partFiles[p] >= 0 =>
               partFiles[p] <= Size(p) /\ BytesOf(p, partFiles[p]) \subseteq partial
        /\ \A d \in Pulls : run[d] \in Fetching => RunInv(d)
        /\ blob # "cut"

(* Steps that add bytes at most, and change no download that goes on.      *)
LEMMA Kept ==
  ASSUME DiskInv, short' = short, partial \subseteq partial', partFiles' = partFiles,
         blob' = blob \/ blob' # "cut",
         \A e \in Pulls : run'[e] \in Fetching =>
             /\ run'[e] = run[e] /\ known'[e] = known[e]
             /\ completed'[e] = completed[e] /\ chunk'[e] = chunk[e]
  PROVE  DiskInv'
<1>1. ASSUME ~short, NEW e \in Pulls, run'[e] \in Fetching PROVE RunInv(e)'
  <2>1. RunInv(e)
    BY <1>1 DEF DiskInv
  <2> QED BY <1>1, <2>1 DEF RunInv
<1> QED BY <1>1 DEF DiskInv

(* What the files have stays true, whatever happens to the download.       *)
LEMMA DiskStep ==
  ASSUME BlobAssumption, TypeOK, FreshInv, OwnInv, OwnInv', DiskInv, [Next]_vars
  PROVE  DiskInv'
<1>0. DiskInv /\ OwnInv /\ OwnInv' /\ FreshInv
  OBVIOUS
<1>. USE DEF TypeOK
<1>1. CASE UNCHANGED vars
  BY <1>1, <1>0, Kept DEF vars, disk, downloads, history
<1>2. ASSUME NEW c \in Pulls, Stat(c) PROVE DiskInv'
  BY <1>2, <1>0, Kept DEF Stat, disk, pulls, downloads, history, Fetching, TypeOK, FailPrepare
<1>3. ASSUME NEW c \in Pulls, LoadOrStore(c) PROVE DiskInv'
  BY <1>3, <1>0, Kept DEF LoadOrStore, disk, pulls, downloads, history, Fetching, TypeOK, FailPrepare
<1>4. ASSUME NEW c \in Pulls, ReadParts(c) PROVE DiskInv'
  <2>a. pc[c] = "prepare" /\ run[c] = "none"
    BY <1>4, <1>0 DEF ReadParts, FreshInv, Before
  <2>b. ASSUME NEW e \in Pulls, run[e] \in Fetching PROVE FALSE
    <3>1. Working(e) /\ Working(c)
      BY <2>a, <2>b DEF Working, Fetching
    <3> QED BY <3>1, <2>a, <2>b, <1>0 DEF OwnInv, Fetching
  <2>c. run' = run \/ run' = [run EXCEPT ![c] = "start"]
    BY <1>4 DEF ReadParts
  <2>1. /\ \A e \in Pulls : run[e] \notin Fetching
        /\ UNCHANGED <<blob, partial, partFiles>>
        /\ \A e \in Pulls : e # c => run'[e] = run[e]
    BY <1>4, <2>b, <2>c DEF ReadParts, disk
  <2>2. CASE run' = run
    <3>1. short => short'
      BY <1>4 DEF ReadParts
    <3> QED BY <2>1, <2>2, <3>1, <1>0 DEF DiskInv
  <2>3. CASE run' # run
    <3>1. /\ known'[c] = OnDisk /\ run'[c] = "start"
          /\ OnDisk # Parts => short'
          /\ \A q \in Parts : partFiles[q] # Torn
          /\ completed' = [completed EXCEPT ![c] = [p \in Parts |-> IF p \in OnDisk THEN partFiles[p] ELSE 0]]
          /\ short => short'
      BY <1>4, <2>3, ZenonT(60) DEF ReadParts, TypeOK
    <3>2. \A q \in Parts : completed'[c][q] = IF q \in OnDisk THEN partFiles[q] ELSE 0
      BY <3>1 DEF TypeOK
    <3>3. ASSUME ~short' PROVE RunInv(c)'
      <4>1. OnDisk = Parts /\ known'[c] = Parts /\ ~short
        BY <3>1, <3>3
      <4>2. \A q \in Parts : partFiles[q] >= 0 /\ completed'[c][q] = partFiles[q]
        <5>. TAKE q \in Parts
        <5>1. partFiles[q] \in -2..PartSize /\ partFiles[q] # -1 /\ partFiles[q] # -2
          BY <4>1, <3>1 DEF OnDisk, NoFile, Torn, TypeOK
        <5>2. PartSize \in Int
          BY BlobAssumption DEF BlobAssumption
        <5>3. \A x \in -2..PartSize : x # -1 /\ x # -2 => x >= 0
          BY <5>2
        <5>4. completed'[c][q] = partFiles[q]
          BY <4>1, <3>2
        <5> QED BY <5>1, <5>3, <5>4
      <4>3. \A q \in Parts : partFiles[q] <= Size(q) /\ BytesOf(q, partFiles[q]) \subseteq partial
        BY <4>1, <4>2, <1>0 DEF DiskInv
      <4>4. \A q \in Parts : partFiles[q] \in Int
        BY DEF TypeOK
      <4>5. \A q \in Parts : completed'[c][q] \in 0..Size(q)
                              /\ BytesOf(q, completed'[c][q]) \subseteq partial
        BY <4>2, <4>3, <4>4, PartBytes, BlobAssumption
      <4>. HIDE DEF TypeOK
      <4> QED BY <4>1, <4>5, <3>1, <2>1 DEF RunInv
    <3>4. \A e \in Pulls : run'[e] \in Fetching => e = c
      BY <2>1
    <3> QED BY <2>1, <3>1, <3>3, <3>4, <1>0 DEF DiskInv, disk
  <2> QED BY <2>2, <2>3
<1>5. ASSUME NEW c \in Pulls, HeadFails(c) PROVE DiskInv'
  BY <1>5, <1>0, Kept DEF HeadFails, disk, pulls, downloads, history, Fetching, TypeOK, FailPrepare
<1>6. ASSUME NEW c \in Pulls, NewPart(c) PROVE DiskInv'
  <2>1. \A e \in Pulls : run[e] \notin Fetching
    BY <1>6, <1>0 DEF NewPart, OwnInv, FreshInv, Working, Fetching, Making
  <2>4. \A q \in Parts : partFiles'[q] >= 0 => partFiles'[q] = partFiles[q]
    BY <1>6 DEF NewPart, TypeOK, Torn
  <2>3. run' = run /\ blob' = blob /\ partial' = partial /\ short' = short
    BY <1>6 DEF NewPart, downloads, history
  <2>. HIDE DEF TypeOK
  <2> QED BY <2>1, <2>4, <2>3, <1>0 DEF DiskInv
<1>7. ASSUME NEW c \in Pulls, WriteNewPart(c) PROVE DiskInv'
  <2>1. /\ \A e \in Pulls : run[e] \notin Fetching
        /\ completed[c] = Unprepared
    BY <1>7, <1>0 DEF WriteNewPart, OwnInv, FreshInv, Working, Fetching, Making
  <2>2. \A q \in Parts : partFiles'[q] \in {partFiles[q], 0}
    BY <1>7 DEF WriteNewPart, TypeOK
  <2>3. /\ blob' = blob /\ partial' = partial /\ short' = short /\ completed' = completed
        /\ \A e \in Pulls : e # c => run'[e] = run[e]
        /\ run'[c] = run[c] \/ (run'[c] = "start" /\ known'[c] = Parts)
    <3>1. CASE FailPrepare(c) /\ UNCHANGED <<partFiles, known, run>>
      BY <1>7, <3>1 DEF WriteNewPart, history
    <3>2. CASE ~(FailPrepare(c) /\ UNCHANGED <<partFiles, known, run>>)
      <4>1. IF known'[c] = Parts
            THEN run' = [run EXCEPT ![c] = "start"] ELSE run' = run
        BY <1>7, <3>2 DEF WriteNewPart
      <4> QED BY <1>7, <4>1 DEF WriteNewPart, history, TypeOK
    <3> QED BY <3>1, <3>2
  <2>4. \A e \in Pulls : run'[e] \in Fetching => e = c /\ run'[e] = "start" /\ known'[e] = Parts
    BY <2>1, <2>3
  <2>5. run'[c] = "start" /\ known'[c] = Parts => RunInv(c)'
    BY <2>1, <2>3, PartBytes, BlobAssumption DEF RunInv, Unprepared
  <2>6. ASSUME ~short, NEW q \in Parts, partFiles'[q] >= 0
        PROVE  partFiles'[q] <= Size(q) /\ BytesOf(q, partFiles'[q]) \subseteq partial
    <3>1. CASE partFiles'[q] = partFiles[q]
      BY <2>6, <3>1, <1>0 DEF DiskInv
    <3>2. CASE partFiles'[q] = 0
      <4>1. Size(q) >= 0 /\ BytesOf(q, 0) = {}
        BY PartBytes, BlobAssumption
      <4> QED BY <4>1, <3>2
    <3> QED BY <2>2, <3>1, <3>2
  <2> QED BY <2>3, <2>4, <2>5, <2>6 DEF DiskInv
<1>8. ASSUME NEW c \in Pulls, Acquire(c) PROVE DiskInv'
  BY <1>8, <1>0, Kept DEF Acquire, disk, pulls, downloads, history, Fetching, TypeOK, Release
<1>9. ASSUME NEW c \in Pulls, Leave(c) PROVE DiskInv'
  BY <1>9, <1>0, Kept DEF Leave, disk, pulls, downloads, history, Fetching, TypeOK, Release
<1>10. ASSUME NEW c \in Pulls, LeaveTooEarly(c) PROVE DiskInv'
  <2>1. /\ \A d \in Pulls : run'[d] = "none"
        /\ \/ UNCHANGED <<blob, partial, partFiles>>
           \/ partFiles' = [p \in Parts |-> NoFile] /\ blob' \in {blob, "absent"}
        /\ short' = short
    BY <1>10 DEF LeaveTooEarly, Restart, disk
  <2>2. CASE UNCHANGED <<blob, partial, partFiles>>
    BY <2>1, <2>2, <1>0, Kept DEF Fetching
  <2>3. CASE partFiles' = [p \in Parts |-> NoFile] /\ blob' \in {blob, "absent"}
    BY <2>1, <2>3, <1>0 DEF DiskInv, Fetching, NoFile
  <2> QED BY <2>1, <2>2, <2>3
<1>11. ASSUME NEW c \in Pulls, SeeDone(c) PROVE DiskInv'
  BY <1>11, <1>0, Kept DEF SeeDone, disk, pulls, downloads, history, Fetching, TypeOK, Release
<1>12. ASSUME NEW c \in Pulls, Verify(c) PROVE DiskInv'
  BY <1>12, <1>0, Kept DEF Verify, disk, pulls, downloads, history, Fetching, TypeOK
<1>13. ASSUME NEW d \in Pulls, Truncate(d) PROVE DiskInv'
  <2>1. /\ run[d] = "start" /\ \A e \in Pulls : run'[e] \in Fetching => e = d
        /\ ~short => RunInv(d)
        /\ short' = short
    BY <1>13, <1>0 DEF Truncate, OwnInv, Working, Fetching, DiskInv, TypeOK, history
  <2>2. ASSUME ~short PROVE partial' = partial
    <3>1. {a \in Bytes : a \div PartSize \in known[d]} = Bytes
      BY <2>1, <2>2 DEF RunInv, Parts
    <3>2. Cardinality(Bytes) = IF 0 > Total - 1 THEN 0 ELSE (Total - 1) - 0 + 1
      BY FS_Interval, BlobAssumption DEF Bytes, BlobAssumption
    <3>3. Cardinality(Bytes) = Total
      BY <3>2, BlobAssumption DEF BlobAssumption
    <3>4. \A b \in partial : b < Total
      BY BlobAssumption DEF BlobAssumption, TypeOK, Bytes
    <3> QED BY <1>13, <3>1, <3>3, <3>4 DEF Truncate
  <2>3. /\ run'[d] = "direct"
        /\ UNCHANGED <<blob, partFiles, known, completed>>
    BY <1>13 DEF Truncate, TypeOK
  <2>4. ~short => RunInv(d)'
    BY <2>1, <2>2, <2>3 DEF RunInv
  <2> QED BY <2>1, <2>2, <2>3, <2>4 DEF DiskInv
<1>14. ASSUME NEW d \in Pulls, DirectURL(d) PROVE DiskInv'
  <2>1. CASE Returns(d, "error") /\ chunk' = chunk
    BY <1>14, <1>0, <2>1, Kept DEF DirectURL, Returns, disk, history, Fetching, TypeOK
  <2>2. CASE ~(Returns(d, "error") /\ chunk' = chunk)
    <3>a. /\ run[d] = "direct" /\ run' = [run EXCEPT ![d] = "parts"]
          /\ short' = short
          /\ chunk' = [chunk EXCEPT ![d] =
                [p \in Parts |-> IF p \notin known[d] \/ completed[d][p] = Size(p)
                                 THEN "done" ELSE "todo"]]
      BY <1>14, <2>2 DEF DirectURL, history
    <3>b. \A p \in Parts : chunk'[d][p] = "done" => p \notin known[d] \/ completed[d][p] = Size(p)
      BY <3>a DEF TypeOK
    <3>1. /\ run[d] = "direct" /\ run'[d] = "parts"
          /\ \A e \in Pulls : run'[e] \in Fetching => e = d
          /\ ~short => RunInv(d)
          /\ short' = short
          /\ \A p \in Parts : chunk'[d][p] = "done" => p \notin known[d] \/ completed[d][p] = Size(p)
      <4>1. DOMAIN run = Pulls
        BY Stages
      <4>2. \A e \in Pulls : run[e] \in Fetching => e = d
        BY <3>a, <1>0 DEF OwnInv, Working, Fetching
      <4>3. ~short => RunInv(d)
        BY <3>a, <1>0 DEF DiskInv, Fetching
      <4> QED BY <3>a, <3>b, <4>1, <4>2, <4>3
    <3>2. UNCHANGED <<blob, partial, partFiles, known, completed>>
      BY <1>14 DEF DirectURL, disk
    <3>3. ~short => RunInv(d)'
      BY <3>1, <3>2 DEF RunInv
    <3> QED BY <3>1, <3>2, <3>3 DEF DiskInv
  <2> QED BY <2>1, <2>2
<1>15. ASSUME NEW d \in Pulls, GroupWait(d) PROVE DiskInv'
  <2>1. CASE run'[d] # "remove"
    BY <1>15, <1>0, <2>1, Kept DEF GroupWait, Returns, disk, history, Fetching, TypeOK
  <2>2. CASE run'[d] = "remove"
    <3>1. /\ run[d] = "parts" /\ \A e \in Pulls : run'[e] \in Fetching => e = d
          /\ ~short => RunInv(d)
          /\ short' = short
          /\ \A p \in Parts : chunk[d][p] = "done"
      <4>1. run[d] = "parts" /\ short' = short /\ \A p \in Parts : chunk[d][p] = "done"
        <5>1. DOMAIN run = Pulls
          BY Stages
        <5>2. ~Failed(d) /\ run' = [run EXCEPT ![d] = "remove"]
          BY <1>15, <2>2, <5>1 DEF GroupWait, Returns
        <5> QED BY <1>15, <5>2 DEF GroupWait, Failed, history
      <4>2. DOMAIN run = Pulls /\ run' = [run EXCEPT ![d] = "remove"]
        BY <1>15, <2>2, Stages DEF GroupWait, Returns
      <4>3. \A e \in Pulls : run[e] \in Fetching => e = d
        BY <4>1, <1>0 DEF OwnInv, Working, Fetching
      <4>4. ~short => RunInv(d)
        BY <4>1, <1>0 DEF DiskInv, Fetching
      <4> QED BY <4>1, <4>2, <4>3, <4>4
    <3>2. UNCHANGED <<blob, partial, partFiles, known, completed, chunk>>
      BY <1>15 DEF GroupWait, disk
    <3>3. ~short => RunInv(d)'
      BY <2>2, <3>1, <3>2 DEF RunInv
    <3> QED BY <3>1, <3>2, <3>3 DEF DiskInv
  <2> QED BY <2>1, <2>2
<1>16. ASSUME NEW d \in Pulls, RemovePart(d) PROVE DiskInv'
  <2>. DEFINE R == {q \in Parts : chunk[d][q] = "removed"}
              k == Cardinality(R)
  <2>1. CASE run'[d] \notin Fetching
    <3>1. /\ \A e \in Pulls : e # d => run'[e] = run[e]
          /\ UNCHANGED <<disk, known, completed, chunk, short>>
      <4>1. Returns(d, "error") /\ UNCHANGED <<partFiles, chunk>>
        BY <1>16, <2>1 DEF RemovePart, Fetching
      <4> QED BY <1>16, <4>1 DEF RemovePart, Returns, disk, history
    <3> QED BY <3>1, <2>1, <1>0, Kept DEF disk
  <2>2. CASE run'[d] \in Fetching
    <3>1. /\ run[d] = "remove" /\ \A e \in Pulls : run'[e] \in Fetching => e = d
          /\ ~short => RunInv(d)
          /\ UNCHANGED <<short, blob, partial, known, completed>>
      BY <1>16, <1>0 DEF RemovePart, Returns, OwnInv, Working, Fetching, DiskInv, TypeOK, history
    <3>2. CASE run'[d] = "remove"
      <4>1. /\ partFiles' = [partFiles EXCEPT ![k] = NoFile]
            /\ chunk' = [chunk EXCEPT ![d][k] = "removed"]
        BY <1>16, <3>2, <3>1 DEF RemovePart, Returns, TypeOK
      <4>. HIDE DEF k
      <4>2. \A q \in Parts : IF q = k THEN partFiles'[q] = NoFile /\ chunk'[d][q] = "removed"
                             ELSE partFiles'[q] = partFiles[q] /\ chunk'[d][q] = chunk[d][q]
        BY <4>1 DEF TypeOK
      <4>3. ~short => RunInv(d)'
        BY <3>1, <3>2, <4>2 DEF RunInv
      <4>4. ASSUME ~short, NEW q \in Parts, partFiles'[q] >= 0
            PROVE  partFiles'[q] <= Size(q) /\ BytesOf(q, partFiles'[q]) \subseteq partial
        <5>1. q # k
          BY <4>2, <4>4 DEF NoFile
        <5>2. partFiles'[q] = partFiles[q]
          BY <4>2, <5>1
        <5> QED BY <5>2, <4>4, <1>0 DEF DiskInv
      <4> QED BY <3>1, <4>3, <4>4, <1>0 DEF DiskInv
    <3>3. CASE run'[d] # "remove"
      <4>1. run'[d] = "rename" /\ k = Cardinality(known[d]) /\ UNCHANGED <<partFiles, chunk>>
        BY <1>16, <2>2, <3>3, <3>1 DEF RemovePart, Returns, Fetching, TypeOK
      <4>2. ~short => RunInv(d)'
        <5>1. IsFiniteSet(Parts)
          <6>1. PICK m \in Nat : Parts = 0..m
            BY PartNumbers, BlobAssumption
          <6> QED BY <6>1, FS_Interval
        <5>2. ~short => R = Parts
          BY <5>1, <4>1, <3>1, FS_Subset DEF RunInv
        <5> QED BY <5>2, <4>1, <3>1 DEF RunInv
      <4> QED BY <3>1, <4>1, <4>2, <1>0 DEF DiskInv
    <3> QED BY <3>2, <3>3
  <2> QED BY <2>1, <2>2
<1>17. ASSUME NEW d \in Pulls, Rename(d) PROVE DiskInv'
  <2>1. /\ run[d] = "rename" /\ \A e \in Pulls : run'[e] \notin Fetching
        /\ ~short => RunInv(d)
        /\ short' = short
    <3>1. run[d] = "rename" /\ run' = [run EXCEPT ![d] = "return"] /\ short' = short
      BY <1>17 DEF Rename, Returns, history
    <3>2. DOMAIN run = Pulls
      BY Stages
    <3>3. \A e \in Pulls : run[e] \in Fetching => e = d
      BY <3>1, <1>0 DEF OwnInv, Working, Fetching
    <3>4. \A e \in Pulls : run'[e] \notin Fetching
      BY <3>1, <3>2, <3>3 DEF Fetching
    <3>5. ~short => RunInv(d)
      BY <3>1, <1>0 DEF DiskInv, Fetching
    <3> QED BY <3>1, <3>4, <3>5
  <2>2. partFiles' = partFiles /\ blob' = IF partial = Bytes THEN "whole" ELSE "cut"
    BY <1>17 DEF Rename
  <2>3. ASSUME ~short PROVE partial = Bytes /\ \A q \in Parts : partFiles[q] = NoFile
    <3>1. \A q \in Parts : BytesOf(q, Size(q)) \subseteq partial /\ partFiles[q] = NoFile
      BY <2>1, <2>3 DEF RunInv
    <3>2. ASSUME NEW b \in Bytes PROVE b \in partial
      <4>1. b \div PartSize \in Parts
        BY DEF Parts
      <4>2. b \in BytesOf(b \div PartSize, Size(b \div PartSize))
        BY <4>1, PartBytes, BlobAssumption
      <4> QED BY <3>1, <4>1, <4>2
    <3> QED BY <3>1, <3>2 DEF TypeOK
  <2> QED BY <2>1, <2>2, <2>3 DEF DiskInv, NoFile
<1>18. ASSUME NEW d \in Pulls, Delete(d) PROVE DiskInv'
  BY <1>18, <1>0, Kept DEF Delete, disk, pulls, downloads, history, Fetching, TypeOK
<1>19. ASSUME NEW d \in Pulls, CloseDone(d) PROVE DiskInv'
  BY <1>19, <1>0, Kept DEF CloseDone, disk, pulls, downloads, history, Fetching, TypeOK
<1>20. ASSUME NEW d \in Pulls, NEW p \in Parts, CopyN(d, p) PROVE DiskInv'
  <2>1. /\ run[d] = "parts" /\ \A e \in Pulls : run'[e] \in Fetching => e = d
        /\ ~short => RunInv(d)
        /\ short' = short
    BY <1>20, <1>0 DEF CopyN, OwnInv, Working, Fetching, DiskInv, TypeOK, history, At
  <2>2. PICK n \in completed[d][p]..Size(p) :
          /\ partial' = partial \union BytesOf(p, n)
          /\ chunk' = [chunk EXCEPT ![d][p] = "copied"]
          /\ completed' = [completed EXCEPT ![d][p] = n]
    BY <1>20 DEF CopyN
  <2>3. /\ \A q \in Parts : q # p => completed'[d][q] = completed[d][q] /\ chunk'[d][q] = chunk[d][q]
        /\ completed'[d][p] = n /\ chunk'[d][p] = "copied" /\ run'[d] = "parts"
        /\ UNCHANGED <<blob, partFiles, known>> /\ partial \subseteq partial'
    BY <1>20, <2>1, <2>2 DEF CopyN, TypeOK
  <2>4. n \in 0..Size(p)
    BY PartBytes, BlobAssumption DEF TypeOK
  <2>5. ~short => RunInv(d)'
    BY <2>1, <2>2, <2>3, <2>4 DEF RunInv
  <2>6. ASSUME ~short, NEW q \in Parts, partFiles'[q] >= 0
        PROVE  partFiles'[q] <= Size(q) /\ BytesOf(q, partFiles'[q]) \subseteq partial'
    BY <2>3, <2>6, <1>0 DEF DiskInv
  <2> QED BY <2>1, <2>3, <2>5, <2>6, <1>0 DEF DiskInv
<1>21. ASSUME NEW d \in Pulls, NEW p \in Parts, GiveUp(d, p) PROVE DiskInv'
  <2>1. /\ run[d] = "parts" /\ \A e \in Pulls : run'[e] \in Fetching => e = d
        /\ ~short => RunInv(d)
        /\ short' = short
    BY <1>21, <1>0 DEF GiveUp, OwnInv, Working, Fetching, DiskInv, TypeOK, history, At
  <2>2. /\ \A q \in Parts : q # p => chunk'[d][q] = chunk[d][q]
        /\ chunk'[d][p] = "failed" /\ run'[d] = "parts"
        /\ UNCHANGED <<blob, partFiles, known, completed>> /\ partial \subseteq partial'
    BY <1>21, <2>1 DEF GiveUp, TypeOK
  <2>3. ~short => RunInv(d)'
    BY <2>1, <2>2 DEF RunInv
  <2>4. ASSUME ~short, NEW q \in Parts, partFiles'[q] >= 0
        PROVE  partFiles'[q] <= Size(q) /\ BytesOf(q, partFiles'[q]) \subseteq partial'
    BY <2>2, <2>4, <1>0 DEF DiskInv
  <2> QED BY <2>1, <2>2, <2>3, <2>4, <1>0 DEF DiskInv
<1>22. ASSUME NEW d \in Pulls, NEW p \in Parts, OpenPart(d, p) PROVE DiskInv'
  <2>1. /\ run[d] = "parts" /\ \A e \in Pulls : run'[e] \in Fetching => e = d
        /\ ~short => RunInv(d)
        /\ short' = short
    BY <1>22, <1>0 DEF OpenPart, OwnInv, Working, Fetching, DiskInv, TypeOK, history, At
  <2>2. /\ \A q \in Parts : q # p => chunk'[d][q] = chunk[d][q] /\ partFiles'[q] = partFiles[q]
        /\ chunk'[d][p] = "torn" /\ partFiles'[p] = Torn /\ run'[d] = "parts"
        /\ UNCHANGED <<blob, partial, known, completed>>
    BY <1>22, <2>1 DEF OpenPart, TypeOK
  <2>3. ~short => RunInv(d)'
    BY <2>1, <2>2 DEF RunInv
  <2>4. ASSUME ~short, NEW q \in Parts, partFiles'[q] >= 0
        PROVE  partFiles'[q] <= Size(q) /\ BytesOf(q, partFiles'[q]) \subseteq partial
    BY <2>2, <2>4, <1>0 DEF DiskInv, Torn
  <2> QED BY <2>1, <2>2, <2>3, <2>4, <1>0 DEF DiskInv
<1>23. ASSUME NEW d \in Pulls, NEW p \in Parts, WritePart(d, p) PROVE DiskInv'
  <2>1. /\ run[d] = "parts" /\ \A e \in Pulls : run'[e] \in Fetching => e = d
        /\ ~short => RunInv(d)
        /\ short' = short
    BY <1>23, <1>0 DEF WritePart, OwnInv, Working, Fetching, DiskInv, TypeOK, history, At
  <2>2. /\ \A q \in Parts : q # p => chunk'[d][q] = chunk[d][q] /\ partFiles'[q] = partFiles[q]
        /\ chunk'[d][p] \in {"todo", "failed", "done"}
        /\ chunk'[d][p] = "done" => completed[d][p] = Size(p)
        /\ partFiles'[p] \in {partFiles[p], completed[d][p]} /\ run'[d] = "parts"
        /\ UNCHANGED <<blob, partial, known, completed>>
    BY <1>23, <2>1 DEF WritePart, TypeOK
  <2>3. ~short => RunInv(d)'
    BY <2>1, <2>2 DEF RunInv
  <2>4. ASSUME ~short, NEW q \in Parts, partFiles'[q] >= 0
        PROVE  partFiles'[q] <= Size(q) /\ BytesOf(q, partFiles'[q]) \subseteq partial
    <3>1. completed[d][q] <= Size(q) /\ BytesOf(q, completed[d][q]) \subseteq partial
      BY <2>1, <2>4, PartBytes, BlobAssumption DEF RunInv
    <3> QED BY <2>2, <2>4, <3>1, <1>0 DEF DiskInv
  <2> QED BY <2>1, <2>2, <2>3, <2>4, <1>0 DEF DiskInv
<1>24. ASSUME Crash PROVE DiskInv'
  <2>1. /\ \A d \in Pulls : run'[d] = "none"
        /\ \/ UNCHANGED <<blob, partial, partFiles>>
           \/ partFiles' = [p \in Parts |-> NoFile] /\ blob' \in {blob, "absent"}
        /\ short' = short
    BY <1>24 DEF Crash, Restart, disk
  <2>2. CASE UNCHANGED <<blob, partial, partFiles>>
    BY <2>1, <2>2, <1>0, Kept DEF Fetching
  <2>3. CASE partFiles' = [p \in Parts |-> NoFile] /\ blob' \in {blob, "absent"}
    BY <2>1, <2>3, <1>0 DEF DiskInv, Fetching, NoFile
  <2> QED BY <2>1, <2>2, <2>3
<1> QED
  BY <1>1, <1>2, <1>3, <1>4, <1>5, <1>6, <1>7, <1>8, <1>9, <1>10, <1>11, <1>12, <1>13, <1>14, <1>15, <1>16, <1>17, <1>18, <1>19, <1>20, <1>21, <1>22, <1>23, <1>24 DEF Next, Prepare, Run, Part
-----------------------------------------------------------------------------
(* The inductive invariant.                                                *)
IInv == TypeOK /\ FreshInv /\ RefInv /\ OwnInv /\ DiskInv

(* Init establishes the invariant.                                         *)
LEMMA Initially ==
  ASSUME BlobAssumption, Init
  PROVE  IInv
<1>1. TypeOK
  <2>1. 0 \in 0..PartSize /\ NoFile \in Torn..PartSize
    BY BlobAssumption DEF BlobAssumption, NoFile, Torn
  <2>2. Unprepared \in [Parts -> 0..PartSize]
    BY <2>1 DEF Unprepared
  <2>3. /\ short \in BOOLEAN /\ crashes \in 0..MaxCrashes
        /\ blob \in {"absent", "whole", "cut"} /\ partial \subseteq Bytes
    <3>1. MaxCrashes \in Nat /\ crashes = 0
      BY BlobAssumption DEF BlobAssumption, Init
    <3>2. crashes \in 0..MaxCrashes
      BY <3>1
    <3>3. blob = "absent" /\ partial = {} /\ short = FALSE
      BY DEF Init
    <3> QED BY <3>2, <3>3
  <2>7. /\ manager \in Pulls \union {None} /\ on \in [Pulls -> Pulls \union {None}]
        /\ known \in [Pulls -> SUBSET Parts]
        /\ references \in [Pulls -> Nat]
    BY DEF Init
  <2>4. /\ pc \in [Pulls -> Ended \union {"missing", "prepare", "head", "newPart", "join",
                                          "wait", "verify"}]
        /\ run \in [Pulls -> {"none", "start", "direct", "parts", "remove", "rename",
                              "return", "close", "over"}]
        /\ done \in [Pulls -> {"nil", "open", "closed"}]
        /\ err \in [Pulls -> {"none", "nil", "error"}]
        /\ cancelFunc \in [Pulls -> {"nil", "set", "called"}]
    BY DEF Init, Ended
  <2>5. /\ completed \in [Pulls -> [Parts -> 0..PartSize]]
        /\ partFiles \in [Parts -> Torn..PartSize]
    BY <2>1, <2>2 DEF Init
  <2>6. chunk \in [Pulls -> [Parts -> {"todo", "copied", "torn", "done", "failed", "removed"}]]
    BY DEF Init, Untried
  <2> QED BY <2>3, <2>4, <2>5, <2>6, <2>7 DEF TypeOK
<1>2. FreshInv
  BY DEF Init, FreshInv, Before, Making
<1>3. RefInv
  <2>1. ASSUME NEW d \in Pulls PROVE Waiting(d) = {}
    BY DEF Init, Waiting
  <2> QED BY <2>1, FS_EmptySet DEF Init, RefInv
<1>4. OwnInv
  BY DEF Init, OwnInv, Working
<1>5. DiskInv
  BY DEF Init, DiskInv, Fetching, NoFile
<1> QED BY <1>1, <1>2, <1>3, <1>4, <1>5 DEF IInv

(* Whatever the pulls, the goroutines and the crashes do, the invariant is *)
(* kept.                                                                   *)
THEOREM Inductive == Spec => []IInv
<1>1. Init => IInv
  BY Initially, BlobAssumption
<1>2. IInv /\ [Next]_vars => IInv'
  <2>. SUFFICES ASSUME IInv, [Next]_vars PROVE IInv'
    OBVIOUS
  <2>1. TypeOK /\ FreshInv /\ RefInv /\ OwnInv /\ DiskInv
    BY DEF IInv
  <2>2. OwnInv'
    BY <2>1, OwnStep, BlobAssumption
  <2> QED BY <2>1, <2>2, TypeStep, FreshStep, RefStep, DiskStep, BlobAssumption DEF IInv
<1> QED BY <1>1, <1>2, PTL DEF Spec

(* Every variable of the disk and of the downloads keeps its type.         *)
THEOREM TypeCorrect == Spec => []TypeOK
<1>1. IInv => TypeOK
  BY DEF IInv
<1> QED BY <1>1, Inductive, PTL

(* At most one pull prepares, or one goroutine runs, a download: the files *)
(* need no lock.                                                           *)
THEOREM WritersExclude == Spec => []OneWriter
<1>1. IInv => OneWriter
  BY DEF IInv, OwnInv, OneWriter
<1> QED BY <1>1, Inductive, PTL

(* Whatever stops a download, its part files claim no byte that the data   *)
(* file does not have.                                                     *)
THEOREM PartFilesTruthful == Spec => []PartFilesTellTruth
<1>1. IInv => PartFilesTellTruth
  BY DEF IInv, DiskInv, PartFilesTellTruth
<1> QED BY <1>1, Inductive, PTL

(* The file that is renamed to the blob has all the bytes of the blob.     *)
THEOREM BlobsWhole == Spec => []BlobIsWhole
<1>1. IInv => BlobIsWhole
  BY DEF IInv, DiskInv, BlobIsWhole
<1> QED BY <1>1, Inductive, PTL

(* references counts the pulls that wait: it never goes below zero, and it *)
(* is one exactly for the last of them, who cancels the download.          *)
THEOREM ReferencesCount ==
    Spec => [](\A d \in Pulls :
                 references[d] = Cardinality({c \in Pulls : pc[c] = "wait" /\ on[c] = d}))
<1>1. IInv => \A d \in Pulls :
                 references[d] = Cardinality({c \in Pulls : pc[c] = "wait" /\ on[c] = d})
  BY DEF IInv, RefInv, Waiting
<1> QED BY <1>1, Inductive, PTL
=============================================================================
