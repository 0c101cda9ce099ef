----------------------- MODULE ActivityArchiveProofs -----------------------
(***************************************************************************)
(* Proofs about ActivityArchive: the safety properties hold for every set  *)
(* of users and instances, every calendar and every bound, as long as      *)
(* orphanGracePeriod is longer than Archiver.runTimeout.                   *)
(***************************************************************************)
EXTENDS ActivityArchive, FiniteSetTheorems, TLAPS

Uploaded  == {"verify", "finalize"}
HasFile   == {"put", "verify", "finalize"}
HasMonth  == {"write", "put", "verify", "finalize"}

\* No run is ahead of the clock.
Times ==
    /\ \A i \in Instance : started[i] <= clock
    /\ \A r \in recorded : r[2] <= clock

\* Every key in use was issued.
Keys ==
    /\ \A k \in stored : k <= issued
    /\ \A rec \in records : rec.key <= issued
    /\ \A i \in Instance : /\ \A rec \in expired[i] : rec.key <= issued
                           /\ \A k \in orphans[i] : k <= issued
                           /\ pc[i] \in Uploaded \cup {"delete"} => key[i] \in 1..issued

\* An object between its upload and its record belongs to one run.
Own ==
    \A i \in Instance : pc[i] \in Uploaded =>
        /\ started[i] <= storedAt[key[i]]
        /\ \A rec \in records : rec.key # key[i]
        /\ \A j \in Instance : /\ j # i /\ pc[j] \in Uploaded => key[j] # key[i]
                               /\ \A rec \in expired[j] : rec.key # key[i]

\* While its run is in time, a verified object stays as it was read back.
Intact ==
    \A i \in Instance : pc[i] = "finalize" =>
        /\ body[key[i]] = file[i]
        /\ InTime(i) => key[i] \in stored

\* What a run takes for expired has expired, and is what it was when listed.
Listed ==
    \A i \in Instance : \A rec \in expired[i] :
        /\ rec.expires <= started[i]
        /\ \A q \in records : q.key = rec.key \/ q.month = rec.month => q = rec

\* What a run takes for an orphan was stored a grace period before the run.
Old ==
    \A i \in Instance :
        /\ \A k \in orphans[i] : storedAt[k] + Grace <= started[i]
        /\ pc[i] = "delete" => /\ storedAt[key[i]] + Grace <= started[i]
                               /\ \A rec \in records : rec.key # key[i]

\* A month is archived under one record, with one object.
Distinct == \A a, b \in records : a.key = b.key \/ a.month = b.month => a = b

\* The rows of a month that is being archived can only become fewer.
Files ==
    \A i \in Instance :
        /\ pc[i] \in HasMonth => MonthEnd(month[i]) + DbRetention <= clock
        /\ pc[i] \in HasFile =>
              /\ file[i] # {}
              /\ \A r \in rows : MonthOf(r) = month[i] => r \in file[i]
              /\ \A r \in file[i] : MonthOf(r) = month[i]

\* A month with a record is over and has no rows left.
Closed ==
    /\ \A rec \in records : /\ MonthEnd(rec.month) + DbRetention <= clock
                            /\ \A r \in rows : MonthOf(r) # rec.month
                            /\ \A r \in body[rec.key] : MonthOf(r) = rec.month
    /\ \A i \in Instance : \A rec \in expired[i] :
          /\ MonthEnd(rec.month) + DbRetention <= clock
          /\ \A r \in rows : MonthOf(r) # rec.month

\* Purged rows do not come back, into the database or into an archive.
Purged ==
    /\ \A r \in purged : r[1] \in erased /\ r \notin rows
    /\ \A rec \in records : \A r \in body[rec.key] : r \notin purged
    /\ \A r \in retired : r[2] + DbRetention < clock

IInv ==
    /\ TypeOK
    /\ Times
    /\ Keys
    /\ Own
    /\ Intact
    /\ Listed
    /\ Old
    /\ Distinct
    /\ Files
    /\ Closed
    /\ Purged
    /\ RecordsHaveObjects
    /\ NoRowLost
-----------------------------------------------------------------------------
(* The calendar and the count. *)

\* A row is older than the end of its month.
LEMMA Calendar ==
    /\ \A m \in Nat : MonthEnd(m) \in Nat
    /\ \A r \in Row : MonthOf(r) \in Nat /\ r[2] \in Nat /\ r[2] < MonthEnd(MonthOf(r))
<1>1. ASSUME NEW n \in Nat, NEW m \in Nat \ {0} PROVE n \div m \in Nat /\ n < ((n \div m) + 1) * m
  BY SMT
<1>2. \A m \in Nat : MonthEnd(m) \in Nat
  BY ArchiveAssumption DEF MonthEnd
<1>3. ASSUME NEW r \in Row PROVE MonthOf(r) \in Nat /\ r[2] \in Nat /\ r[2] < MonthEnd(MonthOf(r))
  <2>1. r[2] \in Nat
    BY ArchiveAssumption DEF Row, Hour
  <2> QED BY <1>1, <2>1, ArchiveAssumption DEF MonthOf, MonthEnd
<1> QED BY <1>2, <1>3

\* What is logged now belongs to a month that is not over.
LEMMA NewRow ==
    ASSUME NEW u \in User, clock \in 0..MaxClock
    PROVE <<u, clock>> \in Row /\ clock < MonthEnd(MonthOf(<<u, clock>>))
<1>1. <<u, clock>> \in Row
  BY DEF Row, Hour
<1> QED BY <1>1, Calendar

\* Sets of rows are finite.
LEMMA RowsFinite == \A S \in SUBSET Row : IsFiniteSet(S)
<1>1. IsFiniteSet(Hour)
  BY FS_Interval, ArchiveAssumption DEF Hour
<1>2. IsFiniteSet(Row)
  BY FS_Product, <1>1, ArchiveAssumption DEF Row
<1> QED BY FS_Subset, <1>2

\* A subset with as many elements is the whole.
LEMMA SameCount ==
    ASSUME NEW A \in SUBSET Row, NEW B \in SUBSET Row, A \subseteq B, Cardinality(A) = Cardinality(B)
    PROVE A = B
BY RowsFinite, FS_Subset
-----------------------------------------------------------------------------
LEMMA InitHolds == Init => IInv
<1> SUFFICES ASSUME Init PROVE IInv
  OBVIOUS
<1> USE ArchiveAssumption DEF Init
<1>1. TypeOK
  BY DEF TypeOK, Step, Working, Cleaning, Uploaded, HasFile, HasMonth
<1>2. Times
  BY DEF Times, Row, Hour, Uploaded, HasFile, HasMonth
<1>3. Keys
  BY DEF Keys, Uploaded, Key
<1>4. Own
  BY DEF Own, Uploaded, Key, Record
<1>5. Intact
  BY DEF Intact, InTime, Key, Uploaded, HasFile, HasMonth
<1>6. Listed
  BY DEF Listed, Record, Uploaded, HasFile, HasMonth
<1>7. Old
  BY DEF Old, Key, Record, Uploaded, HasFile, HasMonth
<1>8. Distinct
  BY DEF Distinct, Record, Uploaded, HasFile, HasMonth
<1>9. Files
  BY DEF Files, HasMonth, HasFile
<1>10. Closed
  BY DEF Closed, Record, Uploaded, HasFile, HasMonth
<1>11. Purged
  BY DEF Purged, Record, Uploaded, HasFile, HasMonth
<1>12. RecordsHaveObjects
  BY DEF RecordsHaveObjects, Record, Uploaded, HasFile, HasMonth
<1>13. NoRowLost
  BY DEF NoRowLost, Archived, Uploaded, HasFile, HasMonth
<1> QED BY <1>1, <1>2, <1>3, <1>4, <1>5, <1>6, <1>7, <1>8, <1>9, <1>10, <1>11, <1>12, <1>13 DEF IInv
-----------------------------------------------------------------------------
(* Every step keeps the invariant: one lemma per action. *)

\* LogActivityHour keeps the invariant.
LEMMA LogActivityHourKeeps ==
    ASSUME IInv, NEW u \in User, LogActivityHour(u)
    PROVE IInv'
<1> USE DEF IInv
<1>clock. clock \in 0..MaxClock
  BY DEF TypeOK
<1>month. month \in [Instance -> Nat]
  BY DEF TypeOK
<1>recorded. recorded \subseteq Row
  BY DEF TypeOK
<1>recs. \A rec \in records : rec.month \in Nat /\ rec.key \in Key /\ rec.expires \in Nat
  BY DEF TypeOK, Record
<1>exps. \A j \in Instance : \A rec \in expired[j] : rec.month \in Nat /\ rec.key \in Key /\ rec.expires \in Nat
  BY DEF TypeOK, Record
<1>n. <<u, clock>> \in Row /\ clock < MonthEnd(MonthOf(<<u, clock>>))
  BY <1>clock, NewRow
<1>1. TypeOK'
  BY <1>n, ArchiveAssumption DEF TypeOK, LogActivityHour, runVars, objVars, dbVars
<1>2. Times'
  BY <1>clock, <1>recorded, ArchiveAssumption DEF Times, LogActivityHour, runVars, objVars, dbVars
<1>3. Keys'
  BY DEF Keys, Uploaded, LogActivityHour, runVars, objVars, dbVars
<1>4. Own'
  BY DEF Own, Uploaded, LogActivityHour, runVars, objVars, dbVars
<1>5. Intact'
  BY DEF Intact, InTime, LogActivityHour, runVars, objVars, dbVars
<1>6. Listed'
  BY DEF Listed, LogActivityHour, runVars, objVars, dbVars
<1>7. Old'
  BY DEF Old, LogActivityHour, runVars, objVars, dbVars
<1>8. Distinct'
  BY DEF Distinct, LogActivityHour, runVars, objVars, dbVars
<1>9. Files'
  BY <1>clock, <1>month, Calendar, <1>n, ArchiveAssumption DEF Files, HasMonth, HasFile, LogActivityHour, runVars, objVars, dbVars
<1>10. Closed'
  BY <1>clock, <1>recs, <1>exps, Calendar, <1>n, ArchiveAssumption DEF Closed, LogActivityHour, runVars, objVars, dbVars
<1>11. Purged'
  BY DEF Purged, LogActivityHour, runVars, objVars, dbVars
<1>12. RecordsHaveObjects'
  BY DEF RecordsHaveObjects, LogActivityHour, runVars, objVars, dbVars
<1>13. NoRowLost'
  BY DEF NoRowLost, Archived, LogActivityHour, runVars, objVars, dbVars
<1> QED BY <1>1, <1>2, <1>3, <1>4, <1>5, <1>6, <1>7, <1>8, <1>9, <1>10, <1>11, <1>12, <1>13

\* DeleteActivityHistory keeps the invariant.
LEMMA DeleteActivityHistoryKeeps ==
    ASSUME IInv, NEW u \in User, DeleteActivityHistory(u)
    PROVE IInv'
<1> USE DEF IInv
<1>1. TypeOK'
  BY ArchiveAssumption DEF TypeOK, DeleteActivityHistory, runVars, objVars, dbVars
<1>2. Times'
  BY DEF Times, DeleteActivityHistory, runVars, objVars, dbVars
<1>3. Keys'
  BY DEF Keys, Uploaded, DeleteActivityHistory, runVars, objVars, dbVars
<1>4. Own'
  BY DEF Own, Uploaded, DeleteActivityHistory, runVars, objVars, dbVars
<1>5. Intact'
  BY DEF Intact, InTime, DeleteActivityHistory, runVars, objVars, dbVars
<1>6. Listed'
  BY DEF Listed, DeleteActivityHistory, runVars, objVars, dbVars
<1>7. Old'
  BY DEF Old, DeleteActivityHistory, runVars, objVars, dbVars
<1>8. Distinct'
  BY DEF Distinct, DeleteActivityHistory, runVars, objVars, dbVars
<1>9. Files'
  BY DEF Files, HasMonth, HasFile, DeleteActivityHistory, runVars, objVars, dbVars
<1>10. Closed'
  BY DEF Closed, DeleteActivityHistory, runVars, objVars, dbVars
<1>11. Purged'
  BY DEF Purged, DeleteActivityHistory, Closed, runVars, objVars, dbVars
<1>12. RecordsHaveObjects'
  BY DEF RecordsHaveObjects, DeleteActivityHistory, runVars, objVars, dbVars
<1>13. NoRowLost'
  BY DEF NoRowLost, Archived, DeleteActivityHistory, runVars, objVars, dbVars
<1> QED BY <1>1, <1>2, <1>3, <1>4, <1>5, <1>6, <1>7, <1>8, <1>9, <1>10, <1>11, <1>12, <1>13

\* Tick keeps the invariant.
LEMMA TickKeeps ==
    ASSUME IInv, Tick
    PROVE IInv'
<1> USE DEF IInv
<1>clock. clock \in 0..MaxClock
  BY DEF TypeOK
<1>started. started \in [Instance -> Nat]
  BY DEF TypeOK
<1>month. month \in [Instance -> Nat]
  BY DEF TypeOK
<1>recorded. recorded \subseteq Row
  BY DEF TypeOK
<1>recs. \A rec \in records : rec.month \in Nat /\ rec.key \in Key /\ rec.expires \in Nat
  BY DEF TypeOK, Record
<1>exps. \A j \in Instance : \A rec \in expired[j] : rec.month \in Nat /\ rec.key \in Key /\ rec.expires \in Nat
  BY DEF TypeOK, Record
<1>retired. retired \subseteq Row
  BY DEF TypeOK
<1>1. TypeOK'
  BY ArchiveAssumption DEF TypeOK, Tick, runVars, objVars, dbVars
<1>2. Times'
  BY <1>clock, <1>recorded, <1>started, Calendar, ArchiveAssumption DEF Times, Tick, runVars, objVars, dbVars
<1>3. Keys'
  BY DEF Keys, Uploaded, Tick, runVars, objVars, dbVars
<1>4. Own'
  BY DEF Own, Uploaded, Tick, runVars, objVars, dbVars
<1>5. Intact'
  BY <1>clock, <1>started, ArchiveAssumption DEF Intact, InTime, Tick, runVars, objVars, dbVars
<1>6. Listed'
  BY DEF Listed, Tick, runVars, objVars, dbVars
<1>7. Old'
  BY DEF Old, Tick, runVars, objVars, dbVars
<1>8. Distinct'
  BY DEF Distinct, Tick, runVars, objVars, dbVars
<1>9. Files'
  BY <1>clock, <1>month, Calendar, ArchiveAssumption DEF Files, HasMonth, HasFile, Tick, runVars, objVars, dbVars
<1>10. Closed'
  BY <1>clock, <1>recs, <1>exps, Calendar, ArchiveAssumption DEF Closed, Tick, runVars, objVars, dbVars
<1>11. Purged'
  BY <1>clock, <1>retired, Calendar, ArchiveAssumption DEF Purged, Tick, runVars, objVars, dbVars
<1>12. RecordsHaveObjects'
  BY <1>clock, <1>recs, ArchiveAssumption DEF RecordsHaveObjects, Tick, runVars, objVars, dbVars
<1>13. NoRowLost'
  BY DEF NoRowLost, Archived, Tick, runVars, objVars, dbVars
<1> QED BY <1>1, <1>2, <1>3, <1>4, <1>5, <1>6, <1>7, <1>8, <1>9, <1>10, <1>11, <1>12, <1>13

\* AcquireLock keeps the invariant.
LEMMA AcquireLockKeeps ==
    ASSUME IInv, NEW i \in Instance, AcquireLock(i)
    PROVE IInv'
<1> USE DEF IInv
<1>clock. clock \in 0..MaxClock
  BY DEF TypeOK
<1>pc. pc \in [Instance -> Step]
  BY DEF TypeOK
<1>started. started \in [Instance -> Nat]
  BY DEF TypeOK
<1>orphans. orphans \in [Instance -> SUBSET Key]
  BY DEF TypeOK
<1>storedAt. storedAt \in [Key -> Nat]
  BY DEF TypeOK
<1>exps. \A j \in Instance : \A rec \in expired[j] : rec.month \in Nat /\ rec.key \in Key /\ rec.expires \in Nat
  BY DEF TypeOK, Record
<1>1. TypeOK'
  BY ArchiveAssumption DEF TypeOK, AcquireLock, GoTo, runVars, objVars, dbVars, Step, Working, Cleaning
<1>2. Times'
  BY <1>clock, <1>started, ArchiveAssumption DEF Times, AcquireLock, GoTo, runVars, objVars, dbVars
<1>3. Keys'
  BY <1>pc DEF Keys, Uploaded, AcquireLock, GoTo, runVars, objVars, dbVars
<1>4. Own'
  BY <1>started, <1>pc DEF Own, Uploaded, AcquireLock, GoTo, runVars, objVars, dbVars
<1>5. Intact'
  BY <1>started, <1>pc DEF Intact, InTime, AcquireLock, GoTo, runVars, objVars, dbVars
<1>6. Listed'
  BY <1>clock, <1>exps, <1>started, ArchiveAssumption DEF Listed, AcquireLock, GoTo, Times, runVars, objVars, dbVars
<1>7. Old'
  BY <1>clock, <1>orphans, <1>storedAt, <1>started, <1>pc, ArchiveAssumption DEF Old, AcquireLock, GoTo, Times, runVars, objVars, dbVars
<1>8. Distinct'
  BY DEF Distinct, AcquireLock, GoTo, runVars, objVars, dbVars
<1>9. Files'
  BY <1>pc DEF Files, HasMonth, HasFile, AcquireLock, GoTo, runVars, objVars, dbVars
<1>10. Closed'
  BY DEF Closed, AcquireLock, GoTo, runVars, objVars, dbVars
<1>11. Purged'
  BY DEF Purged, AcquireLock, GoTo, runVars, objVars, dbVars
<1>12. RecordsHaveObjects'
  BY DEF RecordsHaveObjects, AcquireLock, GoTo, runVars, objVars, dbVars
<1>13. NoRowLost'
  BY DEF NoRowLost, Archived, AcquireLock, GoTo, runVars, objVars, dbVars
<1> QED BY <1>1, <1>2, <1>3, <1>4, <1>5, <1>6, <1>7, <1>8, <1>9, <1>10, <1>11, <1>12, <1>13

\* Scan keeps the invariant.
LEMMA ScanKeeps ==
    ASSUME IInv, NEW i \in Instance, Scan(i)
    PROVE IInv'
<1> USE DEF IInv
<1>clock. clock \in 0..MaxClock
  BY DEF TypeOK
<1>pc. pc \in [Instance -> Step]
  BY DEF TypeOK
<1>started. started \in [Instance -> Nat]
  BY DEF TypeOK
<1>month. month \in [Instance -> Nat]
  BY DEF TypeOK
<1>rows. rows \subseteq Row
  BY DEF TypeOK
<1>1. TypeOK'
  BY Calendar, ArchiveAssumption DEF TypeOK, Scan, GoTo, InTime, WholeMonth, runVars, objVars, dbVars, Step, Working, Cleaning
<1>2. Times'
  BY DEF Times, Scan, GoTo, InTime, WholeMonth, runVars, objVars, dbVars
<1>3. Keys'
  BY <1>pc DEF Keys, Uploaded, Scan, GoTo, InTime, WholeMonth, runVars, objVars, dbVars
<1>4. Own'
  BY <1>pc DEF Own, Uploaded, Scan, GoTo, InTime, WholeMonth, runVars, objVars, dbVars
<1>5. Intact'
  BY <1>pc DEF Intact, InTime, Scan, GoTo, WholeMonth, runVars, objVars, dbVars
<1>6. Listed'
  BY DEF Listed, Scan, GoTo, InTime, WholeMonth, runVars, objVars, dbVars
<1>7. Old'
  BY <1>pc DEF Old, Scan, GoTo, InTime, WholeMonth, runVars, objVars, dbVars
<1>8. Distinct'
  BY DEF Distinct, Scan, GoTo, InTime, WholeMonth, runVars, objVars, dbVars
<1>9. Files'
  BY <1>clock, <1>started, <1>rows, <1>month, <1>pc, Calendar, ArchiveAssumption DEF Files, HasMonth, HasFile, Scan, GoTo, InTime, WholeMonth, Times, runVars, objVars, dbVars
<1>10. Closed'
  BY DEF Closed, Scan, GoTo, InTime, WholeMonth, runVars, objVars, dbVars
<1>11. Purged'
  BY DEF Purged, Scan, GoTo, InTime, WholeMonth, runVars, objVars, dbVars
<1>12. RecordsHaveObjects'
  BY DEF RecordsHaveObjects, Scan, GoTo, InTime, WholeMonth, runVars, objVars, dbVars
<1>13. NoRowLost'
  BY DEF NoRowLost, Archived, Scan, GoTo, InTime, WholeMonth, runVars, objVars, dbVars
<1> QED BY <1>1, <1>2, <1>3, <1>4, <1>5, <1>6, <1>7, <1>8, <1>9, <1>10, <1>11, <1>12, <1>13

\* WriteArchiveFile keeps the invariant.
LEMMA WriteArchiveFileKeeps ==
    ASSUME IInv, NEW i \in Instance, WriteArchiveFile(i)
    PROVE IInv'
<1> USE DEF IInv
<1>pc. pc \in [Instance -> Step]
  BY DEF TypeOK
<1>file. file \in [Instance -> SUBSET Row]
  BY DEF TypeOK
<1>1. TypeOK'
  BY ArchiveAssumption DEF TypeOK, WriteArchiveFile, GoTo, runVars, objVars, dbVars, Step, Working, Cleaning
<1>2. Times'
  BY DEF Times, WriteArchiveFile, GoTo, runVars, objVars, dbVars
<1>3. Keys'
  BY <1>pc DEF Keys, Uploaded, WriteArchiveFile, GoTo, runVars, objVars, dbVars
<1>4. Own'
  BY <1>pc DEF Own, Uploaded, WriteArchiveFile, GoTo, runVars, objVars, dbVars
<1>5. Intact'
  BY <1>file, <1>pc DEF Intact, InTime, WriteArchiveFile, GoTo, runVars, objVars, dbVars
<1>6. Listed'
  BY DEF Listed, WriteArchiveFile, GoTo, runVars, objVars, dbVars
<1>7. Old'
  BY <1>pc DEF Old, WriteArchiveFile, GoTo, runVars, objVars, dbVars
<1>8. Distinct'
  BY DEF Distinct, WriteArchiveFile, GoTo, runVars, objVars, dbVars
<1>9. Files'
  BY <1>file, <1>pc DEF Files, HasMonth, HasFile, WriteArchiveFile, GoTo, runVars, objVars, dbVars
<1>10. Closed'
  BY DEF Closed, WriteArchiveFile, GoTo, runVars, objVars, dbVars
<1>11. Purged'
  BY DEF Purged, WriteArchiveFile, GoTo, runVars, objVars, dbVars
<1>12. RecordsHaveObjects'
  BY DEF RecordsHaveObjects, WriteArchiveFile, GoTo, runVars, objVars, dbVars
<1>13. NoRowLost'
  BY DEF NoRowLost, Archived, WriteArchiveFile, GoTo, runVars, objVars, dbVars
<1> QED BY <1>1, <1>2, <1>3, <1>4, <1>5, <1>6, <1>7, <1>8, <1>9, <1>10, <1>11, <1>12, <1>13

\* PutPrivateObject keeps the invariant.
LEMMA PutPrivateObjectKeeps ==
    ASSUME IInv, NEW i \in Instance, NEW intact \in BOOLEAN, NEW ok \in BOOLEAN, PutPrivateObject(i, intact, ok)
    PROVE IInv'
<1> USE DEF IInv
<1>clock. clock \in 0..MaxClock
  BY DEF TypeOK
<1>pc. pc \in [Instance -> Step]
  BY DEF TypeOK
<1>started. started \in [Instance -> Nat]
  BY DEF TypeOK
<1>file. file \in [Instance -> SUBSET Row]
  BY DEF TypeOK
<1>key. key \in [Instance -> 0..MaxObjects]
  BY DEF TypeOK
<1>orphans. orphans \in [Instance -> SUBSET Key]
  BY DEF TypeOK
<1>body. body \in [Key -> SUBSET Row]
  BY DEF TypeOK
<1>storedAt. storedAt \in [Key -> Nat]
  BY DEF TypeOK
<1>issued. issued \in 0..MaxObjects
  BY DEF TypeOK
<1>stored. stored \subseteq Key
  BY DEF TypeOK
<1>recs. \A rec \in records : rec.month \in Nat /\ rec.key \in Key /\ rec.expires \in Nat
  BY DEF TypeOK, Record
<1>exps. \A j \in Instance : \A rec \in expired[j] : rec.month \in Nat /\ rec.key \in Key /\ rec.expires \in Nat
  BY DEF TypeOK, Record
<1>n. issued' = issued + 1 /\ issued' \in Key
  BY <1>issued, ArchiveAssumption DEF PutPrivateObject, Key
<1>b. \A k \in Key : k <= issued => body'[k] = body[k] /\ storedAt'[k] = storedAt[k]
  BY <1>n, <1>body, <1>storedAt, <1>issued DEF PutPrivateObject, Key
<1>k. key' = [key EXCEPT ![i] = issued'] /\ storedAt'[issued'] = clock
  BY <1>n, <1>storedAt DEF PutPrivateObject
<1>same. UNCHANGED <<clock, rows, erased, records, recorded, purged, retired, lock, started, month, file,
                     expired, orphans>>
  BY DEF PutPrivateObject, dbVars
<1>pci. pc[i] = "put" /\ clock' = clock
  BY DEF PutPrivateObject
<1>to. /\ pc' \in [Instance -> Step]
       /\ pc'[i] \in {"verify", "cleanup"}
       /\ \A j \in Instance : j # i => pc'[j] = pc[j]
  <2>1. \E s \in {"verify", "cleanup"} : pc' = [pc EXCEPT ![i] = s]
    BY DEF PutPrivateObject, GoTo
  <2> QED BY <2>1, <1>pc DEF Step, Working, Cleaning
<1>mine. /\ key' \in [Instance -> 0..MaxObjects]
         /\ key'[i] = issued'
         /\ \A j \in Instance : j # i => key'[j] = key[j]
  BY <1>k, <1>key, <1>n DEF Key
<1>up. stored' = stored \cup {issued'}
  BY DEF PutPrivateObject
<1>less. \A j \in Instance : pc[j] \in Uploaded \cup {"delete"} => key[j] \in Key /\ key[j] <= issued
  BY <1>issued, ArchiveAssumption DEF Keys, Key
<1>1. TypeOK'
  <2>1. body' \in [Key -> SUBSET Row]
    <3>1. file[i] \in SUBSET Row
      BY <1>file
    <3>2. \E f \in SUBSET Row : body' = [body EXCEPT ![issued'] = f]
      BY <3>1 DEF PutPrivateObject
    <3> QED BY <3>2, <1>body
  <2>2. storedAt' \in [Key -> Nat]
    <3>1. clock \in Nat /\ storedAt' = [storedAt EXCEPT ![issued'] = clock]
      BY <1>clock, ArchiveAssumption DEF PutPrivateObject
    <3> QED BY <3>1, <1>storedAt
  <2>3. issued' \in 0..MaxObjects
    BY <1>n DEF Key
  <2>4. faults' \in 0..MaxFaults
    BY ArchiveAssumption DEF TypeOK, PutPrivateObject, Fault
  <2>5. stored' \subseteq Key
    BY <1>up, <1>n, <1>stored
  <2> QED BY <1>same, <1>to, <1>mine, <2>1, <2>2, <2>3, <2>4, <2>5 DEF TypeOK
<1>2. Times'
  BY DEF Times, PutPrivateObject, GoTo, Fault, runVars, objVars, dbVars
<1>3. Keys'
  <2>1. \A j \in Instance : pc'[j] \in Uploaded \cup {"delete"} => key'[j] \in 1..issued'
    <3> SUFFICES ASSUME NEW j \in Instance, pc'[j] \in Uploaded \cup {"delete"}
                 PROVE key'[j] \in 1..issued'
      OBVIOUS
    <3>1. CASE j = i
      BY <3>1, <1>mine, <1>n DEF Key
    <3>2. CASE j # i
      <4>1. key[j] \in 1..issued
        BY <3>2, <1>to DEF Keys
      <4> QED BY <4>1, <3>2, <1>mine, <1>n, <1>issued
    <3> QED BY <3>1, <3>2
  <2>2. \A k \in stored' : k <= issued'
    BY <1>up, <1>n, <1>stored, <1>issued DEF Keys, Key
  <2>3. /\ \A rec \in records' : rec.key <= issued'
        /\ \A j \in Instance : \A rec \in expired'[j] : rec.key <= issued'
    BY <1>same, <1>n, <1>recs, <1>exps, <1>issued DEF Keys, Key
  <2>4. \A j \in Instance : \A k \in orphans'[j] : k <= issued'
    BY <1>same, <1>n, <1>orphans, <1>issued DEF Keys, Key
  <2> QED BY <2>1, <2>2, <2>3, <2>4 DEF Keys
<1>4. Own'
  <2> SUFFICES ASSUME NEW j \in Instance, pc'[j] \in Uploaded
               PROVE /\ started[j] <= storedAt'[key'[j]]
                     /\ \A rec \in records : rec.key # key'[j]
                     /\ \A l \in Instance : /\ l # j /\ pc'[l] \in Uploaded => key'[l] # key'[j]
                                            /\ \A rec \in expired[l] : rec.key # key'[j]
    BY <1>same DEF Own
  <2>1. CASE j = i
    <3>1. started[i] <= storedAt'[key'[i]]
      BY <1>mine, <1>k DEF Times
    <3>2. \A rec \in records : rec.key # issued'
      BY <1>recs, <1>n, <1>issued DEF Keys, Key
    <3>3. \A l \in Instance : \A rec \in expired[l] : rec.key # issued'
      BY <1>exps, <1>n, <1>issued DEF Keys, Key
    <3>4. \A l \in Instance : l # i /\ pc'[l] \in Uploaded => key'[l] # issued'
      BY <1>mine, <1>to, <1>less, <1>n, <1>issued DEF Key
    <3> QED BY <2>1, <3>1, <3>2, <3>3, <3>4, <1>mine
  <2>2. CASE j # i
    <3>1. pc[j] \in Uploaded /\ key'[j] = key[j] /\ storedAt'[key[j]] = storedAt[key[j]]
      BY <2>2, <1>to, <1>mine, <1>less, <1>b
    <3>2. key[j] # issued'
      BY <3>1, <1>less, <1>n, <1>issued DEF Key
    <3> QED BY <3>1, <3>2, <1>mine, <1>to DEF Own
  <2> QED BY <2>1, <2>2
<1>5. Intact'
  <2> SUFFICES ASSUME NEW j \in Instance, pc'[j] = "finalize"
               PROVE body'[key'[j]] = file[j] /\ (InTime(j)' => key'[j] \in stored')
    BY <1>same DEF Intact
  <2>1. j # i /\ pc[j] = "finalize" /\ key'[j] = key[j]
    BY <1>to, <1>mine
  <2>2. body'[key[j]] = body[key[j]]
    BY <2>1, <1>less, <1>b DEF Uploaded
  <2>3. InTime(j)' => InTime(j)
    BY <1>same DEF InTime
  <2> QED BY <2>1, <2>2, <2>3, <1>up DEF Intact
<1>6. Listed'
  BY DEF Listed, PutPrivateObject, GoTo, Fault, runVars, objVars, dbVars
<1>7. Old'
  <2>1. ASSUME NEW j \in Instance, NEW k \in orphans[j] PROVE storedAt'[k] + Grace <= started[j]
    <3>1. k \in Key /\ k <= issued
      BY <1>orphans DEF Keys
    <3> QED BY <3>1, <1>b DEF Old
  <2>2. ASSUME NEW j \in Instance, pc'[j] = "delete"
        PROVE /\ storedAt'[key'[j]] + Grace <= started[j]
              /\ \A rec \in records : rec.key # key'[j]
    <3>1. j # i /\ pc[j] = "delete" /\ key'[j] = key[j]
      BY <2>2, <1>to, <1>mine
    <3> QED BY <3>1, <1>less, <1>b DEF Old
  <2> QED BY <2>1, <2>2, <1>same DEF Old
<1>8. Distinct'
  BY DEF Distinct, PutPrivateObject, GoTo, Fault, runVars, objVars, dbVars
<1>9. Files'
  BY <1>pc DEF Files, HasMonth, HasFile, PutPrivateObject, GoTo, Fault, runVars, objVars, dbVars
<1>10. Closed'
  BY <1>recs, <1>body, <1>b DEF Closed, PutPrivateObject, GoTo, Fault, Keys, runVars, objVars, dbVars
<1>11. Purged'
  BY <1>recs, <1>body, <1>b DEF Purged, PutPrivateObject, GoTo, Fault, Keys, runVars, objVars, dbVars
<1>12. RecordsHaveObjects'
  BY DEF RecordsHaveObjects, PutPrivateObject, GoTo, Fault, runVars, objVars, dbVars
<1>13. NoRowLost'
  BY <1>recs, <1>body, <1>b DEF NoRowLost, Archived, PutPrivateObject, GoTo, Fault, Keys, runVars, objVars, dbVars
<1> QED BY <1>1, <1>2, <1>3, <1>4, <1>5, <1>6, <1>7, <1>8, <1>9, <1>10, <1>11, <1>12, <1>13

\* VerifyPrivateObject keeps the invariant.
LEMMA VerifyPrivateObjectKeeps ==
    ASSUME IInv, NEW i \in Instance, VerifyPrivateObject(i)
    PROVE IInv'
<1> USE DEF IInv
<1>pc. pc \in [Instance -> Step]
  BY DEF TypeOK
<1>1. TypeOK'
  BY ArchiveAssumption DEF TypeOK, VerifyPrivateObject, Verified, GoTo, runVars, objVars, dbVars, Step, Working, Cleaning
<1>2. Times'
  BY DEF Times, VerifyPrivateObject, Verified, GoTo, runVars, objVars, dbVars
<1>3. Keys'
  BY <1>pc DEF Keys, Uploaded, VerifyPrivateObject, Verified, GoTo, runVars, objVars, dbVars
<1>4. Own'
  BY <1>pc DEF Own, Uploaded, VerifyPrivateObject, Verified, GoTo, runVars, objVars, dbVars
<1>5. Intact'
  BY <1>pc DEF Intact, InTime, VerifyPrivateObject, Verified, GoTo, runVars, objVars, dbVars
<1>6. Listed'
  BY DEF Listed, VerifyPrivateObject, Verified, GoTo, runVars, objVars, dbVars
<1>7. Old'
  BY <1>pc DEF Old, VerifyPrivateObject, Verified, GoTo, runVars, objVars, dbVars
<1>8. Distinct'
  BY DEF Distinct, VerifyPrivateObject, Verified, GoTo, runVars, objVars, dbVars
<1>9. Files'
  BY <1>pc DEF Files, HasMonth, HasFile, VerifyPrivateObject, Verified, GoTo, runVars, objVars, dbVars
<1>10. Closed'
  BY DEF Closed, VerifyPrivateObject, Verified, GoTo, runVars, objVars, dbVars
<1>11. Purged'
  BY DEF Purged, VerifyPrivateObject, Verified, GoTo, runVars, objVars, dbVars
<1>12. RecordsHaveObjects'
  BY DEF RecordsHaveObjects, VerifyPrivateObject, Verified, GoTo, runVars, objVars, dbVars
<1>13. NoRowLost'
  BY DEF NoRowLost, Archived, VerifyPrivateObject, Verified, GoTo, runVars, objVars, dbVars
<1> QED BY <1>1, <1>2, <1>3, <1>4, <1>5, <1>6, <1>7, <1>8, <1>9, <1>10, <1>11, <1>12, <1>13

\* FinalizeActivityArchive keeps the invariant.
LEMMA FinalizeActivityArchiveKeeps ==
    ASSUME IInv, NEW i \in Instance, FinalizeActivityArchive(i)
    PROVE IInv'
<1> USE DEF IInv
<1>clock. clock \in 0..MaxClock
  BY DEF TypeOK
<1>pc. pc \in [Instance -> Step]
  BY DEF TypeOK
<1>started. started \in [Instance -> Nat]
  BY DEF TypeOK
<1>month. month \in [Instance -> Nat]
  BY DEF TypeOK
<1>key. key \in [Instance -> 0..MaxObjects]
  BY DEF TypeOK
<1>storedAt. storedAt \in [Key -> Nat]
  BY DEF TypeOK
<1>rows. rows \subseteq Row
  BY DEF TypeOK
<1>issued. issued \in 0..MaxObjects
  BY DEF TypeOK
<1> DEFINE new == [month |-> month[i], key |-> key[i], expires |-> started[i] + ArchiveLife]
           gone == {r \in rows : MonthOf(r) = month[i]}
<1>pci. pc[i] = "finalize"
  BY DEF FinalizeActivityArchive
<1>mine. key[i] \in 1..issued /\ key[i] \in Key
  BY <1>pci, <1>issued, ArchiveAssumption DEF Keys, Uploaded, Key
<1>fields. month[i] \in Nat /\ started[i] + ArchiveLife \in Nat
  BY <1>month, <1>started, ArchiveAssumption
<1>new. /\ new.month = month[i] /\ new.key = key[i] /\ new.expires = started[i] + ArchiveLife
        /\ new \in Record
        /\ key[i] \in 1..issued
  BY <1>mine, <1>fields DEF Record
<1>file. file[i] \in SUBSET Row
  BY DEF TypeOK
<1>all. Cardinality(gone) = Cardinality(file[i]) => gone = file[i]
  <2>1. gone \subseteq file[i]
    BY <1>pci DEF Files, HasFile
  <2>2. gone \in SUBSET Row
    BY <1>rows
  <2> QED BY <2>1, <2>2, <1>file, SameCount
<1>out. \/ UNCHANGED <<rows, records>>
        \/ /\ gone = file[i] /\ gone # {}
           /\ \A q \in records : q.month # month[i]
           /\ rows' = rows \ gone
           /\ records' = records \cup {new}
  BY <1>all, <1>pci DEF FinalizeActivityArchive, CountMatches, Files, HasFile
<1>step. /\ pc[i] = "finalize" /\ InTime(i)
         /\ pc' = [pc EXCEPT ![i] = "scan"] \/ pc' = [pc EXCEPT ![i] = "cleanup"]
         /\ UNCHANGED <<clock, erased, recorded, purged, retired, objVars, lock, runVars, faults>>
  BY DEF FinalizeActivityArchive, GoTo
<1> HIDE DEF new, gone
<1>1. TypeOK'
  BY <1>new, <1>out, <1>step DEF TypeOK, Step, Working, Cleaning, runVars, objVars
<1>2. Times'
  BY <1>new, <1>out, <1>step DEF Times, runVars, objVars
<1>3. Keys'
  BY <1>new, <1>out, <1>step, <1>pc, <1>issued DEF Keys, Uploaded, runVars, objVars
<1>4. Own'
  BY <1>new, <1>out, <1>step, <1>pc DEF Own, Uploaded, runVars, objVars
<1>5. Intact'
  BY <1>new, <1>out, <1>step, <1>pc DEF Intact, InTime, runVars, objVars
<1>6. Listed'
  <2> SUFFICES ASSUME NEW j \in Instance, NEW rec \in expired[j], NEW q \in records',
                      q.key = rec.key \/ q.month = rec.month
               PROVE rec.expires <= started[j] /\ q = rec
    BY <1>step DEF Listed, runVars
  <2>1. CASE q \in records
    BY <2>1 DEF Listed
  <2>2. CASE q \notin records
    <3>1. q = new /\ gone # {} /\ gone \subseteq rows
      BY <1>out, <2>2 DEF gone
    <3>2. rec.key # key[i]
      BY <1>pci DEF Own, Uploaded
    <3>3. \A r \in gone : MonthOf(r) = month[i]
      BY DEF gone
    <3>4. rec.month # month[i]
      BY <3>1, <3>3 DEF Closed
    <3> QED BY <3>1, <3>2, <3>4, <1>new
  <2> QED BY <2>1, <2>2
<1>7. Old'
  <2>1. ASSUME NEW j \in Instance, pc[j] = "delete" PROVE key[j] # key[i]
    BY <2>1, <1>pci, <1>step, <1>new, <1>clock, <1>started, <1>storedAt, <1>key, <1>issued, ArchiveAssumption
       DEF Own, Uploaded, Old, Times, InTime, Keys, Key
  <2> QED BY <2>1, <1>new, <1>out, <1>step, <1>pc DEF Old, runVars, objVars
<1>8. Distinct'
  BY <1>new, <1>out, <1>step DEF Distinct, Own, Uploaded, runVars, objVars
<1>9. Files'
  BY <1>new, <1>out, <1>step, <1>pc DEF Files, HasMonth, HasFile, runVars, objVars
<1>10. Closed'
  <2>1. MonthEnd(month[i]) + DbRetention <= clock
    BY <1>pci DEF Files, HasMonth
  <2>2. \A r \in rows' : MonthOf(r) = month[i] => UNCHANGED <<rows, records>>
    BY <1>out DEF gone
  <2>3. gone = file[i] => \A r \in body[key[i]] : MonthOf(r) = month[i]
    BY <1>pci DEF Intact, gone
  <2> QED BY <2>1, <2>2, <2>3, <1>new, <1>out, <1>step DEF Closed, runVars, objVars
<1>11. Purged'
  <2>1. gone = file[i] => \A r \in body[key[i]] : r \in rows
    BY <1>pci DEF Intact, gone
  <2> QED BY <2>1, <1>new, <1>out, <1>step DEF Purged, runVars, objVars
<1>12. RecordsHaveObjects'
  <2>1. key[i] \in stored
    BY <1>step DEF Intact
  <2> QED BY <2>1, <1>new, <1>out, <1>step DEF RecordsHaveObjects, objVars
<1>13. NoRowLost'
  <2>1. gone = file[i] => gone = body[key[i]] /\ gone \subseteq Row
    BY <1>pci, <1>file DEF Intact
  <2> QED BY <2>1, <1>new, <1>out, <1>step DEF NoRowLost, Archived, objVars
<1> QED BY <1>1, <1>2, <1>3, <1>4, <1>5, <1>6, <1>7, <1>8, <1>9, <1>10, <1>11, <1>12, <1>13

\* ListExpired keeps the invariant.
LEMMA ListExpiredKeeps ==
    ASSUME IInv, NEW i \in Instance, ListExpired(i)
    PROVE IInv'
<1> USE DEF IInv
<1>pc. pc \in [Instance -> Step]
  BY DEF TypeOK
<1>expired. expired \in [Instance -> SUBSET Record]
  BY DEF TypeOK
<1>1. TypeOK'
  BY ArchiveAssumption DEF TypeOK, ListExpired, GoTo, runVars, objVars, dbVars, Step, Working, Cleaning
<1>2. Times'
  BY DEF Times, ListExpired, GoTo, runVars, objVars, dbVars
<1>3. Keys'
  BY <1>expired, <1>pc DEF Keys, Uploaded, ListExpired, GoTo, runVars, objVars, dbVars
<1>4. Own'
  BY <1>expired, <1>pc DEF Own, Uploaded, ListExpired, GoTo, runVars, objVars, dbVars
<1>5. Intact'
  BY <1>pc DEF Intact, InTime, ListExpired, GoTo, runVars, objVars, dbVars
<1>6. Listed'
  BY <1>expired DEF Listed, ListExpired, GoTo, Distinct, runVars, objVars, dbVars
<1>7. Old'
  BY <1>pc DEF Old, ListExpired, GoTo, runVars, objVars, dbVars
<1>8. Distinct'
  BY DEF Distinct, ListExpired, GoTo, runVars, objVars, dbVars
<1>9. Files'
  BY <1>pc DEF Files, HasMonth, HasFile, ListExpired, GoTo, runVars, objVars, dbVars
<1>10. Closed'
  BY <1>expired DEF Closed, ListExpired, GoTo, runVars, objVars, dbVars
<1>11. Purged'
  BY DEF Purged, ListExpired, GoTo, runVars, objVars, dbVars
<1>12. RecordsHaveObjects'
  BY DEF RecordsHaveObjects, ListExpired, GoTo, runVars, objVars, dbVars
<1>13. NoRowLost'
  BY DEF NoRowLost, Archived, ListExpired, GoTo, runVars, objVars, dbVars
<1> QED BY <1>1, <1>2, <1>3, <1>4, <1>5, <1>6, <1>7, <1>8, <1>9, <1>10, <1>11, <1>12, <1>13

\* DeleteExpiredObject keeps the invariant.
LEMMA DeleteExpiredObjectKeeps ==
    ASSUME IInv, NEW i \in Instance, DeleteExpiredObject(i)
    PROVE IInv'
<1> USE DEF IInv
<1>clock. clock \in 0..MaxClock
  BY DEF TypeOK
<1>pc. pc \in [Instance -> Step]
  BY DEF TypeOK
<1>started. started \in [Instance -> Nat]
  BY DEF TypeOK
<1>recs. \A rec \in records : rec.month \in Nat /\ rec.key \in Key /\ rec.expires \in Nat
  BY DEF TypeOK, Record
<1>exps. \A j \in Instance : \A rec \in expired[j] : rec.month \in Nat /\ rec.key \in Key /\ rec.expires \in Nat
  BY DEF TypeOK, Record
<1>1. TypeOK'
  BY ArchiveAssumption DEF TypeOK, DeleteExpiredObject, GoTo, runVars, objVars, dbVars, Step, Working, Cleaning
<1>2. Times'
  BY DEF Times, DeleteExpiredObject, GoTo, runVars, objVars, dbVars
<1>3. Keys'
  BY <1>pc DEF Keys, Uploaded, DeleteExpiredObject, GoTo, runVars, objVars, dbVars
<1>4. Own'
  BY <1>pc DEF Own, Uploaded, DeleteExpiredObject, GoTo, runVars, objVars, dbVars
<1>5. Intact'
  BY <1>pc DEF Intact, InTime, DeleteExpiredObject, GoTo, Own, Uploaded, runVars, objVars, dbVars
<1>6. Listed'
  BY DEF Listed, DeleteExpiredObject, GoTo, runVars, objVars, dbVars
<1>7. Old'
  BY <1>pc DEF Old, DeleteExpiredObject, GoTo, runVars, objVars, dbVars
<1>8. Distinct'
  BY DEF Distinct, DeleteExpiredObject, GoTo, runVars, objVars, dbVars
<1>9. Files'
  BY <1>pc DEF Files, HasMonth, HasFile, DeleteExpiredObject, GoTo, runVars, objVars, dbVars
<1>10. Closed'
  BY DEF Closed, DeleteExpiredObject, GoTo, runVars, objVars, dbVars
<1>11. Purged'
  BY DEF Purged, DeleteExpiredObject, GoTo, runVars, objVars, dbVars
<1>12. RecordsHaveObjects'
  BY <1>recs, <1>started, <1>clock, <1>exps, ArchiveAssumption DEF RecordsHaveObjects, DeleteExpiredObject, GoTo, Listed, Times, runVars, objVars, dbVars
<1>13. NoRowLost'
  BY DEF NoRowLost, Archived, DeleteExpiredObject, GoTo, runVars, objVars, dbVars
<1> QED BY <1>1, <1>2, <1>3, <1>4, <1>5, <1>6, <1>7, <1>8, <1>9, <1>10, <1>11, <1>12, <1>13

\* DeleteArchiveRecord keeps the invariant.
LEMMA DeleteArchiveRecordKeeps ==
    ASSUME IInv, NEW i \in Instance, DeleteArchiveRecord(i)
    PROVE IInv'
<1> USE DEF IInv
<1>clock. clock \in 0..MaxClock
  BY DEF TypeOK
<1>pc. pc \in [Instance -> Step]
  BY DEF TypeOK
<1>started. started \in [Instance -> Nat]
  BY DEF TypeOK
<1>expired. expired \in [Instance -> SUBSET Record]
  BY DEF TypeOK
<1>body. body \in [Key -> SUBSET Row]
  BY DEF TypeOK
<1>recorded. recorded \subseteq Row
  BY DEF TypeOK
<1>recs. \A rec \in records : rec.month \in Nat /\ rec.key \in Key /\ rec.expires \in Nat
  BY DEF TypeOK, Record
<1>1. TypeOK'
  BY ArchiveAssumption DEF TypeOK, DeleteArchiveRecord, GoTo, runVars, objVars, dbVars, Step, Working, Cleaning
<1>2. Times'
  BY DEF Times, DeleteArchiveRecord, GoTo, runVars, objVars, dbVars
<1>3. Keys'
  BY <1>expired, <1>pc DEF Keys, Uploaded, DeleteArchiveRecord, GoTo, runVars, objVars, dbVars
<1>4. Own'
  BY <1>expired, <1>pc DEF Own, Uploaded, DeleteArchiveRecord, GoTo, runVars, objVars, dbVars
<1>5. Intact'
  BY <1>pc DEF Intact, InTime, DeleteArchiveRecord, GoTo, runVars, objVars, dbVars
<1>6. Listed'
  BY <1>expired DEF Listed, DeleteArchiveRecord, GoTo, runVars, objVars, dbVars
<1>7. Old'
  BY <1>pc DEF Old, DeleteArchiveRecord, GoTo, runVars, objVars, dbVars
<1>8. Distinct'
  BY DEF Distinct, DeleteArchiveRecord, GoTo, runVars, objVars, dbVars
<1>9. Files'
  BY <1>pc DEF Files, HasMonth, HasFile, DeleteArchiveRecord, GoTo, runVars, objVars, dbVars
<1>10. Closed'
  BY <1>expired DEF Closed, DeleteArchiveRecord, GoTo, runVars, objVars, dbVars
<1>11. Purged'
  BY <1>recs, <1>body, <1>clock, Calendar, ArchiveAssumption DEF Purged, DeleteArchiveRecord, GoTo, Closed, runVars, objVars, dbVars
<1>12. RecordsHaveObjects'
  BY DEF RecordsHaveObjects, DeleteArchiveRecord, GoTo, runVars, objVars, dbVars
<1>13. NoRowLost'
  BY <1>recs, <1>started, <1>clock, <1>recorded, ArchiveAssumption DEF NoRowLost, Archived, DeleteArchiveRecord, GoTo, Listed, Times, runVars, objVars, dbVars
<1> QED BY <1>1, <1>2, <1>3, <1>4, <1>5, <1>6, <1>7, <1>8, <1>9, <1>10, <1>11, <1>12, <1>13

\* ListOrphans keeps the invariant.
LEMMA ListOrphansKeeps ==
    ASSUME IInv, NEW i \in Instance, ListOrphans(i)
    PROVE IInv'
<1> USE DEF IInv
<1>pc. pc \in [Instance -> Step]
  BY DEF TypeOK
<1>started. started \in [Instance -> Nat]
  BY DEF TypeOK
<1>orphans. orphans \in [Instance -> SUBSET Key]
  BY DEF TypeOK
<1>storedAt. storedAt \in [Key -> Nat]
  BY DEF TypeOK
<1>stored. stored \subseteq Key
  BY DEF TypeOK
<1>1. TypeOK'
  BY ArchiveAssumption DEF TypeOK, ListOrphans, OldEnough, GoTo, runVars, objVars, dbVars, Step, Working, Cleaning
<1>2. Times'
  BY DEF Times, ListOrphans, OldEnough, GoTo, runVars, objVars, dbVars
<1>3. Keys'
  BY <1>orphans, <1>pc DEF Keys, Uploaded, ListOrphans, OldEnough, GoTo, runVars, objVars, dbVars
<1>4. Own'
  BY <1>pc DEF Own, Uploaded, ListOrphans, OldEnough, GoTo, runVars, objVars, dbVars
<1>5. Intact'
  BY <1>pc DEF Intact, InTime, ListOrphans, OldEnough, GoTo, runVars, objVars, dbVars
<1>6. Listed'
  BY DEF Listed, ListOrphans, OldEnough, GoTo, runVars, objVars, dbVars
<1>7. Old'
  BY <1>stored, <1>storedAt, <1>started, <1>orphans, <1>pc, ArchiveAssumption DEF Old, ListOrphans, OldEnough, GoTo, runVars, objVars, dbVars
<1>8. Distinct'
  BY DEF Distinct, ListOrphans, OldEnough, GoTo, runVars, objVars, dbVars
<1>9. Files'
  BY <1>pc DEF Files, HasMonth, HasFile, ListOrphans, OldEnough, GoTo, runVars, objVars, dbVars
<1>10. Closed'
  BY DEF Closed, ListOrphans, OldEnough, GoTo, runVars, objVars, dbVars
<1>11. Purged'
  BY DEF Purged, ListOrphans, OldEnough, GoTo, runVars, objVars, dbVars
<1>12. RecordsHaveObjects'
  BY DEF RecordsHaveObjects, ListOrphans, OldEnough, GoTo, runVars, objVars, dbVars
<1>13. NoRowLost'
  BY DEF NoRowLost, Archived, ListOrphans, OldEnough, GoTo, runVars, objVars, dbVars
<1> QED BY <1>1, <1>2, <1>3, <1>4, <1>5, <1>6, <1>7, <1>8, <1>9, <1>10, <1>11, <1>12, <1>13

\* CheckOrphan keeps the invariant.
LEMMA CheckOrphanKeeps ==
    ASSUME IInv, NEW i \in Instance, CheckOrphan(i)
    PROVE IInv'
<1> USE DEF IInv
<1>pc. pc \in [Instance -> Step]
  BY DEF TypeOK
<1>key. key \in [Instance -> 0..MaxObjects]
  BY DEF TypeOK
<1>orphans. orphans \in [Instance -> SUBSET Key]
  BY DEF TypeOK
<1>issued. issued \in 0..MaxObjects
  BY DEF TypeOK
<1>1. TypeOK'
  <2>1. orphans' \in [Instance -> SUBSET Key] /\ key' \in [Instance -> 0..MaxObjects]
    <3>1. CASE UNCHANGED <<key, orphans>>
      BY <3>1, <1>orphans, <1>key
    <3>2. CASE ~UNCHANGED <<key, orphans>>
      <4>1. PICK k \in orphans[i] : /\ orphans' = [orphans EXCEPT ![i] = @ \ {k}]
                                    /\ key' = [key EXCEPT ![i] = k]
        BY <3>2 DEF CheckOrphan
      <4>2. k \in Key /\ k \in 0..MaxObjects
        BY <1>orphans, ArchiveAssumption DEF Key
      <4> QED BY <4>1, <4>2, <1>orphans, <1>key
    <3> QED BY <3>1, <3>2
  <2>2. pc' \in [Instance -> Step]
    BY <1>pc DEF CheckOrphan, GoTo, Step, Working, Cleaning
  <2> QED BY <2>1, <2>2 DEF TypeOK, CheckOrphan, dbVars, objVars
<1>2. Times'
  BY DEF Times, CheckOrphan, Referenced, GoTo, runVars, objVars, dbVars
<1>3. Keys'
  BY <1>orphans, <1>issued, <1>key, <1>pc, ArchiveAssumption DEF Keys, Uploaded, CheckOrphan, Referenced, GoTo, Key, runVars, objVars, dbVars
<1>4. Own'
  BY <1>key, <1>pc DEF Own, Uploaded, CheckOrphan, Referenced, GoTo, runVars, objVars, dbVars
<1>5. Intact'
  BY <1>key, <1>pc DEF Intact, InTime, CheckOrphan, Referenced, GoTo, runVars, objVars, dbVars
<1>6. Listed'
  BY DEF Listed, CheckOrphan, Referenced, GoTo, runVars, objVars, dbVars
<1>7. Old'
  BY <1>orphans, <1>key, <1>pc DEF Old, CheckOrphan, Referenced, GoTo, runVars, objVars, dbVars
<1>8. Distinct'
  BY DEF Distinct, CheckOrphan, Referenced, GoTo, runVars, objVars, dbVars
<1>9. Files'
  BY <1>pc DEF Files, HasMonth, HasFile, CheckOrphan, Referenced, GoTo, runVars, objVars, dbVars
<1>10. Closed'
  BY DEF Closed, CheckOrphan, Referenced, GoTo, runVars, objVars, dbVars
<1>11. Purged'
  BY DEF Purged, CheckOrphan, Referenced, GoTo, runVars, objVars, dbVars
<1>12. RecordsHaveObjects'
  BY DEF RecordsHaveObjects, CheckOrphan, Referenced, GoTo, runVars, objVars, dbVars
<1>13. NoRowLost'
  BY DEF NoRowLost, Archived, CheckOrphan, Referenced, GoTo, runVars, objVars, dbVars
<1> QED BY <1>1, <1>2, <1>3, <1>4, <1>5, <1>6, <1>7, <1>8, <1>9, <1>10, <1>11, <1>12, <1>13

\* DeleteOrphan keeps the invariant.
LEMMA DeleteOrphanKeeps ==
    ASSUME IInv, NEW i \in Instance, DeleteOrphan(i)
    PROVE IInv'
<1> USE DEF IInv
<1>clock. clock \in 0..MaxClock
  BY DEF TypeOK
<1>pc. pc \in [Instance -> Step]
  BY DEF TypeOK
<1>started. started \in [Instance -> Nat]
  BY DEF TypeOK
<1>key. key \in [Instance -> 0..MaxObjects]
  BY DEF TypeOK
<1>storedAt. storedAt \in [Key -> Nat]
  BY DEF TypeOK
<1>issued. issued \in 0..MaxObjects
  BY DEF TypeOK
<1>1. TypeOK'
  BY ArchiveAssumption DEF TypeOK, DeleteOrphan, GoTo, runVars, objVars, dbVars, Step, Working, Cleaning
<1>2. Times'
  BY DEF Times, DeleteOrphan, GoTo, runVars, objVars, dbVars
<1>3. Keys'
  BY <1>pc DEF Keys, Uploaded, DeleteOrphan, GoTo, runVars, objVars, dbVars
<1>4. Own'
  BY <1>pc DEF Own, Uploaded, DeleteOrphan, GoTo, runVars, objVars, dbVars
<1>5. Intact'
  <2> SUFFICES ASSUME NEW j \in Instance, pc'[j] = "finalize"
               PROVE body[key[j]] = file[j] /\ (InTime(j) => key[j] \in stored \ {key[i]})
    BY DEF Intact, InTime, DeleteOrphan, runVars, objVars
  <2>1. pc[j] = "finalize" /\ pc[i] = "delete"
    BY <1>pc DEF DeleteOrphan, GoTo
  <2>2. InTime(j) => key[j] # key[i]
    <3>1. key[j] \in Key /\ storedAt[key[j]] \in Nat /\ started[j] \in Nat /\ started[i] \in Nat
      BY <2>1, <1>storedAt, <1>started, <1>issued, ArchiveAssumption DEF Keys, Uploaded, Key
    <3>2. started[j] <= storedAt[key[j]] /\ started[i] <= clock
      BY <2>1 DEF Own, Uploaded, Times
    <3>3. storedAt[key[i]] + Grace <= started[i]
      BY <2>1 DEF Old
    <3> QED BY <3>1, <3>2, <3>3, <1>clock, ArchiveAssumption DEF InTime
  <2> QED BY <2>1, <2>2 DEF Intact
<1>6. Listed'
  BY DEF Listed, DeleteOrphan, GoTo, runVars, objVars, dbVars
<1>7. Old'
  BY <1>pc DEF Old, DeleteOrphan, GoTo, runVars, objVars, dbVars
<1>8. Distinct'
  BY DEF Distinct, DeleteOrphan, GoTo, runVars, objVars, dbVars
<1>9. Files'
  BY <1>pc DEF Files, HasMonth, HasFile, DeleteOrphan, GoTo, runVars, objVars, dbVars
<1>10. Closed'
  BY DEF Closed, DeleteOrphan, GoTo, runVars, objVars, dbVars
<1>11. Purged'
  BY DEF Purged, DeleteOrphan, GoTo, runVars, objVars, dbVars
<1>12. RecordsHaveObjects'
  BY DEF RecordsHaveObjects, DeleteOrphan, GoTo, Old, runVars, objVars, dbVars
<1>13. NoRowLost'
  BY DEF NoRowLost, Archived, DeleteOrphan, GoTo, runVars, objVars, dbVars
<1> QED BY <1>1, <1>2, <1>3, <1>4, <1>5, <1>6, <1>7, <1>8, <1>9, <1>10, <1>11, <1>12, <1>13

\* Release keeps the invariant.
LEMMA ReleaseKeeps ==
    ASSUME IInv, NEW i \in Instance, Release(i)
    PROVE IInv'
<1> USE DEF IInv
<1>clock. clock \in 0..MaxClock
  BY DEF TypeOK
<1>pc. pc \in [Instance -> Step]
  BY DEF TypeOK
<1>started. started \in [Instance -> Nat]
  BY DEF TypeOK
<1>month. month \in [Instance -> Nat]
  BY DEF TypeOK
<1>file. file \in [Instance -> SUBSET Row]
  BY DEF TypeOK
<1>key. key \in [Instance -> 0..MaxObjects]
  BY DEF TypeOK
<1>expired. expired \in [Instance -> SUBSET Record]
  BY DEF TypeOK
<1>orphans. orphans \in [Instance -> SUBSET Key]
  BY DEF TypeOK
<1>1. TypeOK'
  BY ArchiveAssumption DEF TypeOK, Release, Return, runVars, objVars, dbVars, Step, Working, Cleaning
<1>2. Times'
  BY <1>clock, <1>started, ArchiveAssumption DEF Times, Release, Return, runVars, objVars, dbVars
<1>3. Keys'
  BY <1>pc, <1>key, <1>expired, <1>orphans DEF Keys, Uploaded, Release, Return, runVars, objVars, dbVars
<1>4. Own'
  BY <1>pc, <1>started, <1>key, <1>expired DEF Own, Uploaded, Release, Return, runVars, objVars, dbVars
<1>5. Intact'
  BY <1>pc, <1>started, <1>file, <1>key DEF Intact, InTime, Release, Return, runVars, objVars, dbVars
<1>6. Listed'
  BY <1>started, <1>expired DEF Listed, Release, Return, runVars, objVars, dbVars
<1>7. Old'
  BY <1>pc, <1>started, <1>key, <1>orphans DEF Old, Release, Return, runVars, objVars, dbVars
<1>8. Distinct'
  BY DEF Distinct, Release, Return, runVars, objVars, dbVars
<1>9. Files'
  BY <1>pc, <1>month, <1>file DEF Files, HasMonth, HasFile, Release, Return, runVars, objVars, dbVars
<1>10. Closed'
  BY <1>expired DEF Closed, Release, Return, runVars, objVars, dbVars
<1>11. Purged'
  BY DEF Purged, Release, Return, runVars, objVars, dbVars
<1>12. RecordsHaveObjects'
  BY DEF RecordsHaveObjects, Release, Return, runVars, objVars, dbVars
<1>13. NoRowLost'
  BY DEF NoRowLost, Archived, Release, Return, runVars, objVars, dbVars
<1> QED BY <1>1, <1>2, <1>3, <1>4, <1>5, <1>6, <1>7, <1>8, <1>9, <1>10, <1>11, <1>12, <1>13

\* DeadlineExceeded keeps the invariant.
LEMMA DeadlineExceededKeeps ==
    ASSUME IInv, NEW i \in Instance, DeadlineExceeded(i)
    PROVE IInv'
<1> USE DEF IInv
<1>pc. pc \in [Instance -> Step]
  BY DEF TypeOK
<1>1. TypeOK'
  BY ArchiveAssumption DEF TypeOK, DeadlineExceeded, GoTo, runVars, objVars, dbVars, Step, Working, Cleaning
<1>2. Times'
  BY DEF Times, DeadlineExceeded, GoTo, runVars, objVars, dbVars
<1>3. Keys'
  BY <1>pc DEF Keys, Uploaded, DeadlineExceeded, GoTo, runVars, objVars, dbVars
<1>4. Own'
  BY <1>pc DEF Own, Uploaded, DeadlineExceeded, GoTo, runVars, objVars, dbVars
<1>5. Intact'
  BY <1>pc DEF Intact, InTime, DeadlineExceeded, GoTo, runVars, objVars, dbVars
<1>6. Listed'
  BY DEF Listed, DeadlineExceeded, GoTo, runVars, objVars, dbVars
<1>7. Old'
  BY <1>pc DEF Old, DeadlineExceeded, GoTo, runVars, objVars, dbVars
<1>8. Distinct'
  BY DEF Distinct, DeadlineExceeded, GoTo, runVars, objVars, dbVars
<1>9. Files'
  BY <1>pc DEF Files, HasMonth, HasFile, DeadlineExceeded, GoTo, runVars, objVars, dbVars
<1>10. Closed'
  BY DEF Closed, DeadlineExceeded, GoTo, runVars, objVars, dbVars
<1>11. Purged'
  BY DEF Purged, DeadlineExceeded, GoTo, runVars, objVars, dbVars
<1>12. RecordsHaveObjects'
  BY DEF RecordsHaveObjects, DeadlineExceeded, GoTo, runVars, objVars, dbVars
<1>13. NoRowLost'
  BY DEF NoRowLost, Archived, DeadlineExceeded, GoTo, runVars, objVars, dbVars
<1> QED BY <1>1, <1>2, <1>3, <1>4, <1>5, <1>6, <1>7, <1>8, <1>9, <1>10, <1>11, <1>12, <1>13

\* StepFails keeps the invariant.
LEMMA StepFailsKeeps ==
    ASSUME IInv, NEW i \in Instance, StepFails(i)
    PROVE IInv'
<1> USE DEF IInv
<1>pc. pc \in [Instance -> Step]
  BY DEF TypeOK
<1>1. TypeOK'
  BY ArchiveAssumption DEF TypeOK, StepFails, Fault, GoTo, runVars, objVars, dbVars, Step, Working, Cleaning
<1>2. Times'
  BY DEF Times, StepFails, Fault, GoTo, runVars, objVars, dbVars
<1>3. Keys'
  BY <1>pc DEF Keys, Uploaded, StepFails, Fault, GoTo, runVars, objVars, dbVars
<1>4. Own'
  BY <1>pc DEF Own, Uploaded, StepFails, Fault, GoTo, runVars, objVars, dbVars
<1>5. Intact'
  BY <1>pc DEF Intact, InTime, StepFails, Fault, GoTo, runVars, objVars, dbVars
<1>6. Listed'
  BY DEF Listed, StepFails, Fault, GoTo, runVars, objVars, dbVars
<1>7. Old'
  BY <1>pc DEF Old, StepFails, Fault, GoTo, runVars, objVars, dbVars
<1>8. Distinct'
  BY DEF Distinct, StepFails, Fault, GoTo, runVars, objVars, dbVars
<1>9. Files'
  BY <1>pc DEF Files, HasMonth, HasFile, StepFails, Fault, GoTo, runVars, objVars, dbVars
<1>10. Closed'
  BY DEF Closed, StepFails, Fault, GoTo, runVars, objVars, dbVars
<1>11. Purged'
  BY DEF Purged, StepFails, Fault, GoTo, runVars, objVars, dbVars
<1>12. RecordsHaveObjects'
  BY DEF RecordsHaveObjects, StepFails, Fault, GoTo, runVars, objVars, dbVars
<1>13. NoRowLost'
  BY DEF NoRowLost, Archived, StepFails, Fault, GoTo, runVars, objVars, dbVars
<1> QED BY <1>1, <1>2, <1>3, <1>4, <1>5, <1>6, <1>7, <1>8, <1>9, <1>10, <1>11, <1>12, <1>13

\* Stop keeps the invariant.
LEMMA StopKeeps ==
    ASSUME IInv, NEW i \in Instance, Stop(i)
    PROVE IInv'
<1> USE DEF IInv
<1>clock. clock \in 0..MaxClock
  BY DEF TypeOK
<1>pc. pc \in [Instance -> Step]
  BY DEF TypeOK
<1>started. started \in [Instance -> Nat]
  BY DEF TypeOK
<1>month. month \in [Instance -> Nat]
  BY DEF TypeOK
<1>file. file \in [Instance -> SUBSET Row]
  BY DEF TypeOK
<1>key. key \in [Instance -> 0..MaxObjects]
  BY DEF TypeOK
<1>expired. expired \in [Instance -> SUBSET Record]
  BY DEF TypeOK
<1>orphans. orphans \in [Instance -> SUBSET Key]
  BY DEF TypeOK
<1>1. TypeOK'
  BY ArchiveAssumption DEF TypeOK, Stop, Return, Fault, runVars, objVars, dbVars, Step, Working, Cleaning
<1>2. Times'
  BY <1>clock, <1>started, ArchiveAssumption DEF Times, Stop, Return, Fault, runVars, objVars, dbVars
<1>3. Keys'
  BY <1>pc, <1>key, <1>expired, <1>orphans DEF Keys, Uploaded, Stop, Return, Fault, runVars, objVars, dbVars
<1>4. Own'
  BY <1>pc, <1>started, <1>key, <1>expired DEF Own, Uploaded, Stop, Return, Fault, runVars, objVars, dbVars
<1>5. Intact'
  BY <1>pc, <1>started, <1>file, <1>key DEF Intact, InTime, Stop, Return, Fault, runVars, objVars, dbVars
<1>6. Listed'
  BY <1>started, <1>expired DEF Listed, Stop, Return, Fault, runVars, objVars, dbVars
<1>7. Old'
  BY <1>pc, <1>started, <1>key, <1>orphans DEF Old, Stop, Return, Fault, runVars, objVars, dbVars
<1>8. Distinct'
  BY DEF Distinct, Stop, Return, Fault, runVars, objVars, dbVars
<1>9. Files'
  BY <1>pc, <1>month, <1>file DEF Files, HasMonth, HasFile, Stop, Return, Fault, runVars, objVars, dbVars
<1>10. Closed'
  BY <1>expired DEF Closed, Stop, Return, Fault, runVars, objVars, dbVars
<1>11. Purged'
  BY DEF Purged, Stop, Return, Fault, runVars, objVars, dbVars
<1>12. RecordsHaveObjects'
  BY DEF RecordsHaveObjects, Stop, Return, Fault, runVars, objVars, dbVars
<1>13. NoRowLost'
  BY DEF NoRowLost, Archived, Stop, Return, Fault, runVars, objVars, dbVars
<1> QED BY <1>1, <1>2, <1>3, <1>4, <1>5, <1>6, <1>7, <1>8, <1>9, <1>10, <1>11, <1>12, <1>13

\* LoseLock keeps the invariant.
LEMMA LoseLockKeeps ==
    ASSUME IInv, LoseLock
    PROVE IInv'
<1> USE DEF IInv
<1>1. TypeOK'
  BY ArchiveAssumption DEF TypeOK, LoseLock, Fault, runVars, objVars, dbVars
<1>2. Times'
  BY DEF Times, LoseLock, Fault, runVars, objVars, dbVars
<1>3. Keys'
  BY DEF Keys, Uploaded, LoseLock, Fault, runVars, objVars, dbVars
<1>4. Own'
  BY DEF Own, Uploaded, LoseLock, Fault, runVars, objVars, dbVars
<1>5. Intact'
  BY DEF Intact, InTime, LoseLock, Fault, runVars, objVars, dbVars
<1>6. Listed'
  BY DEF Listed, LoseLock, Fault, runVars, objVars, dbVars
<1>7. Old'
  BY DEF Old, LoseLock, Fault, runVars, objVars, dbVars
<1>8. Distinct'
  BY DEF Distinct, LoseLock, Fault, runVars, objVars, dbVars
<1>9. Files'
  BY DEF Files, HasMonth, HasFile, LoseLock, Fault, runVars, objVars, dbVars
<1>10. Closed'
  BY DEF Closed, LoseLock, Fault, runVars, objVars, dbVars
<1>11. Purged'
  BY DEF Purged, LoseLock, Fault, runVars, objVars, dbVars
<1>12. RecordsHaveObjects'
  BY DEF RecordsHaveObjects, LoseLock, Fault, runVars, objVars, dbVars
<1>13. NoRowLost'
  BY DEF NoRowLost, Archived, LoseLock, Fault, runVars, objVars, dbVars
<1> QED BY <1>1, <1>2, <1>3, <1>4, <1>5, <1>6, <1>7, <1>8, <1>9, <1>10, <1>11, <1>12, <1>13

LEMMA StutterKeeps == IInv /\ UNCHANGED vars => IInv'
<1> SUFFICES ASSUME IInv, UNCHANGED vars PROVE IInv'
  OBVIOUS
<1> USE DEF IInv, vars
<1>1. TypeOK'
  BY DEF TypeOK
<1>2. Times'
  BY DEF Times
<1>3. Keys'
  BY DEF Keys, Uploaded
<1>4. Own'
  BY DEF Own, Uploaded
<1>5. Intact'
  BY DEF Intact, InTime
<1>6. Listed'
  BY DEF Listed
<1>7. Old'
  BY DEF Old
<1>8. Distinct'
  BY DEF Distinct
<1>9. Files'
  BY DEF Files, HasMonth, HasFile
<1>10. Closed'
  BY DEF Closed
<1>11. Purged'
  BY DEF Purged
<1>12. RecordsHaveObjects'
  BY DEF RecordsHaveObjects
<1>13. NoRowLost'
  BY DEF NoRowLost, Archived
<1> QED BY <1>1, <1>2, <1>3, <1>4, <1>5, <1>6, <1>7, <1>8, <1>9, <1>10, <1>11, <1>12, <1>13
-----------------------------------------------------------------------------
(* The theorems. *)

LEMMA StepKeeps == IInv /\ [Next]_vars => IInv'
<1> SUFFICES ASSUME IInv, [Next]_vars PROVE IInv'
  OBVIOUS
<1>1. ASSUME NEW u \in User, LogActivityHour(u) \/ DeleteActivityHistory(u) PROVE IInv'
  BY <1>1, LogActivityHourKeeps, DeleteActivityHistoryKeeps
<1>2. ASSUME NEW i \in Instance, RunStep(i) PROVE IInv'
  <2>1. CASE Scan(i) \/ WriteArchiveFile(i) \/ VerifyPrivateObject(i) \/ FinalizeActivityArchive(i)
    BY <2>1, ScanKeeps, WriteArchiveFileKeeps, VerifyPrivateObjectKeeps, FinalizeActivityArchiveKeeps
  <2>2. CASE \E intact, ok \in BOOLEAN : PutPrivateObject(i, intact, ok)
    BY <2>2, PutPrivateObjectKeeps
  <2>3. CASE ListExpired(i) \/ DeleteExpiredObject(i) \/ DeleteArchiveRecord(i)
    BY <2>3, ListExpiredKeeps, DeleteExpiredObjectKeeps, DeleteArchiveRecordKeeps
  <2>4. CASE ListOrphans(i) \/ CheckOrphan(i) \/ DeleteOrphan(i)
    BY <2>4, ListOrphansKeeps, CheckOrphanKeeps, DeleteOrphanKeeps
  <2>5. CASE Release(i) \/ DeadlineExceeded(i)
    BY <2>5, ReleaseKeeps, DeadlineExceededKeeps
  <2> QED BY <1>2, <2>1, <2>2, <2>3, <2>4, <2>5 DEF RunStep
<1>3. ASSUME NEW i \in Instance, AcquireLock(i) \/ StepFails(i) \/ Stop(i) PROVE IInv'
  BY <1>3, AcquireLockKeeps, StepFailsKeeps, StopKeeps
<1>4. CASE Tick \/ LoseLock
  BY <1>4, TickKeeps, LoseLockKeeps
<1>5. CASE UNCHANGED vars
  BY <1>5, StutterKeeps
<1> QED BY <1>1, <1>2, <1>3, <1>4, <1>5 DEF Next

\* The inductive invariant holds in every reachable state.
THEOREM Invariance == Spec => []IInv
<1>1. Init => IInv
  BY InitHolds
<1>2. IInv /\ [Next]_vars => IInv'
  BY StepKeeps
<1> QED BY <1>1, <1>2, PTL DEF Spec

\* Every variable keeps its type.
THEOREM TypeCorrect == Spec => []TypeOK
<1>1. IInv => TypeOK
  BY DEF IInv
<1> QED BY <1>1, Invariance, PTL

\* A recorded archive that has not expired has its object, because the grace
\* period is longer than a run (cleanupOrphans, FinalizeActivityArchive).
THEOREM ObjectsStay == Spec => []RecordsHaveObjects
<1>1. IInv => RecordsHaveObjects
  BY DEF IInv
<1> QED BY <1>1, Invariance, PTL

\* No recorded activity is lost between the database and storage (RunOnce).
THEOREM RowsSurvive == Spec => []NoRowLost
<1>1. IInv => NoRowLost
  BY DEF IInv
<1> QED BY <1>1, Invariance, PTL

\* A row is in one place only (FinalizeActivityArchive's count and its primary key).
THEOREM RowsInOnePlace == Spec => []OnePlace
<1>1. IInv => OnePlace
  <2> SUFFICES ASSUME IInv PROVE OnePlace
    OBVIOUS
  <2>1. Archived \cap (rows \cup purged) = {}
    BY DEF IInv, Archived, Closed, Purged
  <2>2. \A a, b \in records : a # b => body[a.key] \cap body[b.key] = {}
    BY DEF IInv, Closed, Distinct
  <2> QED BY <2>1, <2>2 DEF OnePlace
<1> QED BY <1>1, Invariance, PTL

\* What is younger than the retention of the database is still in it (RunOnce's cutoff).
THEOREM RecentRowsStay == Spec => []RecentStaysInDb
<1>1. IInv => RecentStaysInDb
  <2> SUFFICES ASSUME IInv, NEW r \in recorded, r[2] + DbRetention >= clock PROVE r \in rows \cup purged
    BY DEF RecentStaysInDb
  <2>1. r \in Row /\ clock \in Nat
    BY ArchiveAssumption DEF IInv, TypeOK
  <2>2. r[2] \in Nat /\ r[2] < MonthEnd(MonthOf(r)) /\ MonthEnd(MonthOf(r)) \in Nat
    BY <2>1, Calendar
  <2>3. r \notin retired
    BY <2>1, <2>2, ArchiveAssumption DEF IInv, Purged
  <2>4. ASSUME NEW rec \in records, r \in body[rec.key] PROVE FALSE
    <3>1. MonthOf(r) = rec.month /\ MonthEnd(rec.month) + DbRetention <= clock
      BY <2>4 DEF IInv, Closed
    <3> QED BY <3>1, <2>1, <2>2, ArchiveAssumption
  <2> QED BY <2>3, <2>4 DEF IInv, NoRowLost, Archived
<1> QED BY <1>1, Invariance, PTL
-----------------------------------------------------------------------------
(* The refinement: every step of the detailed archive is a step of         *)
(* ActivityHistory or leaves what it sees unchanged.                       *)

\* Steps of a run that touch neither rows nor records leave the history alone; an
\* upload only writes an object no record refers to.
LEMMA HistoryStutters ==
    ASSUME IInv, UNCHANGED <<clock, rows, erased, records>>,
           UNCHANGED body \/ \E B : body' = [body EXCEPT ![issued + 1] = B]
    PROVE UNCHANGED History!vars
<1>1. \A rec \in records : body'[rec.key] = body[rec.key]
  BY ArchiveAssumption DEF IInv, TypeOK, Keys, Record, Key
<1>2. Archives' = Archives
  BY <1>1 DEF Archives
<1> QED BY <1>2 DEF History!vars

\* The finalizing transaction moves the whole month, as it was read, in one step.
LEMMA FinalizeArchives ==
    ASSUME IInv, NEW i \in Instance, FinalizeActivityArchive(i)
    PROVE [History!Next]_(History!vars)
<1> DEFINE gone == {r \in rows : MonthOf(r) = month[i]}
           new == [month |-> month[i], key |-> key[i], expires |-> started[i] + ArchiveLife]
<1>pci. pc[i] = "finalize" /\ InTime(i)
  BY DEF FinalizeActivityArchive
<1>1. CASE UNCHANGED <<rows, records>>
  <2>1. UNCHANGED History!vars
    BY <1>1, HistoryStutters DEF FinalizeActivityArchive, objVars
  <2> QED BY <2>1
<1>2. CASE ~UNCHANGED <<rows, records>>
  <2>1. /\ CountMatches(i, gone)
        /\ \A rec \in records : rec.month # month[i]
        /\ rows' = rows \ gone
        /\ records' = records \cup {new}
        /\ UNCHANGED <<clock, erased, body>>
    BY <1>2 DEF FinalizeActivityArchive, objVars
  <2>2. gone = file[i] /\ gone # {}
    <3>1. gone \subseteq file[i] /\ file[i] # {}
      BY <1>pci DEF IInv, Files, HasFile
    <3>2. gone \in SUBSET Row /\ file[i] \in SUBSET Row
      BY DEF IInv, TypeOK
    <3> QED BY <2>1, <3>1, <3>2, SameCount DEF CountMatches
  <2>3. body[key[i]] = gone
    BY <2>2, <1>pci DEF IInv, Intact
  <2>4. gone = {r \in rows : History!Month(r) = month[i]}
    BY DEF History!Month, MonthOf
  <2>5. Archives' = Archives \cup {[month |-> month[i], rows |-> gone, expires |-> started[i] + ArchiveLife]}
    <3> DEFINE Shown(rec) == [month |-> rec.month, rows |-> body[rec.key], expires |-> rec.expires]
    <3>1. Archives = {Shown(rec) : rec \in records}
      BY DEF Archives
    <3>2. Archives' = {Shown(rec) : rec \in records \cup {new}}
      BY <2>1 DEF Archives
    <3>3. Shown(new) = [month |-> month[i], rows |-> gone, expires |-> started[i] + ArchiveLife]
      BY <2>3
    <3> HIDE DEF gone, new, Shown
    <3> QED BY <3>1, <3>2, <3>3
  <2>6. \A a \in Archives : a.month # month[i]
    BY <2>1 DEF Archives
  <2>7. /\ month[i] \in Nat /\ started[i] \in Nat /\ clock \in Nat
        /\ started[i] <= clock /\ clock - started[i] <= RunTimeout
    BY <1>pci, ArchiveAssumption DEF IInv, TypeOK, Times, InTime
  <2>8. (month[i] + 1) * MonthLength + DbRetention <= clock
    BY <1>pci DEF IInv, Files, HasMonth, MonthEnd
  <2>9. month[i] <= clock
    <3>1. (month[i] + 1) * MonthLength >= month[i] + 1
      BY <2>7, ArchiveAssumption
    <3>2. (month[i] + 1) * MonthLength \in Nat
      BY <2>7, ArchiveAssumption
    <3> QED BY <3>1, <3>2, <2>7, <2>8, ArchiveAssumption
  <2>10. History!Archive(month[i], started[i])
    <3> HIDE DEF gone
    <3> QED BY <2>1, <2>2, <2>4, <2>5, <2>6, <2>7, <2>8 DEF History!Archive
  <2>11. month[i] \in 0..clock /\ started[i] \in 0..clock
    BY <2>7, <2>9
  <2> QED BY <2>10, <2>11 DEF History!Next
<1> QED BY <1>1, <1>2

\* The record that DeleteActivityArchiveRecord takes away is past its life, or gone.
LEMMA DeleteRecordExpires ==
    ASSUME IInv, NEW i \in Instance, DeleteArchiveRecord(i)
    PROVE [History!Next]_(History!vars)
<1>1. PICK rec \in expired[i] : records' = {o \in records : o.month # rec.month}
  BY DEF DeleteArchiveRecord
<1>2. UNCHANGED <<clock, rows, erased, body>>
  BY DEF DeleteArchiveRecord, objVars
<1>3. \A q \in records : q.month = rec.month => q = rec
  BY DEF IInv, Listed
<1>4. CASE rec \notin records
  <2>1. UNCHANGED records
    BY <1>1, <1>3, <1>4
  <2> QED BY <2>1, <1>2, HistoryStutters
<1>5. CASE rec \in records
  <2> DEFINE a == [month |-> rec.month, rows |-> body[rec.key], expires |-> rec.expires]
  <2>1. a \in Archives
    BY <1>5 DEF Archives
  <2>2. Archives' = Archives \ {a}
    <3>1. \A q \in records : q.month # rec.month <=> q # rec
      BY <1>3
    <3>2. \A q \in records : q # rec =>
             [month |-> q.month, rows |-> body[q.key], expires |-> q.expires] # a
      BY <3>1
    <3> HIDE DEF a
    <3>3. records' = records \ {rec}
      BY <1>1, <3>1
    <3>4. a = [month |-> rec.month, rows |-> body[rec.key], expires |-> rec.expires]
      BY DEF a
    <3> QED BY <3>2, <3>3, <3>4, <1>2 DEF Archives
  <2>3. a.expires <= clock
    <3>1. rec.expires <= started[i] /\ started[i] <= clock
      BY DEF IInv, Listed, Times
    <3>2. rec \in Record /\ started[i] \in Nat /\ clock \in Nat
      BY ArchiveAssumption, <1>5 DEF IInv, TypeOK
    <3>3. rec.expires \in Nat
      BY <3>2 DEF Record
    <3> QED BY <3>1, <3>2, <3>3
  <2>4. History!Expire(a)
    BY <2>2, <2>3, <1>2 DEF History!Expire
  <2> QED BY <2>1, <2>4 DEF History!Next
<1> QED BY <1>4, <1>5

\* Every step is one of ActivityHistory, or invisible to it.
LEMMA StepRefines == IInv /\ [Next]_vars => [History!Next]_(History!vars)
<1> SUFFICES ASSUME IInv, [Next]_vars PROVE [History!Next]_(History!vars)
  OBVIOUS
<1>1. ASSUME NEW u \in User, LogActivityHour(u) PROVE [History!Next]_(History!vars)
  <2>1. Archives' = Archives
    BY <1>1 DEF LogActivityHour, objVars, Archives
  <2>2. History!Log(u)
    BY <1>1, <2>1 DEF LogActivityHour, History!Log
  <2> QED BY <2>2 DEF History!Next
<1>2. ASSUME NEW u \in User, DeleteActivityHistory(u) PROVE [History!Next]_(History!vars)
  <2>1. Archives' = Archives
    BY <1>2 DEF DeleteActivityHistory, objVars, Archives
  <2>2. rows' = {r \in rows : r[1] # u}
    BY <1>2 DEF DeleteActivityHistory
  <2>3. History!Erase(u)
    BY <1>2, <2>1, <2>2 DEF DeleteActivityHistory, History!Erase
  <2> QED BY <2>3 DEF History!Next
<1>3. CASE Tick
  <2>1. Archives' = Archives
    BY <1>3 DEF Tick, dbVars, objVars, Archives
  <2>2. History!Pass
    BY <1>3, <2>1 DEF Tick, dbVars, History!Pass
  <2> QED BY <2>2 DEF History!Next
<1>4. ASSUME NEW i \in Instance,
             NEW intact \in BOOLEAN, NEW ok \in BOOLEAN, PutPrivateObject(i, intact, ok)
      PROVE [History!Next]_(History!vars)
  <2>1. UNCHANGED <<clock, rows, erased, records>>
    BY <1>4 DEF PutPrivateObject, dbVars
  <2>2. \E B : body' = [body EXCEPT ![issued + 1] = B]
    <3>1. issued' = issued + 1 /\ body' = [body EXCEPT ![issued'] = IF intact THEN file[i] ELSE {}]
      BY <1>4 DEF PutPrivateObject
    <3>2. body' = [body EXCEPT ![issued + 1] = IF intact THEN file[i] ELSE {}]
      BY <3>1
    <3> QED BY <3>2
  <2> QED BY <2>1, <2>2, HistoryStutters
<1>5. ASSUME NEW i \in Instance,
             \/ Scan(i) \/ WriteArchiveFile(i) \/ VerifyPrivateObject(i)
             \/ ListExpired(i) \/ DeleteExpiredObject(i)
             \/ ListOrphans(i) \/ CheckOrphan(i) \/ DeleteOrphan(i)
             \/ Release(i) \/ DeadlineExceeded(i) \/ AcquireLock(i) \/ StepFails(i) \/ Stop(i)
      PROVE [History!Next]_(History!vars)
  <2>1. UNCHANGED <<clock, rows, erased, records, body>>
    BY <1>5 DEF Scan, WriteArchiveFile, VerifyPrivateObject, ListExpired, DeleteExpiredObject, ListOrphans,
           CheckOrphan, DeleteOrphan, Release, DeadlineExceeded, AcquireLock, StepFails, Stop, dbVars, objVars
  <2> QED BY <2>1, HistoryStutters
<1>6. CASE LoseLock \/ UNCHANGED vars
  <2>1. UNCHANGED <<clock, rows, erased, records, body>>
    BY <1>6 DEF LoseLock, vars, dbVars, objVars
  <2> QED BY <2>1, HistoryStutters
<1>7. ASSUME NEW i \in Instance, RunStep(i) PROVE [History!Next]_(History!vars)
  BY <1>4, <1>5, <1>7, FinalizeArchives, DeleteRecordExpires DEF RunStep
<1> QED BY <1>1, <1>2, <1>3, <1>5, <1>6, <1>7 DEF Next

\* The archive with all its steps and failures implements ActivityHistory, for
\* every calendar, retention, number of instances and bound (RunOnce and
\* FinalizeActivityArchive beside LogActivityHour and DeleteActivityHistory).
THEOREM HistoryKept == Spec => KeepsHistory
<1>1. Init => History!Init
  BY DEF Init, History!Init, Archives
<1>2. IInv /\ [Next]_vars => [History!Next]_(History!vars)
  BY StepRefines
<1> QED BY <1>1, <1>2, Invariance, PTL DEF Spec, KeepsHistory, History!Spec
=============================
