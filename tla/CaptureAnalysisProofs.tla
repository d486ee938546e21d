----------------------- MODULE CaptureAnalysisProofs -----------------------
(***************************************************************************)
(* Proofs about CaptureAnalysis, for every set of analyses, every capture  *)
(* and every size of the pipe: a report covers the whole capture, and      *)
(* nothing is left running when analyze_capture is over.                   *)
(***************************************************************************)
EXTENDS CaptureAnalysis, TLAPS

(***************************************************************************)
(* The inductive invariant                                                 *)
(***************************************************************************)
\* Before Popen there is no process, no row and no timer.
NotStarted ==
    pc \in {"verify", "metadata", "spawn"} =>
        proc = "none" /\ timer = "off" /\ written = <<>> /\ packets = <<>>

\* The analyzer leaves its loop at the end of the pipe, when TShark is gone.
PipeEnds == pc \in {"cancel", "judge"} => proc # "running" /\ read = Len(written)

\* The process runs only while it is read, the timer only until it is cancelled.
Bracketed ==
    /\ proc = "running" => pc = "reading"
    /\ timer = "armed" => pc \in {"reading", "cancel"}

\* A report is made of every row, by a TShark that ended well and in time.
Judged ==
    report # Null =>
        pc = "done" /\ proc = "ok" /\ ~timed_out /\ read = Len(written)

\* The records are those of the rows read so far, until the limit is reached.
UpToDate == pc # "done" \/ report # Null => RecordsOf(read)

AnalysisInv ==
    /\ TypeOK
    /\ NotStarted
    /\ PipeEnds
    /\ Bracketed
    /\ Judged
    /\ UpToDate


(***************************************************************************)
(* The records                                                             *)
(***************************************************************************)
\* What TShark appends to the pipe leaves the rows already written alone.
LEMMA RowsStay ==
    ASSUME TypeOK, NEW row \in job.rows, job' = job, written' = Append(written, row)
    PROVE /\ written' \in Seq(job'.rows)
          /\ Len(written') = Len(written) + 1
          /\ \A k \in 1..read : written'[k] = written[k]
  <1>1. written \in Seq(job.rows) /\ read \in 0..Len(written)
    BY DEF TypeOK
  <1>2. Len(written) \in Nat
    BY <1>1
  <1>3. /\ Append(written, row) \in Seq(job.rows)
        /\ Len(Append(written, row)) = Len(written) + 1
        /\ \A k \in 1..Len(written) : Append(written, row)[k] = written[k]
    BY <1>1
  <1> QED
    BY <1>1, <1>2, <1>3

\* What a row is converted to does not change.
LEMMA PacketsStay == job' = job => Packets' = Packets
  BY DEF Packets, Parsed

\* A step that reads no row and adds no record keeps the records those of the
\* rows read, even when TShark writes another row meanwhile.
LEMMA RecordsStay ==
    ASSUME TypeOK, RecordsOf(read),
           job' = job, packets' = packets, read' = read,
           \A k \in 1..read : written'[k] = written[k]
    PROVE RecordsOf(read)'
  <1>1. PICK origin \in [DOMAIN packets -> 1..read] :
            /\ \A i, j \in DOMAIN packets : i < j => origin[i] < origin[j]
            /\ \A i \in DOMAIN packets : packets[i] = Parsed(written[origin[i]])
            /\ \A k \in 1..read :
                   Parsed(written[k]) # Null <=> \E i \in DOMAIN packets : origin[i] = k
    BY DEF RecordsOf
  <1>2. \A k \in 1..read : Parsed(written[k])' = Parsed(written[k])
    BY DEF Parsed
  <1>3. \A i \in DOMAIN packets : Parsed(written[origin[i]])' = Parsed(written[origin[i]])
    <2> TAKE i \in DOMAIN packets
    <2>1. origin[i] \in 1..read
      BY <1>1
    <2>2. written'[origin[i]] = written[origin[i]]
      BY <2>1
    <2> QED
      BY <2>2 DEF Parsed
  <1>4. origin \in [DOMAIN packets' -> 1..read']
    BY <1>1
  <1>5. \A i, j \in DOMAIN packets' : i < j => origin[i] < origin[j]
    BY <1>1
  <1>6. \A i \in DOMAIN packets' : packets'[i] = Parsed(written[origin[i]])'
    BY <1>1, <1>3
  <1>7. \A k \in 1..read' :
            Parsed(written[k])' # Null <=> \E i \in DOMAIN packets' : origin[i] = k
    BY <1>1, <1>2
  <1> QED
    BY <1>4, <1>5, <1>6, <1>7 DEF RecordsOf

\* A row that is no packet is read and dropped.
LEMMA RowDropped ==
    ASSUME TypeOK, RecordsOf(read), read < Len(written),
           Parsed(written[read + 1]) = Null,
           job' = job, packets' = packets, written' = written, read' = read + 1
    PROVE RecordsOf(read)'
  <1>1. PICK origin \in [DOMAIN packets -> 1..read] :
            /\ \A i, j \in DOMAIN packets : i < j => origin[i] < origin[j]
            /\ \A i \in DOMAIN packets : packets[i] = Parsed(written[origin[i]])
            /\ \A k \in 1..read :
                   Parsed(written[k]) # Null <=> \E i \in DOMAIN packets : origin[i] = k
    BY DEF RecordsOf
  <1>2. read \in Nat
    BY DEF TypeOK
  <1>3. \A row : Parsed(row)' = Parsed(row)
    BY DEF Parsed
  <1>4. origin \in [DOMAIN packets' -> 1..read']
    BY <1>1, <1>2
  <1>5. \A i, j \in DOMAIN packets' : i < j => origin[i] < origin[j]
    BY <1>1
  <1>6. \A i \in DOMAIN packets' : packets'[i] = Parsed(written[origin[i]])'
    BY ZenonT(20), <1>1, <1>3 DEF Parsed
  <1>7. \A k \in 1..read' :
            Parsed(written[k])' # Null <=> \E i \in DOMAIN packets' : origin[i] = k
    <2> SUFFICES ASSUME NEW k \in 1..(read + 1)
                 PROVE Parsed(written[k]) # Null <=> \E i \in DOMAIN packets : origin[i] = k
      BY ZenonT(20), <1>2 DEF Parsed
    <2>1. CASE k \in 1..read
      BY <1>1, <2>1
    <2>2. CASE k = read + 1
      <3>1. \A i \in DOMAIN packets : origin[i] \in 1..read
        BY <1>1
      <3>2. ~\E i \in DOMAIN packets : origin[i] = k
        BY <1>2, <2>2, <3>1
      <3> QED
        BY <2>2, <3>2
    <2> QED
      BY <1>2, <2>1, <2>2
  <1> QED
    BY <1>4, <1>5, <1>6, <1>7 DEF RecordsOf

\* A row that is a packet is read and becomes the last record.
LEMMA RowRecorded ==
    ASSUME TypeOK, RecordsOf(read), read < Len(written),
           Parsed(written[read + 1]) # Null,
           job' = job, packets' = Append(packets, Parsed(written[read + 1])),
           written' = written, read' = read + 1
    PROVE /\ packets' \in Seq(Packets')
          /\ Len(packets') = Len(packets) + 1
          /\ RecordsOf(read)'
  <1> DEFINE p == Parsed(written[read + 1])
             n == Len(packets)
  <1>1. PICK origin \in [DOMAIN packets -> 1..read] :
            /\ \A i, j \in DOMAIN packets : i < j => origin[i] < origin[j]
            /\ \A i \in DOMAIN packets : packets[i] = Parsed(written[origin[i]])
            /\ \A k \in 1..read :
                   Parsed(written[k]) # Null <=> \E i \in DOMAIN packets : origin[i] = k
    BY DEF RecordsOf
  <1>2. /\ read \in Nat
        /\ written \in Seq(job.rows)
        /\ packets \in Seq(Packets)
    BY DEF TypeOK
  <1>3. p \in Packets
    <2>1. written[read + 1] \in job.rows
      BY <1>2
    <2> QED
      BY <2>1 DEF Packets
  <1> HIDE DEF p
  <1>4. packets' = Append(packets, p)
    BY DEF p
  <1>5. /\ packets' \in Seq(Packets)
        /\ Len(packets') = n + 1
        /\ n \in Nat /\ DOMAIN packets = 1..n /\ DOMAIN packets' = 1..(n + 1)
        /\ packets'[n + 1] = p
        /\ \A i \in 1..n : packets'[i] = packets[i]
    BY <1>2, <1>3, <1>4
  <1> HIDE DEF n
  <1>6. PICK grown \in [1..(n + 1) -> 1..(read + 1)] :
            /\ \A i \in 1..n : grown[i] = origin[i] /\ origin[i] \in 1..read
            /\ grown[n + 1] = read + 1
    <2> DEFINE f == [i \in 1..(n + 1) |-> IF i = n + 1 THEN read + 1 ELSE origin[i]]
    <2>1. \A i \in 1..n : origin[i] \in 1..read
      BY <1>1, <1>5
    <2>2. f \in [1..(n + 1) -> 1..(read + 1)]
      BY <1>2, <1>5, <2>1
    <2>3. (\A i \in 1..n : f[i] = origin[i]) /\ f[n + 1] = read + 1
      BY <1>5
    <2> QED
      BY ZenonT(20), <2>1, <2>2, <2>3
  <1>7. grown \in [DOMAIN packets' -> 1..read']
    BY <1>5, <1>6
  <1>8. \A i, j \in DOMAIN packets' : i < j => grown[i] < grown[j]
    <2> SUFFICES ASSUME NEW i \in 1..(n + 1), NEW j \in 1..(n + 1), i < j
                 PROVE grown[i] < grown[j]
      BY <1>5
    <2>1. i \in 1..n
      BY <1>5
    <2>2. CASE j = n + 1
      BY <1>2, <1>6, <2>1, <2>2
    <2>3. CASE j \in 1..n
      BY ZenonT(20), <1>1, <1>5, <1>6, <2>1, <2>3
    <2> QED
      BY <1>5, <2>2, <2>3
  <1>9. \A i \in DOMAIN packets' : packets'[i] = Parsed(written[grown[i]])'
    <2> SUFFICES ASSUME NEW i \in 1..(n + 1)
                 PROVE packets'[i] = Parsed(written[grown[i]])
      BY ZenonT(20), <1>5 DEF Parsed
    <2>1. CASE i = n + 1
      BY <1>5, <1>6, <2>1 DEF p
    <2>2. CASE i \in 1..n
      BY ZenonT(20), <1>1, <1>5, <1>6, <2>2
    <2> QED
      BY <1>5, <2>1, <2>2
  <1>10. \A k \in 1..read' :
            Parsed(written[k])' # Null <=> \E i \in DOMAIN packets' : grown[i] = k
    <2> SUFFICES ASSUME NEW k \in 1..(read + 1)
                 PROVE Parsed(written[k]) # Null <=> \E i \in 1..(n + 1) : grown[i] = k
      BY ZenonT(20), <1>2, <1>5 DEF Parsed
    <2>1. CASE k \in 1..read
      <3>1. Parsed(written[k]) # Null <=> \E i \in 1..n : origin[i] = k
        BY ZenonT(20), <1>1, <1>5, <2>1
      <3>2. (\E i \in 1..n : origin[i] = k) <=> \E i \in 1..(n + 1) : grown[i] = k
        <4>1. ASSUME NEW i \in 1..n, origin[i] = k
              PROVE \E h \in 1..(n + 1) : grown[h] = k
          <5>1. i \in 1..(n + 1) /\ grown[i] = k
            BY <1>5, <1>6, <4>1
          <5> QED
            BY <5>1
        <4>2. ASSUME NEW i \in 1..(n + 1), grown[i] = k
              PROVE \E h \in 1..n : origin[h] = k
          <5>1. i # n + 1
            BY <1>2, <1>6, <2>1, <4>2
          <5>2. i \in 1..n
            BY <1>5, <5>1
          <5> QED
            BY <1>6, <4>2, <5>2
        <4> QED
          BY <4>1, <4>2
      <3> QED
        BY <3>1, <3>2
    <2>2. CASE k = read + 1
      <3>1. n + 1 \in 1..(n + 1)
        BY <1>5
      <3> QED
        BY <1>6, <2>2, <3>1
    <2> QED
      BY <1>2, <2>1, <2>2
  <1> QED
    <2>1. RecordsOf(read)'
      BY ZenonT(20), <1>7, <1>8, <1>9, <1>10 DEF RecordsOf
    <2> QED
      BY <1>5, <2>1, PacketsStay DEF n


(***************************************************************************)
(* One lemma per action                                                    *)
(***************************************************************************)
\* A capture that is about to be verified: no process, no row, no record.
LEMMA InitHolds == Init => AnalysisInv
  <1> SUFFICES ASSUME Init PROVE AnalysisInv
    OBVIOUS
  <1> USE DEF Init
  <1>1. <<>> \in Seq(job.rows) /\ <<>> \in Seq(Packets)
    OBVIOUS
  <1>2. TypeOK
    <2>1. job \in Jobs /\ job.max_parsed_records \in Nat \ {0} /\ MaxRows \in Nat
      BY ConstantsAssumption
    <2>2. Len(written) = 0 /\ Len(packets) = 0 /\ read \in 0..Len(written)
      OBVIOUS
    <2>3. Len(written) <= MaxRows /\ Len(packets) <= job.max_parsed_records
      BY <2>1, <2>2
    <2> QED
      BY ZenonT(20), <1>1, <2>1, <2>2, <2>3 DEF TypeOK
  <1>3. NotStarted /\ PipeEnds /\ Bracketed /\ Judged
    BY DEF NotStarted, PipeEnds, Bracketed, Judged
  <1>4. RecordsOf(read)
    <2>1. DOMAIN packets = {} /\ 1..read = {}
      OBVIOUS
    <2>2. [i \in {} |-> 0] \in [DOMAIN packets -> 1..read]
      BY <2>1
    <2> QED
      BY ZenonT(20), <2>1, <2>2 DEF RecordsOf
  <1> QED
    BY <1>2, <1>3, <1>4 DEF AnalysisInv, UpToDate

\* Steps before Popen touch neither rows nor records.
LEMMA StartKeeps ==
    ASSUME AnalysisInv, Verify \/ Metadata \/ Spawn
    PROVE AnalysisInv'
  <1>1. /\ job' = job /\ written' = written /\ read' = read /\ packets' = packets
        /\ timed_out' = timed_out /\ report' = report
    BY DEF Verify, Metadata, Spawn
  <1>2. /\ pc \in {"verify", "metadata", "spawn"}
        /\ \/ pc' = "done" /\ outcome' \in Outcomes /\ proc' = proc /\ timer' = timer
           \/ /\ pc' \in {"metadata", "spawn"} /\ outcome' = outcome
              /\ proc' = proc /\ timer' = timer
           \/ /\ pc' = "reading" /\ outcome' = outcome
              /\ proc' = "running" /\ timer' = "armed"
    BY DEF Verify, Metadata, Spawn, Raise, Goto, Outcomes
  <1>3. TypeOK'
    BY <1>1, <1>2, PacketsStay DEF AnalysisInv, TypeOK
  <1>4. NotStarted' /\ PipeEnds' /\ Bracketed'
    BY <1>1, <1>2 DEF AnalysisInv, NotStarted, PipeEnds, Bracketed
  <1>5. report = Null
    BY <1>2 DEF AnalysisInv, TypeOK
  <1>6. Judged'
    BY <1>1, <1>5 DEF Judged
  <1>7. UpToDate'
    <2>1. RecordsOf(read)
      BY <1>2 DEF AnalysisInv, UpToDate
    <2>2. RecordsOf(read)'
      BY <1>1, <2>1, RecordsStay DEF AnalysisInv
    <2> QED
      BY <2>2 DEF UpToDate
  <1> QED
    BY <1>3, <1>4, <1>6, <1>7 DEF AnalysisInv

\* The process writes into the pipe only while the analyzer reads from it.
LEMMA WriteKeeps ==
    ASSUME AnalysisInv, TsharkWrites
    PROVE AnalysisInv'
  <1>1. /\ job' = job /\ pc' = pc /\ proc' = proc /\ read' = read /\ timer' = timer
        /\ timed_out' = timed_out /\ packets' = packets /\ outcome' = outcome
        /\ report' = report
        /\ proc = "running" /\ Len(written) < MaxRows
    BY DEF TsharkWrites
  <1>2. PICK row \in job.rows : written' = Append(written, row)
    BY DEF TsharkWrites
  <1>4. /\ written' \in Seq(job'.rows)
        /\ Len(written') = Len(written) + 1
        /\ \A k \in 1..read : written'[k] = written[k]
    BY ZenonT(20), <1>1, <1>2, RowsStay DEF AnalysisInv
  <1>5. pc = "reading"
    BY <1>1 DEF AnalysisInv, Bracketed
  <1>6. report = Null
    BY <1>5 DEF AnalysisInv, TypeOK
  <1>7. TypeOK'
    <2>1. Len(written) \in Nat /\ MaxRows \in Nat /\ read \in 0..Len(written)
      BY ConstantsAssumption DEF AnalysisInv, TypeOK
    <2>2. read' \in 0..Len(written)' /\ Len(written)' <= MaxRows
      BY <1>1, <1>4, <2>1
    <2> QED
      BY <1>1, <1>4, <2>2, PacketsStay DEF AnalysisInv, TypeOK
  <1>8. NotStarted' /\ PipeEnds' /\ Bracketed' /\ Judged'
    BY <1>1, <1>5, <1>6 DEF AnalysisInv, NotStarted, PipeEnds, Bracketed, Judged
  <1>9. UpToDate'
    <2>1. RecordsOf(read)
      BY <1>5 DEF AnalysisInv, UpToDate
    <2>2. RecordsOf(read)'
      BY <1>1, <1>4, <2>1, RecordsStay DEF AnalysisInv
    <2> QED
      BY <2>2 DEF UpToDate
  <1> QED
    BY <1>7, <1>8, <1>9 DEF AnalysisInv

\* The end of TShark, by itself or by the timer's hand, while the analyzer
\* reads or is about to cancel the timer.
LEMMA EndKeeps ==
    ASSUME AnalysisInv, TsharkEnds \/ Timeout
    PROVE AnalysisInv'
  <1>1. /\ job' = job /\ pc' = pc /\ written' = written /\ read' = read
        /\ packets' = packets /\ outcome' = outcome /\ report' = report
    BY DEF TsharkEnds, Timeout
  <1>2. /\ pc \in {"reading", "cancel"}
        /\ proc' \in {"none", "ok", "cut_short", "failed", "killed"}
        /\ timer' = timer \/ timer' = "fired"
        /\ timed_out' \in BOOLEAN
    BY ZenonT(20) DEF TsharkEnds, Timeout, Kill, AnalysisInv, TypeOK, Bracketed
  <1>3. report = Null
    BY <1>2 DEF AnalysisInv, TypeOK
  <1>4. TypeOK'
    BY <1>1, <1>2, PacketsStay DEF AnalysisInv, TypeOK
  <1>5. NotStarted' /\ PipeEnds' /\ Bracketed' /\ Judged'
    BY <1>1, <1>2, <1>3 DEF AnalysisInv, NotStarted, PipeEnds, Bracketed, Judged
  <1>6. UpToDate'
    <2>1. RecordsOf(read)
      BY <1>2 DEF AnalysisInv, UpToDate
    <2>2. RecordsOf(read)'
      BY <1>1, <2>1, RecordsStay DEF AnalysisInv
    <2> QED
      BY <2>2 DEF UpToDate
  <1> QED
    BY <1>4, <1>5, <1>6 DEF AnalysisInv

\* A row is read: dropped, recorded, or one packet too many, which ends the
\* analysis without a report, the process killed and the timer cancelled.
LEMMA ReadKeeps ==
    ASSUME AnalysisInv, ReadRow
    PROVE AnalysisInv'
  <1> DEFINE p == Parsed(written[read + 1])
  <1>1. /\ pc = "reading" /\ read < Len(written) /\ read' = read + 1
        /\ job' = job /\ written' = written /\ timed_out' = timed_out /\ report' = report
    BY DEF ReadRow
  <1>2. TypeOK /\ RecordsOf(read) /\ report = Null
    BY <1>1 DEF AnalysisInv, UpToDate, TypeOK
  <1>3. /\ Len(written) \in Nat /\ read \in 0..Len(written) /\ Len(packets) \in Nat
        /\ job.max_parsed_records \in Nat
    BY <1>2, ConstantsAssumption DEF TypeOK
  <1>4. read' \in 0..Len(written)'
    BY <1>1, <1>3
  <1>5. Judged'
    BY <1>1, <1>2 DEF Judged
  <1>6. CASE p # Null /\ Len(packets) >= job.max_parsed_records
    <2>1. /\ proc' = IF proc = "running" THEN "killed" ELSE proc
          /\ timer' = "off" /\ pc' = "done" /\ outcome' = "capture_resource_limit"
          /\ packets' = packets
      BY <1>6 DEF ReadRow, Kill, Raise
    <2>2. TypeOK'
      BY <1>1, <1>2, <1>4, <2>1, PacketsStay DEF TypeOK, Outcomes
    <2>3. proc' # "running"
      BY <2>1
    <2>4. NotStarted' /\ PipeEnds' /\ Bracketed'
      BY <2>1, <2>3 DEF NotStarted, PipeEnds, Bracketed
    <2>5. UpToDate'
      BY <1>1, <1>2, <2>1 DEF UpToDate
    <2> QED
      BY <1>5, <2>2, <2>4, <2>5 DEF AnalysisInv
  <1>7. CASE ~(p # Null /\ Len(packets) >= job.max_parsed_records)
    <2>1. /\ packets' = IF p = Null THEN packets ELSE Append(packets, p)
          /\ pc' = pc /\ proc' = proc /\ timer' = timer /\ outcome' = outcome
      BY <1>7 DEF ReadRow
    <2>2. /\ packets' \in Seq(Packets')
          /\ Len(packets') <= job.max_parsed_records
          /\ RecordsOf(read)'
      <3>1. CASE p = Null
        <4>1. packets' = packets
          BY <2>1, <3>1
        <4>2. RecordsOf(read)'
          BY <1>1, <1>2, <3>1, <4>1, RowDropped
        <4> QED
          BY <1>1, <1>2, <4>1, <4>2, PacketsStay DEF TypeOK
      <3>2. CASE p # Null
        <4>1. packets' = Append(packets, p)
          BY <2>1, <3>2
        <4>2. /\ packets' \in Seq(Packets')
              /\ Len(packets') = Len(packets) + 1
              /\ RecordsOf(read)'
          BY <1>1, <1>2, <3>2, <4>1, RowRecorded
        <4>3. Len(packets) < job.max_parsed_records
          BY <1>3, <1>7, <3>2
        <4> QED
          BY <1>3, <4>2, <4>3
      <3> QED
        BY <3>1, <3>2
    <2> HIDE DEF p
    <2>3. TypeOK'
      BY <1>1, <1>2, <1>4, <2>1, <2>2 DEF TypeOK
    <2>4. NotStarted' /\ PipeEnds' /\ Bracketed'
      BY <1>1, <2>1 DEF AnalysisInv, NotStarted, PipeEnds, Bracketed
    <2>5. UpToDate'
      BY <2>2 DEF UpToDate
    <2> QED
      BY <1>5, <2>3, <2>4, <2>5 DEF AnalysisInv
  <1> QED
    BY <1>6, <1>7

\* The loop ends with the pipe, then the timer is cancelled.
LEMMA LeaveKeeps ==
    ASSUME AnalysisInv, EndOfRows \/ CancelTimer
    PROVE AnalysisInv'
  <1>1. /\ job' = job /\ proc' = proc /\ written' = written /\ read' = read
        /\ timed_out' = timed_out /\ packets' = packets /\ report' = report
        /\ outcome' = outcome
    BY DEF EndOfRows, CancelTimer, Goto
  <1>2. \/ /\ pc = "reading" /\ pc' = "cancel" /\ timer' = timer
           /\ proc # "running" /\ read = Len(written)
        \/ pc = "cancel" /\ pc' = "judge" /\ timer' = "off"
    BY DEF EndOfRows, CancelTimer, Goto
  <1>3. report = Null
    BY <1>2 DEF AnalysisInv, TypeOK
  <1>4. TypeOK'
    BY <1>1, <1>2, PacketsStay DEF AnalysisInv, TypeOK
  <1>5. NotStarted' /\ PipeEnds' /\ Bracketed' /\ Judged'
    BY <1>1, <1>2, <1>3 DEF AnalysisInv, NotStarted, PipeEnds, Bracketed, Judged
  <1>6. UpToDate'
    <2>1. RecordsOf(read)
      BY <1>2 DEF AnalysisInv, UpToDate
    <2>2. RecordsOf(read)'
      BY <1>1, <2>1, RecordsStay DEF AnalysisInv
    <2> QED
      BY <2>2 DEF UpToDate
  <1> QED
    BY <1>4, <1>5, <1>6 DEF AnalysisInv

\* A report is returned only for a process that ended well and in time.
LEMMA JudgeKeeps ==
    ASSUME AnalysisInv, Judge
    PROVE AnalysisInv'
  <1>1. /\ job' = job /\ proc' = proc /\ written' = written /\ read' = read
        /\ timer' = timer /\ timed_out' = timed_out /\ packets' = packets
        /\ pc = "judge" /\ pc' = "done"
    BY DEF Judge, Raise
  <1>2. /\ outcome' \in Outcomes
        /\ report' = report \/ (~timed_out /\ proc = "ok")
    BY DEF Judge, Raise, Outcomes
  <1>3. report = Null /\ proc # "running" /\ read = Len(written) /\ timer # "armed"
    BY <1>1 DEF AnalysisInv, TypeOK, PipeEnds, Bracketed
  <1>4. TypeOK'
    BY <1>1, <1>2, PacketsStay DEF AnalysisInv, TypeOK
  <1>5. NotStarted' /\ PipeEnds' /\ Bracketed'
    BY <1>1, <1>3 DEF NotStarted, PipeEnds, Bracketed
  <1>6. Judged'
    BY <1>1, <1>2, <1>3 DEF Judged
  <1>7. UpToDate'
    <2>1. RecordsOf(read)
      BY <1>1 DEF AnalysisInv, UpToDate
    <2>2. RecordsOf(read)'
      BY <1>1, <2>1, RecordsStay DEF AnalysisInv
    <2> QED
      BY <2>2 DEF UpToDate
  <1> QED
    BY <1>4, <1>5, <1>6, <1>7 DEF AnalysisInv

\* Every step of the analyzer, of its timer and of TShark keeps the invariant.
LEMMA StepKeeps == AnalysisInv /\ [Next]_vars => AnalysisInv'
  <1> SUFFICES ASSUME AnalysisInv, [Next]_vars PROVE AnalysisInv'
    OBVIOUS
  <1>1. CASE Verify \/ Metadata \/ Spawn
    BY <1>1, StartKeeps
  <1>2. CASE TsharkWrites
    BY <1>2, WriteKeeps
  <1>3. CASE TsharkEnds \/ Timeout
    BY <1>3, EndKeeps
  <1>4. CASE ReadRow
    BY <1>4, ReadKeeps
  <1>5. CASE EndOfRows \/ CancelTimer
    BY <1>5, LeaveKeeps
  <1>6. CASE Judge
    BY <1>6, JudgeKeeps
  <1>7. CASE UNCHANGED vars
    <2>1. /\ job' = job /\ pc' = pc /\ proc' = proc /\ written' = written /\ read' = read
          /\ timer' = timer /\ timed_out' = timed_out /\ packets' = packets
          /\ outcome' = outcome /\ report' = report
      BY <1>7 DEF vars
    <2>2. TypeOK'
      BY <2>1, PacketsStay DEF AnalysisInv, TypeOK
    <2>3. NotStarted' /\ PipeEnds' /\ Bracketed' /\ Judged'
      BY <2>1 DEF AnalysisInv, NotStarted, PipeEnds, Bracketed, Judged
    <2>4. RecordsOf(read) => RecordsOf(read)'
      BY <2>1, RecordsStay DEF AnalysisInv
    <2>5. UpToDate'
      BY <2>1, <2>4 DEF AnalysisInv, UpToDate
    <2> QED
      BY <2>2, <2>3, <2>5 DEF AnalysisInv
  <1> QED
    BY <1>1, <1>2, <1>3, <1>4, <1>5, <1>6, <1>7 DEF Next

\* The invariant holds in every state of an analysis.
LEMMA AnalysisAlways == Spec => []AnalysisInv
  BY InitHolds, StepKeeps, PTL DEF Spec

(***************************************************************************)
(* The results                                                             *)
(***************************************************************************)
\* Whatever TShark writes and however it ends, whenever the timer fires:
\* analyze_capture reports on a capture only when TShark ended well and in
\* time, and the metrics are then computed from every packet row it wrote,
\* each once and in order.
THEOREM ReportsAreWhole == Spec => []ReportIsWhole
  <1>1. AnalysisInv => ReportIsWhole
    <2> SUFFICES ASSUME AnalysisInv, report # Null PROVE ReportIsWhole
      BY DEF ReportIsWhole
    <2>1. proc = "ok" /\ ~timed_out /\ read = Len(written)
      BY DEF AnalysisInv, Judged
    <2>2. RecordsOf(read)
      BY DEF AnalysisInv, UpToDate
    <2>3. Len(packets) <= job.max_parsed_records
      BY DEF AnalysisInv, TypeOK
    <2> QED
      BY <2>1, <2>2, <2>3 DEF ReportIsWhole
  <1> QED
    BY <1>1, AnalysisAlways, PTL

\* When analyze_capture is over, by a report or by any of its errors, TShark
\* is not running and the timer is not armed.
THEOREM NothingIsLeftBehind == Spec => []NothingLeftBehind
  <1>1. AnalysisInv => NothingLeftBehind
    BY DEF AnalysisInv, Bracketed, NothingLeftBehind
  <1> QED
    BY <1>1, AnalysisAlways, PTL

\* Every variable keeps its type, and an outcome is there exactly when
\* analyze_capture is over.
THEOREM AnalysisTypes == Spec => []TypeOK
  <1>1. AnalysisInv => TypeOK
    BY DEF AnalysisInv
  <1> QED
    BY <1>1, AnalysisAlways, PTL

=============================================================================
