-------------------------- MODULE TelemetryProofs --------------------------
(***************************************************************************)
(* JobFieldsBelong for every set of jobs and every way they name           *)
(* themselves.  The property alone is not inductive: it says nothing of a  *)
(* view whose ids and fields disagree with the job whose first report is   *)
(* still to come.  Owned says that a view which never lost its name is     *)
(* about one job o, and that o is the printer's job once that has been     *)
(* announced.                                                              *)
(***************************************************************************)
EXTENDS Telemetry, TLAPS

OwnedBy(o) ==
    /\ IdKeys \subseteq DOMAIN fields
    /\ \A k \in IdKeys : fields[k] = Ids[o][k]
    /\ \A k \in DOMAIN fields \cap JobScoped : fields[k] = o
    /\ announced => o = job

Owned == fields # Empty /\ ~blank => \E o \in Jobs : OwnedBy(o)

IInv ==
    /\ job \in Jobs
    /\ zeroed \in BOOLEAN
    /\ blank \in BOOLEAN
    /\ fields = [k \in DOMAIN fields |-> fields[k]]
    /\ Owned

(* Two maps that agree on the identity keys name the same job (TaskID).    *)
LEMMA TaskIDAgrees ==
    ASSUME NEW f, NEW g,
           IdKeys \subseteq DOMAIN f, IdKeys \subseteq DOMAIN g,
           \A k \in IdKeys : f[k] = g[k]
    PROVE  TaskID(f) = TaskID(g)
BY DEF TaskID, String, Names, IdKeys

(* A map without identity keys names no job (TaskID's final return).       *)
LEMMA TaskIDNone ==
    ASSUME NEW f, IdKeys \cap DOMAIN f = {}
    PROVE  TaskID(f) = Absent
BY DEF TaskID, String, Names, IdKeys

(* A job's own id map yields one of that job's names.                      *)
LEMMA TaskIDOfJob ==
    ASSUME NEW j \in Jobs
    PROVE  TaskID(Ids[j]) \in NamesOf(j) /\ TaskID(Ids[j]) # Absent
<1>1. DOMAIN Ids[j] = IdKeys
  BY JobsAssumption
<1>2. PICK k \in IdKeys : Names(Ids[j][k])
  BY JobsAssumption
<1>3. \E l \in IdKeys : TaskID(Ids[j]) = Ids[j][l] /\ Names(Ids[j][l])
  BY <1>1, <1>2 DEF TaskID, String, Names, IdKeys
<1> QED
  BY <1>3 DEF NamesOf, Names

(* Different jobs have different identities.                               *)
LEMMA TaskIDSeparates ==
    ASSUME NEW i \in Jobs, NEW j \in Jobs, TaskID(Ids[i]) = TaskID(Ids[j])
    PROVE  i = j
<1>1. PICK k \in IdKeys : TaskID(Ids[i]) = Ids[i][k] /\ Names(Ids[i][k])
  BY TaskIDOfJob DEF NamesOf
<1>2. PICK l \in IdKeys : TaskID(Ids[j]) = Ids[j][l]
  BY TaskIDOfJob DEF NamesOf
<1> QED
  BY <1>1, <1>2, JobsAssumption

(* A map whose identity keys all read "0" names no job.                    *)
LEMMA TaskIDZeroed ==
    ASSUME NEW f, \A k \in IdKeys : f[k] = "0"
    PROVE  TaskID(f) = Absent
BY DEF TaskID, String, Names, IdKeys

(* Merging a report of the printer's job leaves the view about one job:    *)
(* this is what forgetPreviousJob is for.                                  *)
LEMMA ReportOwned ==
    ASSUME IInv, NEW K \in SUBSET Keys, Report(K)
    PROVE  IInv'
<1> DEFINE section == [k \in K |-> Value(k)]
           kept == ForgetPreviousJob(fields, section)
<1>1. /\ job' = job /\ zeroed' = zeroed /\ announced' = (announced \/ ~zeroed)
      /\ job \in Jobs /\ zeroed \in BOOLEAN
      /\ MayCarry(K)
      /\ fields' = Merge(fields, section)
      /\ blank' = (blank \/ TaskID(fields') = Absent)
  BY DEF Report, IInv
<1>2. /\ \A k \in K \cap IdKeys : section[k] = IF zeroed THEN "0" ELSE Ids[job][k]
      /\ \A k \in K \cap JobScoped : section[k] = job
  BY KeysAssumption DEF Value, IInv, Keys, IdKeys, JobScoped
<1>3. /\ DOMAIN fields' = DOMAIN kept \cup K
      /\ \A k \in DOMAIN fields' :
            fields'[k] = IF k \in K THEN section[k] ELSE kept[k]
      /\ fields' = [k \in DOMAIN fields' |-> fields'[k]]
  BY <1>1 DEF Merge
<1>4. blank' \in BOOLEAN
  BY <1>1, Zenon DEF IInv
<1>5. SUFFICES ASSUME ~blank' PROVE \E o \in Jobs : OwnedBy(o)'
  BY <1>1, <1>3, <1>4 DEF IInv, Owned
<1>6. ~blank /\ TaskID(fields') # Absent
  BY <1>1, <1>5
<1>7. CASE IdKeys \subseteq K
  <2>1. ~zeroed
    <3> SUFFICES ASSUME zeroed PROVE FALSE
      OBVIOUS
    <3>1. \A k \in IdKeys : fields'[k] = "0"
      BY <1>2, <1>3, <1>7
    <3> QED
      BY <1>6, <3>1, TaskIDZeroed
  <2>2. TaskID(section) = TaskID(Ids[job]) /\ TaskID(section) # Absent
    <3>1. DOMAIN Ids[job] = IdKeys
      BY <1>1, JobsAssumption
    <3>2. IdKeys \subseteq DOMAIN section
      BY <1>7
    <3>3. \A k \in IdKeys : section[k] = Ids[job][k]
      BY <1>2, <1>7, <2>1
    <3> HIDE DEF section
    <3>4. TaskID(section) = TaskID(Ids[job])
      BY <3>1, <3>2, <3>3, TaskIDAgrees
    <3> QED
      BY <1>1, <3>4, TaskIDOfJob
  <2>3. CASE fields = Empty
    <3>1. DOMAIN kept = {}
      BY <2>3, TaskIDNone, Zenon DEF Empty, ForgetPreviousJob
    <3>2. OwnedBy(job)'
      BY <1>1, <1>2, <1>3, <1>7, <2>1, <3>1 DEF OwnedBy
    <3> QED
      BY <1>1, <3>2
  <2>4. CASE fields # Empty
    <3>1. PICK o \in Jobs : OwnedBy(o)
      BY <1>6, <2>4 DEF IInv, Owned
    <3>2. TaskID(fields) = TaskID(Ids[o]) /\ TaskID(fields) # Absent
      <4>1. DOMAIN Ids[o] = IdKeys
        BY JobsAssumption
      <4> QED
        BY <3>1, <4>1, TaskIDAgrees, TaskIDOfJob DEF OwnedBy
    <3>3. CASE o = job
      <4>1. kept = fields
        BY <2>2, <3>2, <3>3 DEF ForgetPreviousJob
      <4>2. OwnedBy(job)
        BY <3>1, <3>3
      <4>3. IdKeys \subseteq DOMAIN fields'
        BY <1>3, <1>7
      <4>4. \A k \in IdKeys : fields'[k] = Ids[job][k]
        BY <1>2, <1>3, <1>7, <2>1, <4>3
      <4>5. \A k \in DOMAIN fields' \cap JobScoped : fields'[k] = job
        BY <1>2, <1>3, <4>1, <4>2 DEF OwnedBy
      <4>6. OwnedBy(job)'
        BY <1>1, <4>3, <4>4, <4>5 DEF OwnedBy
      <4> QED
        BY <1>1, <4>6
    <3>4. CASE o # job
      <4>1. TaskID(section) \notin {Absent, TaskID(fields)}
        BY <1>1, <2>2, <3>2, <3>4, TaskIDSeparates
      <4>2. DOMAIN kept = DOMAIN fields \ JobScoped
        BY <3>2, <4>1 DEF ForgetPreviousJob
      <4>3. OwnedBy(job)'
        BY <1>1, <1>2, <1>3, <1>7, <2>1, <4>2 DEF OwnedBy
      <4> QED
        BY <1>1, <4>3
    <3> QED
      BY <3>3, <3>4
  <2> QED
    BY <2>3, <2>4
<1>8. CASE ~(IdKeys \subseteq K)
  <2>1. K \cap IdKeys = {} /\ announced
    BY <1>1, <1>8 DEF MayCarry
  <2>2. kept = fields
    BY <2>1, TaskIDNone DEF ForgetPreviousJob
  <2>3. fields # Empty
    <3> SUFFICES ASSUME fields = Empty PROVE FALSE
      OBVIOUS
    <3>1. IdKeys \cap DOMAIN fields' = {}
      BY <1>3, <2>1, <2>2 DEF Empty
    <3> QED
      BY <1>6, <3>1, TaskIDNone
  <2>4. PICK o \in Jobs : OwnedBy(o)
    BY <1>6, <2>3 DEF IInv, Owned
  <2>5. o = job
    BY <2>1, <2>4 DEF OwnedBy
  <2>6. OwnedBy(job)
    BY <2>4, <2>5
  <2>7. OwnedBy(job)'
    BY <1>1, <1>2, <1>3, <2>1, <2>2, <2>6 DEF OwnedBy
  <2> QED
    BY <1>1, <2>7
<1> QED
  BY <1>7, <1>8

(* The strengthened invariant: the view is about one job at a time.        *)
THEOREM OwnedInvariant == Spec => []IInv
<1>1. Init => IInv
  BY DEF Init, IInv, Owned, Empty
<1>2. IInv /\ [Next]_vars => IInv'
  <2> SUFFICES ASSUME IInv, [Next]_vars PROVE IInv'
    OBVIOUS
  <2>1. ASSUME NEW j \in Jobs, StartJob(j) PROVE IInv'
    BY <2>1 DEF StartJob, IInv, Owned, OwnedBy
  <2>2. ASSUME NEW K \in SUBSET Keys, Report(K) PROVE IInv'
    BY <2>2, ReportOwned
  <2>3. CASE Restart
    BY <2>3 DEF Restart, IInv, Owned, Empty
  <2>4. CASE UNCHANGED vars
    BY <2>4 DEF vars, IInv, Owned, OwnedBy
  <2>5. CASE ClearIds
    BY <2>5 DEF ClearIds, IInv, Owned, OwnedBy
  <2> QED
    BY <2>1, <2>2, <2>3, <2>4, <2>5 DEF Next
<1> QED
  BY <1>1, <1>2, PTL DEF Spec

(* No job-scoped field survives into the next print, for any jobs and ids, *)
(* as long as the view has never been without an identity.                 *)
THEOREM JobFieldsNeverInherited == Spec => []JobFieldsBelong
<1>1. IInv => JobFieldsBelong
  <2> SUFFICES ASSUME IInv, ~blank PROVE JobFieldsBelong
    BY DEF JobFieldsBelong
  <2>1. CASE fields = Empty
    BY <2>1 DEF Empty, JobFieldsBelong
  <2>2. CASE fields # Empty
    <3>1. PICK o \in Jobs : OwnedBy(o)
      BY <2>2 DEF IInv, Owned
    <3>2. DOMAIN Ids[o] = IdKeys
      BY JobsAssumption
    <3>3. TaskID(fields) \in NamesOf(o)
      BY <3>1, <3>2, TaskIDAgrees, TaskIDOfJob DEF OwnedBy
    <3> QED
      BY <3>1, <3>3 DEF JobFieldsBelong, OwnedBy
  <2> QED
    BY <2>1, <2>2
<1> QED
  BY <1>1, OwnedInvariant, PTL

-----------------------------------------------------------------------------
(* What the view knows of the printer's job once that has been announced:  *)
(* all its ids, if it has any (the view of a process that has only heard   *)
(* deltas has none).                                                       *)
Heard ==
    announced /\ ~zeroed /\ IdKeys \cap DOMAIN fields # {} =>
        /\ IdKeys \subseteq DOMAIN fields
        /\ \A k \in IdKeys : fields[k] = Ids[job][k]

HeardInv == TypeOK /\ Heard

(* What the printer says of a key it may carry has that key's type.        *)
LEMMA ValueType ==
    ASSUME TypeOK, NEW k \in Keys
    PROVE  /\ k \in IdKeys => Value(k) = (IF zeroed THEN "0" ELSE Ids[job][k])
           /\ k \in IdKeys => Value(k) \in IdValues \cup {"0"}
           /\ k \in Scoped => Value(k) = job
           /\ k \in Device => Value(k) = "device"
<1>1. IdKeys \cap Scoped = {} /\ Device \cap (Scoped \cup IdKeys) = {}
  BY KeysAssumption DEF IdKeys, JobScoped
<1>2. job \in Jobs
  BY DEF TypeOK
<1>3. k \in IdKeys => Ids[job][k] \in IdValues
  BY <1>2 DEF IdValues
<1> QED
  BY <1>1, <1>3 DEF Value, Keys

(* What Merge does to the view: the keys a report mentions get its values, *)
(* every other key keeps its own or, of a job-scoped key, is forgotten.    *)
LEMMA MergeKeeps ==
    ASSUME NEW f, NEW section
    PROVE  /\ DOMAIN Merge(f, section)
                \subseteq DOMAIN f \cup DOMAIN section
           /\ DOMAIN section \subseteq DOMAIN Merge(f, section)
           /\ DOMAIN f \ JobScoped \subseteq DOMAIN Merge(f, section)
           /\ \A k \in DOMAIN section : Merge(f, section)[k] = section[k]
           /\ \A k \in DOMAIN Merge(f, section) \ DOMAIN section :
                 Merge(f, section)[k] = f[k]
           /\ Merge(f, section) =
                 [k \in DOMAIN Merge(f, section) |-> Merge(f, section)[k]]
<1> DEFINE kept == ForgetPreviousJob(f, section)
<1>1. /\ DOMAIN f \ JobScoped \subseteq DOMAIN kept
      /\ DOMAIN kept \subseteq DOMAIN f
      /\ \A k \in DOMAIN kept : kept[k] = f[k]
  BY DEF ForgetPreviousJob
<1> QED
  BY <1>1 DEF Merge

(* A report that names no other job than the view's keeps every key.       *)
LEMMA MergeOfSameJob ==
    ASSUME NEW f, NEW section, TaskID(section) \in {Absent, TaskID(f)}
    PROVE  DOMAIN Merge(f, section) = DOMAIN f \cup DOMAIN section
BY DEF Merge, ForgetPreviousJob

(* A report keeps the types and leaves the announced job's ids in the view.*)
LEMMA ReportHeard ==
    ASSUME HeardInv, NEW K \in SUBSET Keys, Report(K)
    PROVE  HeardInv'
<1> DEFINE section == [k \in K |-> Value(k)]
<1>1. /\ TypeOK /\ MayCarry(K) /\ fields' = Merge(fields, section)
      /\ announced' = (announced \/ ~zeroed)
      /\ blank' = (blank \/ TaskID(fields') = Absent)
      /\ UNCHANGED <<job, zeroed>>
  BY DEF Report, HeardInv
<1>2. /\ DOMAIN section = K
      /\ \A k \in K : section[k] = Value(k)
  OBVIOUS
<1>3. /\ DOMAIN fields' \subseteq DOMAIN fields \cup K
      /\ K \subseteq DOMAIN fields'
      /\ DOMAIN fields \ JobScoped \subseteq DOMAIN fields'
      /\ \A k \in K : fields'[k] = Value(k)
      /\ \A k \in DOMAIN fields' \ K : fields'[k] = fields[k]
      /\ fields' = [k \in DOMAIN fields' |-> fields'[k]]
  <2> HIDE DEF section
  <2> QED
    BY <1>1, <1>2, MergeKeeps
<1>4. TypeOK'
  <2>1. announced' \in BOOLEAN /\ blank' \in BOOLEAN
    BY <1>1, Zenon DEF TypeOK
  <2>2. DOMAIN fields' \subseteq Keys
    BY <1>1, <1>3 DEF TypeOK
  <2>3. ASSUME NEW k \in DOMAIN fields'
        PROVE  /\ k \in IdKeys => fields'[k] \in IdValues \cup {"0"}
               /\ k \in Scoped => fields'[k] \in Jobs
               /\ k \in Device => fields'[k] = "device"
    <3>1. CASE k \in K
      BY <1>1, <1>3, <3>1, ValueType DEF TypeOK
    <3>2. CASE k \notin K
      <4>1. k \in DOMAIN fields /\ fields'[k] = fields[k]
        BY <1>3, <3>2
      <4> QED
        BY <1>1, <4>1 DEF TypeOK
    <3> QED
      BY <3>1, <3>2
  <2> QED
    BY <1>1, <1>3, <2>1, <2>2, <2>3 DEF TypeOK
<1>5. Heard'
  <2> SUFFICES ASSUME ~zeroed, IdKeys \cap DOMAIN fields' # {}
               PROVE  /\ IdKeys \subseteq DOMAIN fields'
                      /\ \A k \in IdKeys : fields'[k] = Ids[job][k]
    BY <1>1 DEF Heard
  <2>1. CASE IdKeys \subseteq K
    BY <1>1, <1>3, <2>1, ValueType DEF Keys
  <2>2. CASE ~(IdKeys \subseteq K)
    <3>1. K \cap IdKeys = {} /\ announced
      BY <1>1, <2>2 DEF MayCarry
    <3>2. IdKeys \cap DOMAIN fields # {}
      BY <1>3, <3>1
    <3>3. IdKeys \subseteq DOMAIN fields /\ \A k \in IdKeys : fields[k] = Ids[job][k]
      BY <3>1, <3>2 DEF HeardInv, Heard
    <3>4. IdKeys \cap JobScoped = {}
      BY DEF IdKeys, JobScoped
    <3> QED
      BY <1>3, <3>1, <3>3, <3>4
  <2> QED
    BY <2>1, <2>2
<1> QED
  BY <1>4, <1>5 DEF HeardInv

(* The types and what the view knows of the job, from the first report on. *)
THEOREM HeardInvariant == Spec => []HeardInv
<1>1. Init => HeardInv
  BY DEF Init, HeardInv, TypeOK, Heard, Empty
<1>2. HeardInv /\ [Next]_vars => HeardInv'
  <2> SUFFICES ASSUME HeardInv, [Next]_vars PROVE HeardInv'
    OBVIOUS
  <2>1. ASSUME NEW j \in Jobs, StartJob(j) PROVE HeardInv'
    BY <2>1 DEF StartJob, HeardInv, TypeOK, Heard
  <2>2. ASSUME NEW K \in SUBSET Keys, Report(K) PROVE HeardInv'
    BY <2>2, ReportHeard
  <2>3. CASE Restart
    BY <2>3 DEF Restart, HeardInv, TypeOK, Heard, Empty
  <2>4. CASE ClearIds
    BY <2>4 DEF ClearIds, HeardInv, TypeOK, Heard
  <2>5. CASE UNCHANGED vars
    BY <2>5 DEF vars, HeardInv, TypeOK, Heard
  <2> QED
    BY <2>1, <2>2, <2>3, <2>4, <2>5 DEF Next
<1> QED
  BY <1>1, <1>2, PTL DEF Spec

(* The merged view is a map of typed values under the keys a report may    *)
(* carry.                                                                  *)
THEOREM TypeCorrect == Spec => []TypeOK
<1>1. HeardInv => TypeOK
  BY DEF HeardInv
<1> QED
  BY <1>1, HeardInvariant, PTL

(* A view with the announced job's ids takes its name from them.           *)
LEMMA HeardNames ==
    ASSUME HeardInv, announced, ~zeroed, IdKeys \cap DOMAIN fields # {}
    PROVE  TaskID(fields) = TaskID(Ids[job]) /\ TaskID(fields) \in NamesOf(job)
<1>1. IdKeys \subseteq DOMAIN fields /\ \A k \in IdKeys : fields[k] = Ids[job][k]
  BY DEF HeardInv, Heard
<1>2. job \in Jobs
  BY DEF HeardInv, TypeOK
<1>3. IdKeys \subseteq DOMAIN Ids[job]
  BY <1>2, JobsAssumption
<1>4. TaskID(fields) = TaskID(Ids[job])
  BY <1>1, <1>3, TaskIDAgrees
<1> QED
  BY <1>2, <1>4, TaskIDOfJob

(* The resume key exists for every kind of print, however the jobs name    *)
(* themselves (TaskID).                                                    *)
THEOREM ViewNamesTheJob == Spec => []KnowsItsJob
<1>1. HeardInv => KnowsItsJob
  BY HeardNames DEF KnowsItsJob
<1> QED
  BY <1>1, HeardInvariant, PTL

(* No delta loses a field it should keep (Merge, forgetPreviousJob).       *)
THEOREM DeltasKeepFields == Spec => KeepsFields
<1> DEFINE Kept ==
             fields' # Empty =>
               /\ DOMAIN fields \ JobScoped \subseteq DOMAIN fields'
               /\ job' = job /\ announced /\ TaskID(fields) \in NamesOf(job)
                     => DOMAIN fields \cap JobScoped \subseteq DOMAIN fields'
<1>1. HeardInv /\ [Next]_vars => [Kept]_vars
  <2> SUFFICES ASSUME HeardInv, Next PROVE Kept
    OBVIOUS
  <2>1. ASSUME NEW K \in SUBSET Keys, Report(K) PROVE Kept
    <3> DEFINE section == [k \in K |-> Value(k)]
    <3>1. fields' = Merge(fields, section) /\ MayCarry(K) /\ DOMAIN section = K
      BY <2>1 DEF Report
    <3>2. DOMAIN fields \ JobScoped \subseteq DOMAIN fields'
      <4> HIDE DEF section
      <4> QED
        BY <3>1, MergeKeeps
    <3>3. ASSUME announced, TaskID(fields) \in NamesOf(job)
          PROVE  TaskID(section) \in {Absent, TaskID(fields)}
      <4>1. TypeOK /\ job \in Jobs
        BY DEF HeardInv, TypeOK
      <4>2. IdKeys \cap DOMAIN fields # {}
        <5>1. TaskID(fields) # Absent
          BY <3>3 DEF NamesOf, Names
        <5> QED
          BY <5>1, TaskIDNone
      <4>3. CASE K \cap IdKeys = {}
        <5>1. TaskID(section) = Absent
          <6>1. IdKeys \cap DOMAIN section = {}
            BY <3>1, <4>3
          <6> HIDE DEF section
          <6> QED
            BY <6>1, TaskIDNone
        <5> QED
          BY <5>1
      <4>4. CASE IdKeys \subseteq K
        <5>1. \A k \in IdKeys : section[k] = IF zeroed THEN "0" ELSE Ids[job][k]
          BY <4>1, <4>4, ValueType
        <5>2. IdKeys \subseteq DOMAIN section
          BY <4>4
        <5> HIDE DEF section
        <5>3. CASE zeroed
          BY <5>1, <5>3, TaskIDZeroed
        <5>4. CASE ~zeroed
          <6>1. IdKeys \subseteq DOMAIN Ids[job]
            BY <4>1, JobsAssumption
          <6>2. TaskID(section) = TaskID(Ids[job])
            BY <5>1, <5>2, <5>4, <6>1, TaskIDAgrees
          <6> QED
            BY <3>3, <4>2, <5>4, <6>2, HeardNames
        <5> QED
          BY <5>3, <5>4
      <4> QED
        BY <3>1, <4>3, <4>4 DEF MayCarry
    <3>4. ASSUME announced, TaskID(fields) \in NamesOf(job)
          PROVE  DOMAIN fields \cap JobScoped \subseteq DOMAIN fields'
      <4>1. TaskID(section) \in {Absent, TaskID(fields)}
        BY <3>3, <3>4
      <4>2. DOMAIN Merge(fields, section) = DOMAIN fields \cup DOMAIN section
        <5> HIDE DEF section
        <5> QED
          BY <4>1, MergeOfSameJob
      <4> QED
        BY <3>1, <4>2
    <3> QED
      BY <3>2, <3>4
  <2>2. ASSUME NEW j \in Jobs, StartJob(j) PROVE Kept
    BY <2>2 DEF StartJob
  <2>3. CASE ClearIds
    BY <2>3 DEF ClearIds
  <2>4. CASE Restart
    BY <2>4 DEF Restart
  <2> QED
    BY <2>1, <2>2, <2>3, <2>4 DEF Next
<1> QED
  BY <1>1, HeardInvariant, PTL DEF Spec, KeepsFields
=============================================================================
