---------------------------- MODULE ContractProofs ----------------------------
(***************************************************************************)
(* Proofs about ContractLifecycle, for any number of contracts, documents  *)
(* and handlers, with or without chat, imports and faults; and, below,     *)
(* about MonthlyReport, for any workbook, any number of imports and        *)
(* requests, and any bounds.                                               *)
(***************************************************************************)
EXTENDS ContractLifecycle, MonthlyReport, FiniteSetTheorems, SequenceTheorems, TLAPS

-----------------------------------------------------------------------------
\* Facts about the operators.

LEMMA StatusesAre == Created \subseteq Statuses /\ LifecycleFor \subseteq Statuses
BY LifecycleAssumption DEF Statuses, Transitions, LifecycleFor

LEMMA IdleIs ==
    /\ Idle \in Request
    /\ Idle.op = "idle"
BY LifecycleAssumption DEF Idle, Request, Told

LEMMA TellingIs ==
    ASSUME NEW c \in Contracts, NEW status \in Statuses
    PROVE  /\ Telling(c, status) \in Request
           /\ Telling(c, status).op = "tell"
           /\ Telling(c, status).of = c
           /\ Telling(c, status).news = status
BY LifecycleAssumption DEF Telling, Idle, Request, Told

\* An entry more keeps the entries there are.
LEMMA LongerTrail ==
    ASSUME NEW trail \in Seq(Told), NEW entry \in Told
    PROVE  /\ Append(trail, entry) \in Seq(Told)
           /\ Range(trail) \subseteq Range(Append(trail, entry))
           /\ entry \in Range(Append(trail, entry))
<1> DEFINE longer == Append(trail, entry)
<1>1. /\ longer \in Seq(Told) /\ Len(longer) = Len(trail) + 1
      /\ \A i \in 1 .. Len(trail) : longer[i] = trail[i]
      /\ longer[Len(trail) + 1] = entry
    BY AppendProperties
<1>2. /\ DOMAIN trail = 1 .. Len(trail) /\ DOMAIN longer = 1 .. Len(longer)
      /\ Len(trail) \in Nat
    BY <1>1, LenProperties
<1> HIDE DEF longer
<1>3. Len(trail) + 1 \in DOMAIN longer /\ \A i \in DOMAIN trail : i \in DOMAIN longer
    BY <1>1, <1>2
<1> QED
    BY <1>1, <1>2, <1>3 DEF Range, longer

-----------------------------------------------------------------------------
\* The inductive invariant.

\* A version of the row of c, stored or held by a request, whose trail explains its
\* status unless an import has written the contract.
Sound(c, row) ==
    /\ row \in ContractRow
    /\ c \notin imported => row.trail # << >> /\ LegalTrail(row)

\* Of a contract on which no two writers overlapped: at most one request holds a copy,
\* the copy is the row, and the row has what users and the chat service gave it and,
\* in its trail, what other services were or are about to be told.
Undisturbed(c) ==
    c \notin overlapped =>
        /\ \A r \in Handlers : Writing(r, c) => contract[c] \in {handler[r].row, Gone}
        /\ \A r, q \in Handlers : Writing(r, c) /\ Writing(q, c) => r = q
        /\ Stored(c) =>
              /\ contract[c].docs = wanted[c]
              /\ c \notin imported => (contract[c].thread <=> c \in threads)
              /\ told[c] # "" => told[c] \in Range(contract[c].trail)
              /\ \A r \in Handlers :
                    handler[r].op = "tell" /\ handler[r].of = c =>
                        handler[r].news \in Range(contract[c].trail)

\* An id that was never used has left no trace.
Fresh(c) ==
    contract[c] = NoRow =>
        /\ told[c] = "" /\ wanted[c] = {} /\ c \notin threads
        /\ \A r \in Handlers : handler[r].of = c => handler[r].op = "idle"

Story(c) == Undisturbed(c) /\ Fresh(c)

RowsSound ==
    /\ \A c \in Contracts : Stored(c) => Sound(c, contract[c])
    /\ \A r \in Handlers : handler[r].op = "read" => Sound(handler[r].of, handler[r].row)

Inv == TypeOK /\ RowsSound /\ \A c \in Contracts : Story(c)

-----------------------------------------------------------------------------
\* What a step leaves alone stays sound: contracts it does not touch, with whatever
\* requests it ends or turns to other contracts.
LEMMA SoundStays ==
    ASSUME NEW c, NEW row, Sound(c, row), imported \subseteq imported'
    PROVE  Sound(c, row)'
BY DEF Sound, LegalTrail

LEMMA Elsewhere ==
    ASSUME NEW d \in Contracts, Story(d), handler \in [Handlers -> Request],
           contract'[d] = contract[d], told'[d] = told[d], wanted'[d] = wanted[d],
           d \in threads' <=> d \in threads,
           d \in imported => d \in imported',
           d \in overlapped => d \in overlapped',
           \A h \in Handlers : \/ handler'[h] = handler[h]
                               \/ handler'[h].op = "idle"
                               \/ handler'[h].of # d
    PROVE  Story(d)'
<1>1. Undisturbed(d)'
    BY DEF Story, Undisturbed, Writing, Stored
<1>2. Fresh(d)'
    BY DEF Story, Fresh
<1> QED
    BY <1>1, <1>2 DEF Story

\* The whole row is written back by a request that is done with it, or has only its
\* new status to tell.
LEMMA WriteStory ==
    ASSUME Inv, NEW r \in Handlers, NEW c \in Contracts, NEW mine \in ContractRow,
           Writing(r, c), Exists(c),
           contract'[c] = mine,
           handler[r].row.docs = wanted[c] => mine.docs = wanted'[c],
           Range(handler[r].row.trail) \subseteq Range(mine.trail),
           c \notin imported' => mine.thread = handler[r].row.thread,
           imported \subseteq imported',
           UNCHANGED <<told, threads, overlapped>>,
           \A h \in Handlers : h # r => handler'[h] = handler[h],
           \/ handler'[r].op = "idle"
           \/ handler'[r].op = "tell" /\ handler'[r].news \in Range(mine.trail)
    PROVE  Story(c)'
<1>1. Stored(c) /\ Story(c)
    BY DEF Inv, Exists, Stored
<1>2. Fresh(c)'
    BY NoRowAssumption DEF Fresh
<1>3. ASSUME c \notin overlapped
      PROVE  /\ contract[c] = handler[r].row
             /\ \A h \in Handlers : h # r => ~Writing(h, c)
    BY <1>1, <1>3 DEF Story, Undisturbed, Stored
<1>4. \A h \in Handlers : ~Writing(h, c)' \/ (h # r /\ Writing(h, c))
    BY DEF Writing
<1>5. ASSUME c \notin overlapped
      PROVE  /\ mine.docs = wanted'[c]
             /\ c \notin imported' => (mine.thread <=> c \in threads)
             /\ told[c] # "" => told[c] \in Range(mine.trail)
             /\ \A h \in Handlers :
                   handler'[h].op = "tell" /\ handler'[h].of = c =>
                       handler'[h].news \in Range(mine.trail)
    BY <1>1, <1>3, <1>5 DEF Story, Undisturbed
<1>6. Undisturbed(c)'
    <2>1. CASE c \in overlapped
        BY <2>1 DEF Undisturbed
    <2>2. CASE c \notin overlapped
        BY <1>3, <1>4, <1>5, <2>2 DEF Undisturbed, Stored
    <2> QED
        BY <2>1, <2>2
<1> QED
    BY <1>2, <1>6 DEF Story

LEMMA WriteInv ==
    ASSUME Inv, NEW r \in Handlers, NEW c \in Contracts, NEW mine \in ContractRow,
           NEW request \in Request,
           Writing(r, c), Exists(c),
           contract' = [contract EXCEPT ![c] = mine],
           handler' = [handler EXCEPT ![r] = request],
           \/ request.op = "idle"
           \/ /\ request.op = "tell" /\ request.of = c
              /\ request.news \in Range(mine.trail),
           wanted' \in [Contracts -> SUBSET Docs],
           \A d \in Contracts : d # c => wanted'[d] = wanted[d],
           handler[r].row.docs = wanted[c] => mine.docs = wanted'[c],
           Range(handler[r].row.trail) \subseteq Range(mine.trail),
           imported' = imported \/ imported' = imported \cup {c},
           c \notin imported' => mine.thread = handler[r].row.thread,
           c \notin imported' => mine.trail # << >> /\ LegalTrail(mine),
           UNCHANGED <<told, linking, threads, overlapped>>
    PROVE  Inv'
<1>1. /\ \A d \in Contracts : contract'[d] = IF d = c THEN mine ELSE contract[d]
      /\ \A h \in Handlers : handler'[h] = IF h = r THEN request ELSE handler[h]
    BY DEF Inv, TypeOK
<1>2. TypeOK'
    <2>1. /\ contract' \in [Contracts -> ContractRow \cup {NoRow, Gone}]
          /\ handler' \in [Handlers -> Request]
          /\ imported' \subseteq Contracts
        BY DEF Inv, TypeOK
    <2>2. \A h \in Handlers : handler'[h].op = "read" => handler'[h].row # NoRow
        BY <1>1 DEF Inv, TypeOK
    <2> QED
        BY <2>1, <2>2 DEF Inv, TypeOK
<1>3. imported \subseteq imported'
    OBVIOUS
<1>4. RowsSound'
    <2>1. Sound(c, mine)'
        BY DEF Sound, LegalTrail
    <2>2. ASSUME NEW d \in Contracts, Stored(d)'
          PROVE  Sound(d, contract[d])'
        <3>1. CASE d = c
            BY <1>1, <2>1, <3>1 DEF Sound, LegalTrail
        <3>2. CASE d # c
            <4>1. Sound(d, contract[d])
                BY <1>1, <2>2, <3>2 DEF Inv, RowsSound, Stored
            <4> QED
                BY <1>1, <1>3, <3>2, <4>1 DEF Sound, LegalTrail
        <3> QED
            BY <3>1, <3>2
    <2>3. ASSUME NEW h \in Handlers, handler'[h].op = "read"
          PROVE  Sound(handler[h].of, handler[h].row)'
        <3>1. handler'[h] = handler[h] /\ Sound(handler[h].of, handler[h].row)
            BY <1>1, <2>3 DEF Inv, RowsSound
        <3> QED
            BY <1>3, <3>1 DEF Sound, LegalTrail
    <2> QED
        BY <2>2, <2>3 DEF RowsSound
<1>5. Story(c)'
    <2>1. contract'[c] = mine /\ handler'[r] = request
          /\ \A h \in Handlers : h # r => handler'[h] = handler[h]
        BY <1>1
    <2> QED
        BY <1>3, <2>1, WriteStory
<1>6. ASSUME NEW d \in Contracts, d # c
      PROVE  Story(d)'
    <2>1. \A h \in Handlers : \/ handler'[h] = handler[h]
                              \/ handler'[h].op = "idle"
                              \/ handler'[h].of # d
        BY <1>1, <1>6
    <2> QED
        BY <1>1, <1>3, <1>6, <2>1, Elsewhere DEF Inv, TypeOK
<1> QED
    BY <1>2, <1>4, <1>5, <1>6 DEF Inv

\* What the requests that write have read.
LEMMA Held ==
    ASSUME Inv, NEW r \in Handlers, handler[r].op = "read"
    PROVE  /\ handler[r].of \in Contracts
           /\ Writing(r, handler[r].of)
           /\ Sound(handler[r].of, handler[r].row)
           /\ handler[r].row \in ContractRow
BY DEF Inv, TypeOK, RowsSound, Request, Writing, Sound

\* A request that writes its copy back with other documents, or the same.
LEMMA DocsInv ==
    ASSUME Inv, NEW r \in Handlers, handler[r].op = "read", NEW docs \in SUBSET Docs,
           Write(r, handler[r].of, [handler[r].row EXCEPT !.docs = docs]), End(r),
           NEW given \in SUBSET Docs,
           wanted' = [wanted EXCEPT ![handler[r].of] = given],
           handler[r].row.docs = wanted[handler[r].of] => docs = given,
           UNCHANGED <<told, linking, threads, imported, overlapped>>
    PROVE  Inv'
<1> DEFINE c == handler[r].of
           row == handler[r].row
           mine == [row EXCEPT !.docs = docs]
<1>1. c \in Contracts /\ Writing(r, c) /\ Sound(c, row) /\ row \in ContractRow
    BY Held
<1>2. /\ mine \in ContractRow
      /\ mine.docs = docs /\ mine.trail = row.trail /\ mine.thread = row.thread
      /\ mine.status = row.status
    BY <1>1 DEF ContractRow
<1>3. Exists(c) /\ contract' = [contract EXCEPT ![c] = mine]
    BY DEF Write, UpdateContract
<1>4. c \notin imported' => mine.trail # << >> /\ LegalTrail(mine)
    BY <1>1, <1>2 DEF Sound, LegalTrail
<1>5. /\ wanted' \in [Contracts -> SUBSET Docs] /\ wanted'[c] = given
      /\ \A d \in Contracts : d # c => wanted'[d] = wanted[d]
    BY <1>1 DEF Inv, TypeOK
<1> HIDE DEF mine
<1>6. Idle \in Request /\ Idle.op = "idle" /\ handler' = [handler EXCEPT ![r] = Idle]
    BY IdleIs DEF End
<1> QED
    BY <1>1, <1>2, <1>3, <1>4, <1>5, <1>6, WriteInv

-----------------------------------------------------------------------------
\* The steps.
LEMMA InitInv == Init => Inv
<1> SUFFICES ASSUME Init PROVE Inv
    OBVIOUS
<1>1. TypeOK
    BY IdleIs DEF Init, TypeOK, Told
<1>2. RowsSound
    BY IdleIs DEF Init, RowsSound, Stored
<1>3. ASSUME NEW c \in Contracts
      PROVE  Story(c)
    BY <1>3, IdleIs DEF Init, Story, Undisturbed, Fresh, Stored, Writing
<1> QED
    BY <1>1, <1>2, <1>3 DEF Inv

LEMMA PatchInv ==
    ASSUME Inv, NEW r \in Handlers, PatchContract(r)
    PROVE  Inv'
<1> DEFINE c == handler[r].of
           row == handler[r].row
<1>1. c \in Contracts /\ row \in ContractRow
    BY Held DEF PatchContract
<1>2. CASE Write(r, c, row) /\ UNCHANGED wanted
    <2>1. PICK docs \in SUBSET Docs, given \in SUBSET Docs :
              docs = row.docs /\ given = wanted[c]
        BY <1>1 DEF ContractRow, Inv, TypeOK
    <2>2. Write(r, c, [row EXCEPT !.docs = docs])
        <3>1. row = [row EXCEPT !.docs = docs]
            BY <1>1, <2>1 DEF ContractRow
        <3> QED
            BY <1>2, <3>1
    <2>3. wanted' = [wanted EXCEPT ![c] = given]
        BY <1>1, <1>2, <2>1 DEF Inv, TypeOK
    <2>4. row.docs = wanted[c] => docs = given
        BY <2>1
    <2> QED
        BY <2>2, <2>3, <2>4, DocsInv DEF PatchContract
<1>3. CASE \E docs \in SUBSET Docs :
              /\ Write(r, c, [row EXCEPT !.docs = docs])
              /\ wanted' = [wanted EXCEPT ![c] = docs]
    BY <1>3, DocsInv DEF PatchContract
<1> QED
    BY <1>2, <1>3 DEF PatchContract

LEMMA AddDocInv ==
    ASSUME Inv, NEW r \in Handlers, AddContractDoc(r)
    PROVE  Inv'
<1> DEFINE c == handler[r].of
           row == handler[r].row
<1>1. c \in Contracts /\ row \in ContractRow /\ wanted[c] \in SUBSET Docs
    BY Held DEF AddContractDoc, Inv, TypeOK
<1>2. PICK d \in Docs :
          /\ Write(r, c, [row EXCEPT !.docs = @ \cup {d}])
          /\ wanted' = [wanted EXCEPT ![c] = @ \cup {d}]
    BY DEF AddContractDoc
<1>3. row.docs \cup {d} \in SUBSET Docs /\ wanted[c] \cup {d} \in SUBSET Docs
    BY <1>1 DEF ContractRow
<1>4. /\ Write(r, c, [row EXCEPT !.docs = row.docs \cup {d}])
      /\ wanted' = [wanted EXCEPT ![c] = wanted[c] \cup {d}]
    BY <1>1, <1>2 DEF ContractRow, Inv, TypeOK
<1>5. PICK docs \in SUBSET Docs, given \in SUBSET Docs :
          docs = row.docs \cup {d} /\ given = wanted[c] \cup {d}
    BY <1>3
<1>6. row.docs = wanted[c] => docs = given
    BY <1>5
<1>7. /\ Write(r, c, [row EXCEPT !.docs = docs])
      /\ wanted' = [wanted EXCEPT ![c] = given]
    BY <1>4, <1>5
<1>8. /\ handler[r].op = "read" /\ End(r)
      /\ UNCHANGED <<told, linking, threads, imported, overlapped>>
    BY DEF AddContractDoc
<1> QED
    BY <1>6, <1>7, <1>8, DocsInv

LEMMA DeleteDocInv ==
    ASSUME Inv, NEW r \in Handlers, DeleteContractDoc(r)
    PROVE  Inv'
<1> DEFINE c == handler[r].of
           row == handler[r].row
<1>1. c \in Contracts /\ row \in ContractRow /\ wanted[c] \in SUBSET Docs
    BY Held DEF DeleteContractDoc, Inv, TypeOK
<1>2. PICK d \in Docs :
          /\ Write(r, c, [row EXCEPT !.docs = @ \ {d}])
          /\ wanted' = [wanted EXCEPT ![c] = @ \ {d}]
    BY DEF DeleteContractDoc
<1>3. row.docs \ {d} \in SUBSET Docs /\ wanted[c] \ {d} \in SUBSET Docs
    BY <1>1 DEF ContractRow
<1>4. /\ Write(r, c, [row EXCEPT !.docs = row.docs \ {d}])
      /\ wanted' = [wanted EXCEPT ![c] = wanted[c] \ {d}]
    BY <1>1, <1>2 DEF ContractRow, Inv, TypeOK
<1>5. PICK docs \in SUBSET Docs, given \in SUBSET Docs :
          docs = row.docs \ {d} /\ given = wanted[c] \ {d}
    BY <1>3
<1>6. row.docs = wanted[c] => docs = given
    BY <1>5
<1>7. /\ Write(r, c, [row EXCEPT !.docs = docs])
      /\ wanted' = [wanted EXCEPT ![c] = given]
    BY <1>4, <1>5
<1>8. /\ handler[r].op = "read" /\ End(r)
      /\ UNCHANGED <<told, linking, threads, imported, overlapped>>
    BY DEF DeleteContractDoc
<1> QED
    BY <1>6, <1>7, <1>8, DocsInv

\* The entry of an allowed move makes a legal trail longer by one.
LEMMA LegalEntry ==
    ASSUME NEW row \in ContractRow, row.trail # << >>, LegalTrail(row),
           NEW next \in Transitions[row.status], next \in Statuses,
           NEW mine \in ContractRow,
           mine.status = next, mine.trail = Append(row.trail, next)
    PROVE  mine.trail # << >> /\ LegalTrail(mine)
<1> DEFINE trail == row.trail
           longer == mine.trail
<1>1. trail \in Seq(Told) /\ next \in Told
    BY DEF ContractRow, Told
<1>2. Len(trail) \in Nat \ {0}
    BY <1>1, EmptySeq
<1>3. /\ longer # << >> /\ Len(longer) = Len(trail) + 1
      /\ \A i \in 1 .. Len(trail) : longer[i] = trail[i]
      /\ longer[Len(trail) + 1] = next
    BY <1>1, AppendProperties
<1>4. /\ trail[Len(trail)] = row.status
      /\ \A i \in 1 .. Len(trail) - 1 : trail[i + 1] \in Transitions[trail[i]]
    BY DEF LegalTrail
<1> HIDE DEF trail, longer
<1>5. ASSUME NEW i \in 1 .. Len(longer) - 1
      PROVE  longer[i + 1] \in Transitions[longer[i]]
    <2>1. CASE i = Len(trail)
        BY <1>2, <1>3, <1>4, <2>1
    <2>2. CASE i # Len(trail)
        <3>1. i \in 1 .. Len(trail) - 1 /\ i \in 1 .. Len(trail) /\ i + 1 \in 1 .. Len(trail)
            BY <1>2, <1>3, <2>2
        <3> QED
            BY <1>3, <1>4, <3>1
    <2> QED
        BY <2>1, <2>2
<1> QED
    BY <1>3, <1>5 DEF LegalTrail, longer

LEMMA ChangeStatusInv ==
    ASSUME Inv, NEW r \in Handlers, ChangeStatus(r)
    PROVE  Inv'
<1> DEFINE c == handler[r].of
           row == handler[r].row
<1>1. c \in Contracts /\ Writing(r, c) /\ Sound(c, row) /\ row \in ContractRow
    BY Held DEF ChangeStatus
<1>2. PICK next \in Statuses :
          /\ next # row.status
          /\ CanTransitionTo(row.status, next)
          /\ Write(r, c, [row EXCEPT !.status = next, !.trail = TrailEntry(row, next)])
          /\ handler' = [handler EXCEPT ![r] = Telling(c, next)]
    BY DEF ChangeStatus
<1> DEFINE mine == [row EXCEPT !.status = next, !.trail = TrailEntry(row, next)]
           request == Telling(c, next)
<1>3. /\ request \in Request /\ request.op = "tell" /\ request.of = c /\ request.news = next
    BY <1>1, TellingIs
<1>4. row.trail \in Seq(Told) /\ next \in Told
    BY <1>1 DEF ContractRow, Told
<1>5. TrailEntry(row, next) \in Seq(Told)
    BY <1>4, LongerTrail DEF TrailEntry
<1>6. /\ mine \in ContractRow
      /\ mine.docs = row.docs /\ mine.thread = row.thread
      /\ mine.status = next /\ mine.trail = Append(row.trail, next)
    BY <1>1, <1>5 DEF ContractRow, TrailEntry
<1>7. Exists(c) /\ contract' = [contract EXCEPT ![c] = mine]
    BY <1>2 DEF Write, UpdateContract
<1> HIDE DEF mine, request
<1>8. c \notin imported' => mine.trail # << >> /\ LegalTrail(mine)
    <2>1. next \in Transitions[row.status]
        BY <1>2 DEF CanTransitionTo
    <2>2. imported' = imported
        BY DEF ChangeStatus
    <2> QED
        BY <1>1, <1>6, <2>1, <2>2, LegalEntry DEF Sound
<1>9. Range(row.trail) \subseteq Range(mine.trail) /\ request.news \in Range(mine.trail)
    BY <1>3, <1>4, <1>6, LongerTrail
<1>10. UNCHANGED <<told, linking, wanted, threads, imported, overlapped>>
    BY DEF ChangeStatus
<1>11. handler' = [handler EXCEPT ![r] = request]
    BY <1>2 DEF request
<1>12. wanted' \in [Contracts -> SUBSET Docs]
    BY <1>10 DEF Inv, TypeOK
<1> QED
    BY <1>1, <1>3, <1>6, <1>7, <1>8, <1>9, <1>10, <1>11, <1>12, WriteInv

LEMMA ImportOverInv ==
    ASSUME Inv, NEW r \in Handlers, ImportOver(r)
    PROVE  Inv'
<1> DEFINE c == handler[r].of
           row == handler[r].row
<1>1. c \in Contracts /\ Writing(r, c) /\ row \in ContractRow
    BY Held DEF ImportOver
<1>2. PICK status \in LifecycleFor :
          Write(r, c, [row EXCEPT !.status = status, !.thread = FALSE])
    BY DEF ImportOver
<1> DEFINE mine == [row EXCEPT !.status = status, !.thread = FALSE]
<1>3. /\ mine \in ContractRow
      /\ mine.docs = row.docs /\ mine.trail = row.trail
    BY <1>1, StatusesAre DEF ContractRow
<1>4. Exists(c) /\ contract' = [contract EXCEPT ![c] = mine]
    BY <1>2 DEF Write, UpdateContract
<1> HIDE DEF mine
<1>5. UNCHANGED <<told, linking, wanted, threads, overlapped>> /\ imported' = imported \cup {c}
    BY DEF ImportOver
<1>6. Idle \in Request /\ Idle.op = "idle" /\ handler' = [handler EXCEPT ![r] = Idle]
    BY IdleIs DEF ImportOver, End
<1>7. wanted' \in [Contracts -> SUBSET Docs]
    BY <1>5 DEF Inv, TypeOK
<1> QED
    BY <1>1, <1>3, <1>4, <1>5, <1>6, <1>7, WriteInv

\* The rows stay sound when each is as before, gone, or a sound one, and each request
\* holds what it held, a stored row, or nothing.
LEMMA RowsStep ==
    ASSUME Inv, imported \subseteq imported',
           \A c \in Contracts : \/ contract'[c] = contract[c]
                                \/ contract'[c] = Gone
                                \/ Sound(c, contract[c])',
           \A r \in Handlers : \/ handler'[r] = handler[r]
                               \/ handler'[r].op # "read"
                               \/ /\ Stored(handler'[r].of) /\ handler'[r].of \in Contracts
                                  /\ handler'[r].row = contract[handler'[r].of]
    PROVE  RowsSound'
<1>1. ASSUME NEW c \in Contracts, Stored(c)'
      PROVE  Sound(c, contract[c])'
    <2>1. CASE contract'[c] = contract[c]
        <3>1. Sound(c, contract[c])
            BY <1>1, <2>1 DEF Inv, RowsSound, Stored
        <3> QED
            BY <2>1, <3>1 DEF Sound, LegalTrail
    <2> QED
        BY <1>1, <2>1 DEF Stored
<1>2. ASSUME NEW r \in Handlers, handler'[r].op = "read"
      PROVE  Sound(handler[r].of, handler[r].row)'
    <2>1. CASE handler'[r] = handler[r]
        <3>1. Sound(handler[r].of, handler[r].row)
            BY <1>2, <2>1 DEF Inv, RowsSound
        <3> QED
            BY <2>1, <3>1 DEF Sound, LegalTrail
    <2>2. CASE /\ Stored(handler'[r].of) /\ handler'[r].of \in Contracts
               /\ handler'[r].row = contract[handler'[r].of]
        <3>1. Sound(handler'[r].of, contract[handler'[r].of])
            BY <2>2 DEF Inv, RowsSound
        <3> QED
            BY <2>2, <3>1 DEF Sound, LegalTrail
    <2> QED
        BY <1>2, <2>1, <2>2
<1> QED
    BY <1>1, <1>2 DEF RowsSound

\* A request ends or turns to something else without having written.
LEMMA HandlerType ==
    ASSUME Inv, NEW r \in Handlers, NEW request \in Request,
           handler' = [handler EXCEPT ![r] = request],
           request.op = "read" => request.row # NoRow
    PROVE  /\ handler' \in [Handlers -> Request]
           /\ \A h \in Handlers : handler'[h] = IF h = r THEN request ELSE handler[h]
           /\ \A h \in Handlers : handler'[h].op = "read" => handler'[h].row # NoRow
BY DEF Inv, TypeOK

LEMMA EndInv ==
    ASSUME Inv, NEW r \in Handlers, End(r),
           UNCHANGED <<contract, told, linking, wanted, threads, imported, overlapped>>
    PROVE  Inv'
<1>1. Idle \in Request /\ Idle.op = "idle" /\ handler' = [handler EXCEPT ![r] = Idle]
    BY IdleIs DEF End
<1>2. /\ handler' \in [Handlers -> Request]
      /\ \A h \in Handlers : handler'[h] = IF h = r THEN Idle ELSE handler[h]
      /\ \A h \in Handlers : handler'[h].op = "read" => handler'[h].row # NoRow
    BY <1>1, HandlerType
<1>3. TypeOK'
    BY <1>2 DEF Inv, TypeOK
<1>4. RowsSound'
    <2>1. \A h \in Handlers : handler'[h] = handler[h] \/ handler'[h].op # "read"
        BY <1>1, <1>2
    <2> QED
        BY <2>1, RowsStep
<1>5. ASSUME NEW c \in Contracts
      PROVE  Story(c)'
    <2>1. \A h \in Handlers : handler'[h] = handler[h] \/ handler'[h].op = "idle"
        BY <1>1, <1>2
    <2> QED
        BY <2>1, Elsewhere DEF Inv, TypeOK
<1> QED
    BY <1>3, <1>4, <1>5 DEF Inv

LEMMA PublishInv ==
    ASSUME Inv, NEW r \in Handlers, PublishStatus(r)
    PROVE  Inv'
<1>1. PICK c \in Contracts, news \in Told : c = handler[r].of /\ news = handler[r].news
    BY DEF Inv, TypeOK, Request
<1>2. UNCHANGED <<contract, linking, wanted, threads, imported, overlapped>>
    BY DEF PublishStatus
<1>3. Idle \in Request /\ Idle.op = "idle" /\ handler' = [handler EXCEPT ![r] = Idle]
    BY IdleIs DEF PublishStatus, End
<1>4. /\ handler' \in [Handlers -> Request]
      /\ \A h \in Handlers : handler'[h] = IF h = r THEN Idle ELSE handler[h]
      /\ \A h \in Handlers : handler'[h].op = "read" => handler'[h].row # NoRow
    BY <1>3, HandlerType
<1>5. /\ told' \in [Contracts -> Told]
      /\ \A d \in Contracts : d # c => told'[d] = told[d]
      /\ told'[c] \in {told[c], news}
    BY <1>1 DEF PublishStatus, Inv, TypeOK
<1>6. TypeOK'
    BY <1>2, <1>4, <1>5 DEF Inv, TypeOK
<1>7. \A h \in Handlers : handler'[h] = handler[h] \/ handler'[h].op = "idle"
    BY <1>3, <1>4
<1>8. RowsSound'
    <2>1. \A h \in Handlers : handler'[h] = handler[h] \/ handler'[h].op # "read"
        BY <1>7
    <2> QED
        BY <1>2, <2>1, RowsStep
<1>9. Story(c)'
    <2>1. Story(c)
        BY <1>1 DEF Inv
    <2>2. contract[c] # NoRow
        BY <1>1, <2>1 DEF PublishStatus, Story, Fresh
    <2>3. ASSUME c \notin overlapped, Stored(c)
          PROVE  told'[c] # "" => told'[c] \in Range(contract[c].trail)
        BY <1>1, <1>5, <2>1, <2>3 DEF PublishStatus, Story, Undisturbed
    <2> QED
        BY <1>2, <1>7, <2>1, <2>2, <2>3 DEF Story, Undisturbed, Fresh, Stored, Writing
<1>10. ASSUME NEW d \in Contracts, d # c
      PROVE  Story(d)'
    BY <1>2, <1>5, <1>7, <1>10, Elsewhere DEF Inv, TypeOK
<1> QED
    BY <1>6, <1>8, <1>9, <1>10 DEF Inv

LEMMA GetInv ==
    ASSUME Inv, NEW r \in Handlers, NEW c \in Contracts, GetContract(r, c)
    PROVE  Inv'
<1> DEFINE request == [handler[r] EXCEPT !.op = "read", !.of = c, !.row = contract[c]]
<1>1. Stored(c) /\ contract[c] \in ContractRow /\ contract[c] # NoRow
    BY DEF GetContract, Exists, Stored, Inv, TypeOK
<1>2. /\ request \in Request
      /\ request.op = "read" /\ request.of = c /\ request.row = contract[c]
    BY <1>1 DEF Inv, TypeOK, Request
<1>3. handler' = [handler EXCEPT ![r] = request]
    BY DEF GetContract, Inv, TypeOK
<1> HIDE DEF request
<1>4. /\ handler' \in [Handlers -> Request]
      /\ \A h \in Handlers : handler'[h] = IF h = r THEN request ELSE handler[h]
      /\ \A h \in Handlers : handler'[h].op = "read" => handler'[h].row # NoRow
    BY <1>1, <1>2, <1>3, HandlerType
<1>5. /\ UNCHANGED <<contract, told, linking, wanted, threads, imported>>
      /\ overlapped' = IF \E q \in Handlers : Writing(q, c) THEN overlapped \cup {c} ELSE overlapped
    BY DEF GetContract
<1>6. TypeOK'
    BY <1>4, <1>5 DEF Inv, TypeOK
<1>7. RowsSound'
    BY <1>1, <1>2, <1>4, <1>5, RowsStep
<1>8. Story(c)'
    <2>1. Story(c)
        BY DEF Inv
    <2>2. CASE \E q \in Handlers : Writing(q, c)
        BY <1>1, <1>5, <2>2 DEF Story, Undisturbed, Fresh, Stored
    <2>3. CASE ~ \E q \in Handlers : Writing(q, c)
        <3>1. overlapped' = overlapped /\ \A q \in Handlers : Writing(q, c)' => q = r
            BY <1>4, <1>5, <2>3 DEF Writing
        <3>2. \A h \in Handlers :
                 handler'[h].op = "tell" => handler'[h] = handler[h]
            BY <1>2, <1>4
        <3> QED
            BY <1>1, <1>2, <1>4, <1>5, <2>1, <3>1, <3>2
               DEF Story, Undisturbed, Fresh, Stored
    <2> QED
        BY <2>2, <2>3
<1>9. ASSUME NEW d \in Contracts, d # c
      PROVE  Story(d)'
    <2>1. \A h \in Handlers : handler'[h] = handler[h] \/ handler'[h].of # d
        BY <1>2, <1>4, <1>9
    <2> QED
        BY <1>5, <2>1, Elsewhere DEF Inv, TypeOK
<1> QED
    BY <1>6, <1>7, <1>8, <1>9 DEF Inv

\* A row comes into being, with one entry in its trail, and at most a request that will
\* tell of that entry.
LEMMA NewInv ==
    ASSUME Inv, NEW c \in Contracts, contract[c] = NoRow,
           NEW status \in Statuses, NEW entry \in Told, NEW docs \in SUBSET Docs,
           contract' = [contract EXCEPT ![c] =
               [status |-> status, trail |-> <<entry>>, docs |-> docs, thread |-> FALSE]],
           wanted' = [wanted EXCEPT ![c] = docs],
           handler' \in [Handlers -> Request],
           \A h \in Handlers :
               \/ handler'[h] = handler[h]
               \/ /\ handler'[h].op = "tell" /\ handler'[h].of = c
                  /\ handler'[h].news = entry,
           linking' \subseteq Contracts,
           imported' = imported \/ imported' = imported \cup {c},
           c \notin imported' => entry = status,
           UNCHANGED <<told, threads, overlapped>>
    PROVE  Inv'
<1> DEFINE new == [status |-> status, trail |-> <<entry>>, docs |-> docs, thread |-> FALSE]
<1>1. /\ new \in ContractRow
      /\ new.status = status /\ new.trail = <<entry>> /\ new.docs = docs /\ ~new.thread
    <2>1. <<entry>> \in Seq(Told)
        OBVIOUS
    <2> QED
        BY <2>1 DEF ContractRow
<1>2. contract' = [contract EXCEPT ![c] = new]
    OBVIOUS
<1> HIDE DEF new
<1>3. /\ \A d \in Contracts : contract'[d] = IF d = c THEN new ELSE contract[d]
      /\ \A d \in Contracts : wanted'[d] = IF d = c THEN docs ELSE wanted[d]
    BY <1>2 DEF Inv, TypeOK
<1>4. TypeOK'
    <2>1. contract' \in [Contracts -> ContractRow \cup {NoRow, Gone}]
        <3>1. contract \in [Contracts -> ContractRow \cup {NoRow, Gone}]
            BY DEF Inv, TypeOK
        <3> QED
            BY <1>1, <1>2, <3>1
    <2>3. wanted' \in [Contracts -> SUBSET Docs]
        BY DEF Inv, TypeOK
    <2>2. \A h \in Handlers : handler'[h].op = "read" => handler'[h].row # NoRow
        BY DEF Inv, TypeOK
    <2> QED
        BY <2>1, <2>2, <2>3 DEF Inv, TypeOK
<1>5. Sound(c, new)'
    <2>1. <<entry>> # << >> /\ Len(<<entry>>) = 1 /\ <<entry>>[1] = entry
        OBVIOUS
    <2> QED
        BY <1>1, <2>1 DEF Sound, LegalTrail
<1>6. RowsSound'
    <2>1. Sound(c, contract[c])'
        BY <1>3, <1>5 DEF Sound, LegalTrail
    <2>2. \A d \in Contracts : \/ contract'[d] = contract[d]
                               \/ contract'[d] = Gone
                               \/ Sound(d, contract[d])'
        BY <1>3, <2>1
    <2>3. \A h \in Handlers : handler'[h] = handler[h] \/ handler'[h].op # "read"
        OBVIOUS
    <2>4. imported \subseteq imported'
        OBVIOUS
    <2> QED
        BY <2>2, <2>3, <2>4, RowsStep
<1>7. Story(c)'
    <2>1. /\ told[c] = "" /\ c \notin threads
          /\ \A h \in Handlers : handler[h].of = c => handler[h].op = "idle"
        BY DEF Inv, Story, Fresh
    <2>2. contract'[c] = new /\ new # NoRow /\ wanted'[c] = docs
        BY <1>1, <1>3, NoRowAssumption
    <2>3. \A h \in Handlers : ~Writing(h, c)'
        BY <2>1 DEF Writing
    <2>4. entry \in Range(new.trail)
        BY <1>1 DEF Range
    <2>5. \A h \in Handlers :
             handler'[h].op = "tell" /\ handler'[h].of = c =>
                 handler'[h].news \in Range(new.trail)
        BY <2>1, <2>4
    <2>6. Undisturbed(c)'
        BY <1>1, <2>1, <2>2, <2>3, <2>5 DEF Undisturbed
    <2>7. Fresh(c)'
        BY <2>2 DEF Fresh
    <2> QED
        BY <2>6, <2>7 DEF Story
<1>8. ASSUME NEW d \in Contracts, d # c
      PROVE  Story(d)'
    <2>1. \A h \in Handlers : handler'[h] = handler[h] \/ handler'[h].of # d
        BY <1>8
    <2> QED
        BY <1>3, <1>8, <2>1, Elsewhere DEF Inv, TypeOK
<1> QED
    BY <1>4, <1>6, <1>7, <1>8 DEF Inv

LEMMA CreateInv ==
    ASSUME Inv, NEW r \in Handlers, NEW c \in Contracts, CreateContract(r, c)
    PROVE  Inv'
<1>1. PICK status \in Created, docs \in SUBSET Docs :
          /\ contract' = [contract EXCEPT ![c] =
                 [status |-> status, trail |-> <<status>>, docs |-> docs, thread |-> FALSE]]
          /\ wanted' = [wanted EXCEPT ![c] = docs]
          /\ handler' = [handler EXCEPT ![r] = Telling(c, status)]
    BY DEF CreateContract
<1>2. status \in Statuses /\ \E entry \in Told : entry = status
    BY StatusesAre DEF Told
<1> PICK entry \in Told : entry = status
    BY <1>2
<1>3. PICK request \in Request :
          /\ handler' = [handler EXCEPT ![r] = request]
          /\ request.op = "tell" /\ request.of = c /\ request.news = entry
    <2>1. Telling(c, status) \in Request /\ Telling(c, status).op = "tell"
          /\ Telling(c, status).of = c /\ Telling(c, status).news = entry
        BY <1>2, TellingIs
    <2> QED
        BY <1>1, <2>1
<1>4. /\ handler' \in [Handlers -> Request]
      /\ \A h \in Handlers : handler'[h] = IF h = r THEN request ELSE handler[h]
    BY <1>3, HandlerType
<1>5. /\ contract[c] = NoRow /\ linking' \subseteq Contracts
      /\ UNCHANGED <<told, threads, imported, overlapped>>
    BY DEF CreateContract, Inv, TypeOK
<1>6. \A h \in Handlers :
          \/ handler'[h] = handler[h]
          \/ handler'[h].op = "tell" /\ handler'[h].of = c /\ handler'[h].news = entry
    BY <1>3, <1>4
<1>7. contract' = [contract EXCEPT ![c] =
          [status |-> status, trail |-> <<entry>>, docs |-> docs, thread |-> FALSE]]
    BY <1>1
<1>8. wanted' = [wanted EXCEPT ![c] = docs]
    BY <1>1
<1>9. handler' \in [Handlers -> Request]
    BY <1>4
<1>10. /\ contract[c] = NoRow /\ linking' \subseteq Contracts
       /\ imported' = imported \/ imported' = imported \cup {c}
       /\ c \notin imported' => entry = status
       /\ UNCHANGED <<told, threads, overlapped>>
    BY <1>2, <1>5
<1>11. status \in Statuses /\ entry \in Told
    BY <1>2
<1> QED
    BY <1>6, <1>7, <1>8, <1>9, <1>10, <1>11, NewInv

LEMMA ImportNewInv ==
    ASSUME Inv, NEW r \in Handlers, NEW c \in Contracts, ImportContract(r, c)
    PROVE  Inv'
<1>1. PICK status \in LifecycleFor :
          contract' = [contract EXCEPT ![c] =
              [status |-> status, trail |-> <<"">>, docs |-> {}, thread |-> FALSE]]
    BY DEF ImportContract
<1>2. PICK entry \in Told, docs \in SUBSET Docs : entry = "" /\ docs = {}
    BY DEF Told
<1>3. status \in Statuses
    BY StatusesAre
<1>4. /\ contract[c] = NoRow /\ imported' = imported \cup {c}
      /\ UNCHANGED <<told, linking, handler, wanted, threads, overlapped>>
    BY DEF ImportContract
<1>5. wanted' = [wanted EXCEPT ![c] = docs]
    <2>1. wanted[c] = docs
        BY <1>2, <1>4 DEF Inv, Story, Fresh
    <2> QED
        BY <1>4, <2>1 DEF Inv, TypeOK
<1>6. contract' = [contract EXCEPT ![c] =
              [status |-> status, trail |-> <<entry>>, docs |-> docs, thread |-> FALSE]]
    BY <1>1, <1>2
<1>7. handler' \in [Handlers -> Request] /\ linking' \subseteq Contracts
    BY <1>4 DEF Inv, TypeOK
<1> QED
    BY <1>3, <1>4, <1>5, <1>6, <1>7, NewInv

\* The thread of a stored contract is recorded.
LEMMA LinkInv ==
    ASSUME Inv, NEW c \in Contracts, Exists(c),
           contract' = [contract EXCEPT ![c].thread = TRUE],
           linking' \subseteq Contracts,
           threads' = threads \cup {c},
           overlapped' = IF \E q \in Handlers : Writing(q, c)
                         THEN overlapped \cup {c} ELSE overlapped,
           UNCHANGED <<told, handler, wanted, imported>>
    PROVE  Inv'
<1>1. PICK row \in ContractRow : row = contract[c]
    BY DEF Exists, Inv, TypeOK
<1> DEFINE new == [row EXCEPT !.thread = TRUE]
<1>2. /\ new \in ContractRow /\ new.thread
      /\ new.status = row.status /\ new.trail = row.trail /\ new.docs = row.docs
    BY DEF ContractRow
<1>3. contract' = [contract EXCEPT ![c] = new]
    BY <1>1 DEF Inv, TypeOK
<1> HIDE DEF new
<1>4. \A d \in Contracts : contract'[d] = IF d = c THEN new ELSE contract[d]
    BY <1>3 DEF Inv, TypeOK
<1>5. Stored(c) /\ Sound(c, row)
    BY <1>1 DEF Exists, Stored, Inv, RowsSound
<1>6. TypeOK'
    <2>1. contract \in [Contracts -> ContractRow \cup {NoRow, Gone}]
        BY DEF Inv, TypeOK
    <2>2. contract' \in [Contracts -> ContractRow \cup {NoRow, Gone}]
        BY <1>2, <1>3, <2>1
    <2> QED
        BY <2>2 DEF Inv, TypeOK
<1>7. RowsSound'
    <2>1. Sound(c, contract[c])'
        BY <1>2, <1>4, <1>5 DEF Sound, LegalTrail
    <2> QED
        BY <1>4, <2>1, RowsStep
<1>8. Story(c)'
    <2>1. Story(c)
        BY DEF Inv
    <2>2. contract'[c] = new /\ new # NoRow
        BY <1>2, <1>4, NoRowAssumption
    <2>3. Fresh(c)'
        BY <2>2 DEF Fresh
    <2>4. Undisturbed(c)'
        <3>1. CASE \E q \in Handlers : Writing(q, c)
            BY <3>1 DEF Undisturbed
        <3>2. CASE ~ \E q \in Handlers : Writing(q, c)
            <4>1. \A q \in Handlers : ~Writing(q, c)'
                BY <3>2 DEF Writing
            <4> QED
                BY <1>1, <1>2, <1>5, <2>1, <2>2, <3>2, <4>1 DEF Story, Undisturbed
        <3> QED
            BY <3>1, <3>2
    <2> QED
        BY <2>3, <2>4 DEF Story
<1>9. ASSUME NEW d \in Contracts, d # c
      PROVE  Story(d)'
    BY <1>4, <1>9, Elsewhere DEF Inv, TypeOK
<1> QED
    BY <1>6, <1>7, <1>8, <1>9 DEF Inv

LEMMA EnsureInv ==
    ASSUME Inv, NEW c \in Contracts, EnsureContractThread(c)
    PROVE  Inv'
<1>1. linking' \subseteq Contracts /\ UNCHANGED <<told, handler, wanted, imported>>
    BY DEF EnsureContractThread, Inv, TypeOK
<1>2. CASE UNCHANGED <<contract, threads, overlapped>>
    <2>1. TypeOK'
        BY <1>1, <1>2 DEF Inv, TypeOK
    <2>2. RowsSound'
        BY <1>1, <1>2, RowsStep
    <2>3. ASSUME NEW d \in Contracts PROVE Story(d)'
        BY <1>1, <1>2, Elsewhere DEF Inv, TypeOK
    <2> QED
        BY <2>1, <2>2, <2>3 DEF Inv
<1>3. CASE /\ Exists(c)
           /\ contract' = [contract EXCEPT ![c].thread = TRUE]
           /\ threads' = threads \cup {c}
           /\ overlapped' = IF \E q \in Handlers : Writing(q, c)
                            THEN overlapped \cup {c} ELSE overlapped
    BY <1>1, <1>3, LinkInv
<1> QED
    BY <1>2, <1>3 DEF EnsureContractThread

LEMMA DeleteInv ==
    ASSUME Inv, NEW c \in Contracts, DeleteContract(c)
    PROVE  Inv'
<1>1. /\ contract' = [contract EXCEPT ![c] = Gone]
      /\ UNCHANGED <<told, linking, handler, wanted, threads, imported, overlapped>>
    BY DEF DeleteContract
<1>2. \A d \in Contracts : contract'[d] = IF d = c THEN Gone ELSE contract[d]
    BY <1>1 DEF Inv, TypeOK
<1>3. TypeOK'
    BY <1>1 DEF Inv, TypeOK
<1>4. RowsSound'
    BY <1>1, <1>2, RowsStep
<1>5. Story(c)'
    <2>1. Story(c)
        BY DEF Inv
    <2> QED
        BY <1>1, <1>2, <2>1, NoRowAssumption
           DEF Story, Undisturbed, Fresh, Stored, Writing
<1>6. ASSUME NEW d \in Contracts, d # c
      PROVE  Story(d)'
    BY <1>1, <1>2, <1>6, Elsewhere DEF Inv, TypeOK
<1> QED
    BY <1>3, <1>4, <1>5, <1>6 DEF Inv

LEMMA StutterInv == Inv /\ UNCHANGED vars => Inv'
<1> SUFFICES ASSUME Inv, UNCHANGED vars PROVE Inv'
    OBVIOUS
<1>1. UNCHANGED <<contract, told, linking, handler, wanted, threads, imported, overlapped>>
    BY DEF vars
<1>2. TypeOK'
    BY <1>1 DEF Inv, TypeOK
<1>3. RowsSound'
    BY <1>1, RowsStep
<1>4. ASSUME NEW d \in Contracts PROVE Story(d)'
    BY <1>1, Elsewhere DEF Inv, TypeOK
<1> QED
    BY <1>2, <1>3, <1>4 DEF Inv

LEMMA NextInv == Inv /\ [Next]_vars => Inv'
<1> SUFFICES ASSUME Inv, [Next]_vars PROVE Inv'
    OBVIOUS
<1>1. ASSUME NEW r \in Handlers, NEW c \in Contracts,
             CreateContract(r, c) \/ GetContract(r, c) \/ ImportContract(r, c)
      PROVE  Inv'
    BY <1>1, CreateInv, GetInv, ImportNewInv
<1>2. ASSUME NEW r \in Handlers,
             \/ PatchContract(r) \/ ChangeStatus(r) \/ AddContractDoc(r)
             \/ DeleteContractDoc(r) \/ ImportOver(r)
      PROVE  Inv'
    BY <1>2, PatchInv, ChangeStatusInv, AddDocInv, DeleteDocInv, ImportOverInv
<1>3. ASSUME NEW r \in Handlers, PublishStatus(r) PROVE Inv'
    BY <1>3, PublishInv
<1>4. ASSUME NEW r \in Handlers, Refuse(r) \/ Fail(r) PROVE Inv'
    BY <1>4, EndInv DEF Refuse, Fail
<1>5. ASSUME NEW c \in Contracts, EnsureContractThread(c) \/ DeleteContract(c) PROVE Inv'
    BY <1>5, EnsureInv, DeleteInv
<1> QED
    BY <1>1, <1>2, <1>3, <1>4, <1>5, StutterInv DEF Next

\* The conjunction of the facts above holds in every state the handlers reach.
THEOREM Invariant == Spec => []Inv
BY InitInv, NextInv, PTL DEF Spec

-----------------------------------------------------------------------------
\* Rows, copies and requests keep their shape, and a request that is going to write
\* holds a row.
THEOREM TypeCorrect == Spec => []TypeOK
<1>1. Inv => TypeOK
    BY DEF Inv
<1> QED
    BY <1>1, Invariant, PTL

\* The trail of a contract no import has written is the history of its status, however
\* many requests write whole rows back over each other (UpdateContract): status and
\* trail are always written together and each copy explains itself.
THEOREM TrailHolds == Spec => []TrailExplainsStatus
<1>1. Inv => TrailExplainsStatus
    BY DEF Inv, RowsSound, Sound, TrailExplainsStatus
<1> QED
    BY <1>1, Invariant, PTL

\* On a contract whose writers never overlapped nothing is lost: documents, thread, and
\* the statuses other services were told of.
THEOREM NothingLost == Spec => []NothingLostUnlessOverlapped
<1>1. Inv => NothingLostUnlessOverlapped
    BY DEF Inv, Story, Undisturbed, NothingLostUnlessOverlapped
<1> QED
    BY <1>1, Invariant, PTL

\* Away from imports and overlaps the row itself moves by govTransitions only: the check
\* in PatchContract is made on a copy, and the copy is the row.
LEMMA StepFollows ==
    ASSUME Inv, Inv', [Next]_vars, NEW c \in Contracts, c \notin overlapped \cup imported'
    PROVE  Enforced(c)
<1> SUFFICES ASSUME Stored(c), Stored(c)'
             PROVE  contract'[c].status \in {contract[c].status} \cup Transitions[contract[c].status]
    BY DEF Enforced
<1>1. contract \in [Contracts -> ContractRow \cup {NoRow, Gone}]
    BY DEF Inv, TypeOK
<1>2. ASSUME NEW r \in Handlers, handler[r].op = "read", handler[r].of = c
      PROVE  handler[r].row = contract[c] /\ contract[c] \in ContractRow
    BY <1>1, <1>2 DEF Inv, Story, Undisturbed, Writing, Stored
<1>3. ASSUME NEW r \in Handlers, NEW docs, handler[r].op = "read",
             Write(r, handler[r].of, [handler[r].row EXCEPT !.docs = docs])
      PROVE  contract'[c].status = contract[c].status
    <2>1. CASE handler[r].of = c
        BY <1>1, <1>2, <1>3, <2>1 DEF Write, UpdateContract, ContractRow
    <2>2. CASE handler[r].of # c
        BY <1>1, <1>3, <2>2 DEF Write, UpdateContract
    <2> QED
        BY <2>1, <2>2
<1>4. ASSUME NEW r \in Handlers, PatchContract(r)
      PROVE  contract'[c].status = contract[c].status
    <2>1. CASE \E docs \in SUBSET Docs :
                  Write(r, handler[r].of, [handler[r].row EXCEPT !.docs = docs])
        BY <1>3, <1>4, <2>1 DEF PatchContract
    <2>2. CASE Write(r, handler[r].of, handler[r].row)
        <3>1. CASE handler[r].of = c
            BY <1>1, <1>2, <1>4, <2>2, <3>1 DEF PatchContract, Write, UpdateContract
        <3>2. CASE handler[r].of # c
            BY <1>1, <2>2, <3>2 DEF Write, UpdateContract
        <3> QED
            BY <3>1, <3>2
    <2> QED
        BY <1>4, <2>1, <2>2 DEF PatchContract
<1>5. ASSUME NEW r \in Handlers, AddContractDoc(r)
      PROVE  contract'[c].status = contract[c].status
    <2>1. PICK d \in Docs : Write(r, handler[r].of, [handler[r].row EXCEPT !.docs = @ \cup {d}])
        BY <1>5 DEF AddContractDoc
    <2>2. handler[r].op = "read" /\ handler[r].row \in ContractRow
        BY <1>5, Held DEF AddContractDoc
    <2>3. Write(r, handler[r].of,
                [handler[r].row EXCEPT !.docs = handler[r].row.docs \cup {d}])
        BY <2>1, <2>2 DEF ContractRow
    <2> QED
        BY <1>3, <2>2, <2>3
<1>6. ASSUME NEW r \in Handlers, DeleteContractDoc(r)
      PROVE  contract'[c].status = contract[c].status
    <2>1. PICK d \in Docs : Write(r, handler[r].of, [handler[r].row EXCEPT !.docs = @ \ {d}])
        BY <1>6 DEF DeleteContractDoc
    <2>2. handler[r].op = "read" /\ handler[r].row \in ContractRow
        BY <1>6, Held DEF DeleteContractDoc
    <2>3. Write(r, handler[r].of,
                [handler[r].row EXCEPT !.docs = handler[r].row.docs \ {d}])
        BY <2>1, <2>2 DEF ContractRow
    <2> QED
        BY <1>3, <2>2, <2>3
<1>7. ASSUME NEW r \in Handlers, ChangeStatus(r)
      PROVE  contract'[c].status \in {contract[c].status} \cup Transitions[contract[c].status]
    <2>1. PICK next \in Statuses :
              /\ CanTransitionTo(handler[r].row.status, next)
              /\ Write(r, handler[r].of,
                       [handler[r].row EXCEPT !.status = next,
                                              !.trail = TrailEntry(handler[r].row, next)])
        BY <1>7 DEF ChangeStatus
    <2>2. CASE handler[r].of = c
        <3>1. handler[r].row = contract[c] /\ contract[c] \in ContractRow
            BY <1>2, <1>7, <2>2 DEF ChangeStatus
        <3>2. contract'[c].status = next
            BY <1>1, <2>1, <2>2, <3>1 DEF Write, UpdateContract, ContractRow
        <3> QED
            BY <2>1, <3>1, <3>2 DEF CanTransitionTo
    <2>3. CASE handler[r].of # c
        BY <1>1, <2>1, <2>3 DEF Write, UpdateContract
    <2> QED
        BY <2>2, <2>3
<1>8. ASSUME NEW r \in Handlers, ImportOver(r)
      PROVE  contract'[c].status = contract[c].status
    <2>1. handler[r].of # c
        BY <1>8 DEF ImportOver
    <2> QED
        BY <1>1, <1>8, <2>1 DEF ImportOver, Write, UpdateContract
<1>9. ASSUME NEW r \in Handlers, NEW d \in Contracts,
             CreateContract(r, d) \/ ImportContract(r, d)
      PROVE  contract'[c].status = contract[c].status
    BY <1>1, <1>9 DEF CreateContract, ImportContract, Stored
<1>10. CASE UNCHANGED contract
    BY <1>10
<1>11. CASE Next /\ contract' # contract
    <2>1. ASSUME NEW d \in Contracts, EnsureContractThread(d) \/ DeleteContract(d)
          PROVE  contract'[c].status = contract[c].status
        <3>1. CASE EnsureContractThread(d)
            <4>1. UNCHANGED contract \/ contract' = [contract EXCEPT ![d].thread = TRUE]
                BY <3>1 DEF EnsureContractThread
            <4>2. contract[c] \in ContractRow
                BY <1>1 DEF Stored
            <4> QED
                BY <1>1, <4>1, <4>2 DEF ContractRow
        <3>2. CASE DeleteContract(d)
            BY <1>1, <3>2 DEF DeleteContract, Stored
        <3> QED
            BY <2>1, <3>1, <3>2
    <2>2. ASSUME NEW r \in Handlers, NEW d \in Contracts, GetContract(r, d)
          PROVE  UNCHANGED contract
        BY <2>2 DEF GetContract
    <2>3. ASSUME NEW r \in Handlers, PublishStatus(r) \/ Refuse(r) \/ Fail(r)
          PROVE  UNCHANGED contract
        BY <2>3 DEF PublishStatus, Refuse, Fail
    <2> QED
        BY <1>4, <1>5, <1>6, <1>7, <1>8, <1>9, <1>11, <2>1, <2>2, <2>3 DEF Next
<1> QED
    BY <1>10, <1>11 DEF vars

\* The status of a contract on which no writers overlapped and that no import wrote moves
\* along govTransitions only; closed and terminated are final.
THEOREM LifecycleFollowed == Spec => StatusFollowsLifecycle
<1>1. Inv /\ Inv' /\ [Next]_vars =>
          [\A c \in Contracts : c \notin overlapped \cup imported' => Enforced(c)]_vars
    BY StepFollows
<1> QED
    BY <1>1, Invariant, PTL DEF Spec, StatusFollowsLifecycle

-----------------------------------------------------------------------------
(* The monthly report and its import.                                      *)

-----------------------------------------------------------------------------
\* The program of an import: the rows of the works sheet, the listing, the rows of
\* the "Contractors verified" sheet, the rows of the consultancy sheet.
WorkStep == [do : {"work"}, number : STRING, name : STRING, exec : ExecutionStatuses]
ListStep == [do : {"list"}]
InvoiceStep == [do : {"valuation"}, name : STRING]
PlanStep == WorkStep \cup ListStep \cup InvoiceStep

TrackerSteps ==
    [i \in DOMAIN Tracker |-> [do |-> "work", number |-> Tracker[i].number,
        name |-> Tracker[i].name, exec |-> NormalizeExecutionStatus(Tracker[i].text)]]
VerifiedSteps == [i \in DOMAIN Verified |-> [do |-> "valuation", name |-> Verified[i]]]
ConsultancySteps ==
    [i \in DOMAIN Consultancy |-> [do |-> "work", number |-> Consultancy[i].number,
        name |-> Consultancy[i].name, exec |-> ExecForProgress(Consultancy[i].progress)]]

LEMMA NormalizedStatus ==
    ASSUME NEW text
    PROVE  NormalizeExecutionStatus(text) \in ExecutionStatuses
BY ZenonT(30) DEF NormalizeExecutionStatus, ExecutionStatuses

LEMMA ProgressStatus ==
    ASSUME NEW p \in Nat
    PROVE  ExecForProgress(p) \in ExecutionStatuses
BY DEF ExecForProgress, ExecutionStatuses

\* A function on 1 .. n is a sequence of length n.
LEMMA AsSequence ==
    ASSUME NEW S, NEW n \in Nat, NEW f \in [1 .. n -> S]
    PROVE  f \in Seq(S) /\ Len(f) = n
OBVIOUS

LEMMA TrackerType == TrackerSteps \in Seq(WorkStep) /\ Len(TrackerSteps) = Len(Tracker)
<1>1. Tracker \in Seq([number : STRING, name : STRING, text : STRING])
    BY MonthAssumption
<1>2. Len(Tracker) \in Nat /\ DOMAIN Tracker = 1 .. Len(Tracker)
    BY <1>1, LenProperties
<1>3. ASSUME NEW i \in 1 .. Len(Tracker)
      PROVE  [do |-> "work", number |-> Tracker[i].number, name |-> Tracker[i].name,
              exec |-> NormalizeExecutionStatus(Tracker[i].text)] \in WorkStep
    <2>1. Tracker[i] \in [number : STRING, name : STRING, text : STRING]
        BY <1>1, <1>3, ElementOfSeq
    <2>2. NormalizeExecutionStatus(Tracker[i].text) \in ExecutionStatuses
        BY NormalizedStatus
    <2> QED
        BY <2>1, <2>2 DEF WorkStep
<1>4. TrackerSteps \in [1 .. Len(Tracker) -> WorkStep]
    BY <1>2, <1>3 DEF TrackerSteps
<1> QED
    BY <1>2, <1>4, AsSequence

LEMMA VerifiedType ==
    /\ VerifiedSteps \in Seq(InvoiceStep) /\ Len(VerifiedSteps) = Len(Verified)
    /\ Len(Verified) \in Nat /\ DOMAIN Verified = 1 .. Len(Verified)
    /\ \A i \in DOMAIN Verified : VerifiedSteps[i].name = Verified[i]
<1>1. Len(Verified) \in Nat /\ DOMAIN Verified = 1 .. Len(Verified)
    BY MonthAssumption, LenProperties
<1>2. \A i \in DOMAIN Verified : Verified[i] \in STRING
    BY <1>1, MonthAssumption, ElementOfSeq
<1>3. VerifiedSteps \in [1 .. Len(Verified) -> InvoiceStep]
    BY <1>1, <1>2 DEF VerifiedSteps, InvoiceStep
<1>4. \A i \in DOMAIN Verified : VerifiedSteps[i].name = Verified[i]
    BY DEF VerifiedSteps
<1> QED
    BY <1>1, <1>3, <1>4, AsSequence

LEMMA ConsultancyType ==
    ConsultancySteps \in Seq(WorkStep) /\ Len(ConsultancySteps) = Len(Consultancy)
<1>1. Consultancy \in Seq([number : STRING, name : STRING, progress : Nat])
    BY MonthAssumption
<1>2. Len(Consultancy) \in Nat /\ DOMAIN Consultancy = 1 .. Len(Consultancy)
    BY <1>1, LenProperties
<1>3. ASSUME NEW i \in 1 .. Len(Consultancy)
      PROVE  [do |-> "work", number |-> Consultancy[i].number, name |-> Consultancy[i].name,
              exec |-> ExecForProgress(Consultancy[i].progress)] \in WorkStep
    <2>1. Consultancy[i] \in [number : STRING, name : STRING, progress : Nat]
        BY <1>1, <1>3, ElementOfSeq
    <2>2. ExecForProgress(Consultancy[i].progress) \in ExecutionStatuses
        BY <2>1, ProgressStatus
    <2> QED
        BY <2>1, <2>2 DEF WorkStep
<1>4. ConsultancySteps \in [1 .. Len(Consultancy) -> WorkStep]
    BY <1>2, <1>3 DEF ConsultancySteps
<1> QED
    BY <1>2, <1>4, AsSequence

\* Where each kind of row is in the program.
LEMMA PlanParts ==
    /\ Plan \in Seq(PlanStep)
    /\ Len(Plan) \in Nat /\ DOMAIN Plan = 1 .. Len(Plan)
    /\ Len(Tracker) \in Nat /\ Len(Verified) \in Nat
    /\ Len(Plan) >= Len(Tracker) + 1 + Len(Verified)
    /\ \A j \in DOMAIN Plan :
          /\ Plan[j].do = "list" <=> j = Len(Tracker) + 1
          /\ Plan[j].do = "valuation" <=>
                 j > Len(Tracker) + 1 /\ j <= Len(Tracker) + 1 + Len(Verified)
          /\ Plan[j].do = "valuation" => Plan[j].name = Verified[j - Len(Tracker) - 1]
<1> DEFINE S == TrackerSteps
           T == <<[do |-> "list"]>>
           U == VerifiedSteps
           V == ConsultancySteps
<1>1. /\ S \in Seq(WorkStep) /\ U \in Seq(InvoiceStep) /\ V \in Seq(WorkStep)
      /\ Len(S) = Len(Tracker) /\ Len(U) = Len(Verified) /\ Len(V) = Len(Consultancy)
    BY TrackerType, VerifiedType, ConsultancyType
<1>2. T \in Seq(ListStep) /\ Len(T) = 1 /\ T[1].do = "list"
    BY DEF ListStep
<1>3. Len(S) \in Nat /\ Len(U) \in Nat /\ Len(V) \in Nat
    BY <1>1, LenProperties
<1>4. S \in Seq(PlanStep) /\ T \in Seq(PlanStep) /\ U \in Seq(PlanStep) /\ V \in Seq(PlanStep)
    BY <1>1, <1>2, SeqMonotonic DEF PlanStep
<1>5. /\ \A i \in 1 .. Len(S) : S[i].do = "work"
      /\ \A i \in 1 .. Len(U) : U[i].do = "valuation" /\ U[i].name = Verified[i]
      /\ \A i \in 1 .. Len(V) : V[i].do = "work"
    <2>1. \A i \in 1 .. Len(S) : S[i] \in WorkStep
        BY <1>1, ElementOfSeq
    <2>2. \A i \in 1 .. Len(U) : U[i] \in InvoiceStep /\ U[i].name = Verified[i]
        BY <1>1, ElementOfSeq, VerifiedType
    <2>3. \A i \in 1 .. Len(V) : V[i] \in WorkStep
        BY <1>1, ElementOfSeq
    <2> QED
        BY <2>1, <2>2, <2>3 DEF WorkStep, InvoiceStep
<1>6. Plan = ((S \o T) \o U) \o V
    BY DEF Plan, TrackerSteps, VerifiedSteps, ConsultancySteps
<1> HIDE DEF S, T, U, V
<1>7. /\ S \o T \in Seq(PlanStep) /\ Len(S \o T) = Len(S) + 1
      /\ \A i \in 1 .. Len(S) + 1 : (S \o T)[i] = IF i <= Len(S) THEN S[i] ELSE T[i - Len(S)]
    <2>1. /\ S \o T \in Seq(PlanStep) /\ Len(S \o T) = Len(S) + Len(T)
          /\ \A i \in 1 .. Len(S) + Len(T) :
                 (S \o T)[i] = IF i <= Len(S) THEN S[i] ELSE T[i - Len(S)]
        BY <1>4, ConcatProperties
    <2> QED
        BY <1>2, <2>1
<1>8. PICK front : front = S \o T
    OBVIOUS
<1>9. /\ front \o U \in Seq(PlanStep) /\ Len(front \o U) = Len(front) + Len(U)
      /\ \A i \in 1 .. Len(front) + Len(U) :
             (front \o U)[i] = IF i <= Len(front) THEN front[i] ELSE U[i - Len(front)]
    BY <1>4, <1>7, <1>8, ConcatProperties
<1>10. PICK middle : middle = front \o U
    OBVIOUS
<1>11. /\ middle \o V \in Seq(PlanStep) /\ Len(middle \o V) = Len(middle) + Len(V)
       /\ \A i \in 1 .. Len(middle) + Len(V) :
              (middle \o V)[i] = IF i <= Len(middle) THEN middle[i] ELSE V[i - Len(middle)]
    BY <1>4, <1>9, <1>10, ConcatProperties
<1>12. Plan = middle \o V
    BY <1>6, <1>8, <1>10
<1>13. /\ Plan \in Seq(PlanStep)
       /\ Len(Plan) = Len(S) + 1 + Len(U) + Len(V) /\ DOMAIN Plan = 1 .. Len(Plan)
    BY <1>3, <1>7, <1>8, <1>9, <1>10, <1>11, <1>12, LenProperties
<1>14. ASSUME NEW j \in DOMAIN Plan
       PROVE  /\ Plan[j].do = "list" <=> j = Len(Tracker) + 1
              /\ Plan[j].do = "valuation" <=>
                     j > Len(Tracker) + 1 /\ j <= Len(Tracker) + 1 + Len(Verified)
              /\ Plan[j].do = "valuation" => Plan[j].name = Verified[j - Len(Tracker) - 1]
    <2>1. j \in Nat /\ j >= 1 /\ j <= Len(S) + 1 + Len(U) + Len(V)
        BY <1>3, <1>13, <1>14
    <2>2. CASE j <= Len(S)
        <3>1. Plan[j] = S[j]
            BY <1>3, <1>7, <1>8, <1>9, <1>10, <1>11, <1>12, <2>1, <2>2
        <3> QED
            BY <1>1, <1>3, <1>5, <2>1, <2>2, <3>1
    <2>3. CASE j = Len(S) + 1
        <3>1. Plan[j] = T[1]
            BY <1>3, <1>7, <1>8, <1>9, <1>10, <1>11, <1>12, <2>1, <2>3
        <3> QED
            BY <1>1, <1>2, <1>3, <2>3, <3>1
    <2>4. CASE j > Len(S) + 1 /\ j <= Len(S) + 1 + Len(U)
        <3>1. Plan[j] = U[j - Len(S) - 1] /\ j - Len(S) - 1 \in 1 .. Len(U)
            BY <1>3, <1>7, <1>8, <1>9, <1>10, <1>11, <1>12, <2>1, <2>4
        <3> QED
            BY <1>1, <1>3, <1>5, <2>4, <3>1
    <2>5. CASE j > Len(S) + 1 + Len(U)
        <3>1. Plan[j] = V[j - Len(S) - 1 - Len(U)] /\ j - Len(S) - 1 - Len(U) \in 1 .. Len(V)
            BY <1>3, <1>7, <1>8, <1>9, <1>10, <1>11, <1>12, <2>1, <2>5
        <3> QED
            BY <1>1, <1>3, <1>5, <2>1, <2>5, <3>1
    <2> QED
        BY <1>3, <2>1, <2>2, <2>3, <2>4, <2>5
<1> QED
    BY <1>1, <1>3, <1>13, <1>14

\* What the rows of the program hold.
LEMMA PlanRow ==
    ASSUME NEW j \in DOMAIN Plan
    PROVE  /\ Plan[j].do \in {"work", "list", "valuation"}
           /\ Plan[j].do = "work" => /\ Plan[j].name \in SheetNames
                                     /\ Plan[j].number \in Numbers
                                     /\ Plan[j].exec \in ExecutionStatuses
           /\ Plan[j].do = "valuation" => /\ Plan[j].name \in InvoiceNames
                                          /\ Plan[j].name \in SheetNames
                                          /\ Plan[j] = [do |-> "valuation", name |-> Plan[j].name]
<1>1. Plan[j] \in WorkStep \cup ListStep \cup InvoiceStep
    <2>1. Plan \in Seq(PlanStep) /\ j \in 1 .. Len(Plan)
        BY PlanParts
    <2> QED
        BY <2>1, ElementOfSeq DEF PlanStep
<1>2. Plan[j].do = "work" => Plan[j] \in RowsOf("work")
    BY DEF RowsOf
<1>3. Plan[j].do = "valuation" => Plan[j] \in RowsOf("valuation")
    BY DEF RowsOf
<1>4. CASE Plan[j] \in WorkStep
    BY <1>2, <1>4 DEF WorkStep, SheetNames, Numbers
<1>5. CASE Plan[j] \in ListStep
    BY <1>5 DEF ListStep
<1>6. CASE Plan[j] \in InvoiceStep
    <2>1. Plan[j].do = "valuation"
        BY <1>6 DEF InvoiceStep
    <2>2. Plan[j] = [do |-> "valuation", name |-> Plan[j].name]
        BY <1>6 DEF InvoiceStep
    <2> QED
        BY <1>3, <2>1, <2>2 DEF SheetNames, InvoiceNames
<1> QED
    BY <1>1, <1>4, <1>5, <1>6

LEMMA InvoicesOnSheet == InvoiceNames \subseteq SheetNames
BY DEF InvoiceNames, SheetNames

LEMMA StepOfType ==
    ASSUME NEW k \in 1 .. Len(Plan) + 1
    PROVE  /\ StepOf(k) \in {"done", "list", "ensure"}
           /\ StepOf(k) # "done" => k \in DOMAIN Plan
           /\ StepOf(k) = "list" => Plan[k].do = "list"
           /\ StepOf(k) = "ensure" => Plan[k].do \in {"work", "valuation"}
<1>1. Len(Plan) \in Nat /\ DOMAIN Plan = 1 .. Len(Plan)
    BY PlanParts
<1>2. CASE k > Len(Plan)
    BY <1>2 DEF StepOf
<1>3. CASE ~(k > Len(Plan))
    <2>1. k \in DOMAIN Plan
        BY <1>1, <1>3
    <2>2. Plan[k].do \in {"work", "list", "valuation"}
        BY <2>1, PlanRow
    <2> QED
        BY <1>3, <2>1, <2>2 DEF StepOf
<1> QED
    BY <1>2, <1>3

-----------------------------------------------------------------------------
\* A row of a table replaced, and a row added.
LEMMA Replaced ==
    ASSUME NEW S, NEW s \in Seq(S), NEW i \in DOMAIN s, NEW e \in S
    PROVE  /\ [s EXCEPT ![i] = e] \in Seq(S)
           /\ DOMAIN [s EXCEPT ![i] = e] = DOMAIN s
           /\ [s EXCEPT ![i] = e][i] = e
           /\ \A j \in DOMAIN s : j # i => [s EXCEPT ![i] = e][j] = s[j]
<1>1. DOMAIN s = 1 .. Len(s)
    BY LenProperties
<1> QED
    BY <1>1, ExceptSeq

LEMMA Added ==
    ASSUME NEW S, NEW s \in Seq(S), NEW e \in S
    PROVE  /\ Append(s, e) \in Seq(S)
           /\ Len(s) + 1 \in Nat /\ Len(s) + 1 # 0 /\ Len(s) + 1 \notin DOMAIN s
           /\ Len(Append(s, e)) = Len(s) + 1
           /\ DOMAIN Append(s, e) = DOMAIN s \cup {Len(s) + 1}
           /\ Append(s, e)[Len(s) + 1] = e
           /\ \A j \in DOMAIN s : Append(s, e)[j] = s[j]
<1>1. Len(s) \in Nat /\ DOMAIN s = 1 .. Len(s)
    BY LenProperties
<1>2. Append(s, e) \in Seq(S) /\ Len(Append(s, e)) = Len(s) + 1
    OBVIOUS
<1>3. DOMAIN Append(s, e) = 1 .. Len(s) + 1
    BY <1>2, LenProperties
<1>4. /\ Append(s, e)[Len(s) + 1] = e
      /\ \A j \in 1 .. Len(s) : Append(s, e)[j] = s[j]
    BY <1>1
<1>5. 1 .. Len(s) + 1 = (1 .. Len(s)) \cup {Len(s) + 1}
    BY <1>1
<1> QED
    BY <1>1, <1>2, <1>3, <1>4, <1>5

LEMMA RowIn ==
    ASSUME NEW S, NEW s \in Seq(S), NEW i \in DOMAIN s
    PROVE  s[i] \in S /\ i \in Nat /\ i # 0
<1>1. Len(s) \in Nat /\ i \in 1 .. Len(s)
    BY LenProperties
<1> QED
    BY <1>1, ElementOfSeq

-----------------------------------------------------------------------------
\* The type invariant, in parts.
TablesOK ==
    /\ contractors \in Seq(ContractorRow)
    /\ works \in Seq(WorkRow)
    /\ valuations \in Seq(ValuationRow)
    /\ \A i, j \in LiveWorks : works[i].number = works[j].number => i = j
    /\ \A w \in LiveWorks : Linkable(works[w].link)
    /\ \A v \in DOMAIN valuations : valuations[v].live => Linkable(valuations[v].link)

ImportsOK == DOMAIN importer = Importers /\ \A p \in Importers : ImportOK(p)
ClerksOK == DOMAIN clerk = Clerks /\ \A k \in Clerks : ClerkOK(k)
NotesOK ==
    /\ edits \in Nat
    /\ disturbed \subseteq Importers
    /\ crossed \subseteq DOMAIN valuations
    /\ raced \subseteq InvoiceNames \cup {NewName}

Types == TablesOK /\ ImportsOK /\ ClerksOK /\ NotesOK

LEMMA TypeParts == Types <=> MonthTypeOK
BY DEF Types, MonthTypeOK, TablesOK, ImportsOK, ClerksOK, NotesOK

\* No row disappears from a table.
Grows ==
    /\ DOMAIN contractors \subseteq DOMAIN contractors'
    /\ DOMAIN works \subseteq DOMAIN works'
    /\ DOMAIN valuations \subseteq DOMAIN valuations'

\* The references that resolve are known by the live contractors.
LEMMA LinksSame ==
    ASSUME UNCHANGED contractors
    PROVE  \A link : Linkable(link)' <=> Linkable(link)
BY DEF Linkable, Links

\* A table of contractors that still resolves every reference in use.
LEMMA ContractorsStep ==
    ASSUME TablesOK, contractors' \in Seq(ContractorRow), UNCHANGED <<works, valuations>>,
           DOMAIN contractors \subseteq DOMAIN contractors',
           \A i \in DOMAIN contractors :
               contractors[i].live => contractors'[i].live \/ ~Referenced(i)
    PROVE  TablesOK' /\ Grows
<1>1. LiveWorks' = LiveWorks
    BY DEF LiveWorks
<1>2. ASSUME NEW w \in LiveWorks
      PROVE  Linkable(works[w].link)'
    BY <1>2 DEF TablesOK, Linkable, Links, Referenced
<1>3. ASSUME NEW v \in DOMAIN valuations, valuations[v].live
      PROVE  Linkable(valuations[v].link)'
    BY <1>3 DEF TablesOK, Linkable, Links, Referenced
<1> QED
    BY <1>1, <1>2, <1>3 DEF TablesOK, Grows

\* One contract written, or added: its number is its own and its link resolves.
LEMMA WorksStep ==
    ASSUME TablesOK, works' \in Seq(WorkRow), UNCHANGED <<contractors, valuations>>,
           NEW id \in DOMAIN works',
           DOMAIN works' = DOMAIN works \cup {id},
           \A w \in DOMAIN works : w # id => works'[w] = works[w],
           works'[id].live =>
               /\ Linkable(works'[id].link)
               /\ \A w \in LiveWorks : w # id => works[w].number # works'[id].number
    PROVE  TablesOK' /\ Grows
<1>1. LiveWorks' \subseteq LiveWorks \cup {id}
    BY DEF LiveWorks
<1>2. \A w \in LiveWorks' : w # id => w \in LiveWorks /\ works'[w] = works[w]
    BY <1>1 DEF LiveWorks
<1>3. id \in LiveWorks' => works'[id].live
    BY DEF LiveWorks
<1>4. ASSUME NEW i \in LiveWorks', NEW j \in LiveWorks', works'[i].number = works'[j].number
      PROVE  i = j
    BY <1>2, <1>3, <1>4 DEF TablesOK
<1>5. ASSUME NEW w \in LiveWorks'
      PROVE  Linkable(works'[w].link)
    BY <1>2, <1>3, <1>5 DEF TablesOK
<1>6. Links' = Links
    BY DEF Links
<1> QED
    BY <1>4, <1>5, <1>6 DEF TablesOK, Grows, Linkable

\* One invoice written, or added: its link resolves.
LEMMA ValuationsStep ==
    ASSUME TablesOK, valuations' \in Seq(ValuationRow), UNCHANGED <<contractors, works>>,
           NEW id \in DOMAIN valuations',
           DOMAIN valuations' = DOMAIN valuations \cup {id},
           \A v \in DOMAIN valuations : v # id => valuations'[v] = valuations[v],
           valuations'[id].live => Linkable(valuations'[id].link)
    PROVE  TablesOK' /\ Grows
<1>1. Links' = Links /\ LiveWorks' = LiveWorks
    BY DEF Links, LiveWorks
<1>2. ASSUME NEW v \in DOMAIN valuations', valuations'[v].live
      PROVE  Linkable(valuations'[v].link)
    BY <1>2 DEF TablesOK
<1> QED
    BY <1>1, <1>2 DEF TablesOK, Grows, Linkable

LEMMA TablesStay ==
    ASSUME TablesOK, UNCHANGED <<contractors, works, valuations>>
    PROVE  TablesOK' /\ Grows
<1>1. Links' = Links /\ LiveWorks' = LiveWorks
    BY DEF Links, LiveWorks
<1> QED
    BY <1>1 DEF TablesOK, Grows, Linkable

\* An import that does not move, and one that does.
LEMMA ImportStays ==
    ASSUME Grows, NEW p \in Importers, ImportOK(p), importer'[p] = importer[p]
    PROVE  ImportOK(p)'
BY DEF Grows, ImportOK

LEMMA ImportsStay ==
    ASSUME ImportsOK, Grows, UNCHANGED importer
    PROVE  ImportsOK'
BY ImportStays DEF ImportsOK

LEMMA ImportsMove ==
    ASSUME ImportsOK, Grows, NEW p \in Importers, NEW next, Moved(p, next), ImportOK(p)'
    PROVE  ImportsOK'
<1>1. DOMAIN importer' = Importers /\ \A q \in Importers : q # p => importer'[q] = importer[q]
    BY DEF Moved, ImportsOK
<1> QED
    BY <1>1, ImportStays DEF ImportsOK

LEMMA ClerkStays ==
    ASSUME Grows, NEW k \in Clerks, ClerkOK(k), clerk'[k] = clerk[k]
    PROVE  ClerkOK(k)'
BY DEF Grows, ClerkOK

LEMMA ClerksStay ==
    ASSUME ClerksOK, Grows, UNCHANGED clerk
    PROVE  ClerksOK'
BY ClerkStays DEF ClerksOK

LEMMA ClerksMove ==
    ASSUME ClerksOK, Grows, NEW k \in Clerks, NEW next,
           clerk' = [clerk EXCEPT ![k] = next], ClerkOK(k)'
    PROVE  ClerksOK'
<1>1. DOMAIN clerk' = Clerks /\ \A j \in Clerks : j # k => clerk'[j] = clerk[j]
    BY DEF ClerksOK
<1> QED
    BY <1>1, ClerkStays DEF ClerksOK

LEMMA AnsweredOK ==
    ASSUME ClerksOK, Grows, NEW k \in Clerks, Answered(k)
    PROVE  ClerksOK'
<1>1. clerk' = [clerk EXCEPT ![k] = FreeClerk]
    BY DEF Answered
<1>2. ClerkOK(k)'
    BY <1>1 DEF ClerkOK, ClerksOK
<1> QED
    BY <1>1, <1>2, ClerksMove

-----------------------------------------------------------------------------
\* Where an import in a state may be, and what it may remember.
Placed(own) ==
    /\ own.at \in 0 .. Len(Plan) + 1
    /\ own.step \notin {"idle", "done"} => own.at \in DOMAIN Plan
    /\ own.step = "list" => Plan[own.at].do = "list"
    /\ own.step \in {"ensure", "save"} => Plan[own.at].do \in {"work", "valuation"}
    /\ own.step \in {"get", "report"} => Plan[own.at].do = "work"
    /\ own.step = "report" => own.found # 0

Remembers(own) ==
    /\ own.found \in {0} \cup DOMAIN works
    /\ \A n \in InvoiceNames : own.listing[n].id \in {0} \cup DOMAIN valuations

LEMMA ImportParts ==
    ASSUME NEW p \in Importers
    PROVE  ImportOK(p) <=>
               /\ importer[p] \in ImportState
               /\ Placed(importer[p]) /\ Remembers(importer[p])
BY DEF ImportOK, Placed, Remembers

LEMMA Remembered ==
    ASSUME Grows, NEW own, Remembers(own)
    PROVE  Remembers(own)'
BY DEF Grows, Remembers

LEMMA ImportMoves ==
    ASSUME ImportsOK, Grows, NEW p \in Importers, NEW next \in ImportState, Moved(p, next),
           Placed(next), Remembers(next)'
    PROVE  ImportsOK'
<1>1. importer'[p] = next
    BY DEF Moved, ImportsOK
<1>2. ImportOK(p)'
    BY <1>1 DEF ImportOK, Placed, Remembers
<1> QED
    BY <1>2, ImportsMove

LEMMA AtRestType == AtRest \in ImportState /\ Placed(AtRest) /\ Remembers(AtRest)'
                    /\ AtRest.at = 0 /\ AtRest.step = "idle"
                    /\ \A n \in InvoiceNames : AtRest.listing[n] = [id |-> 0, status |-> "Draft"]
<1>1. NothingListed \in [InvoiceNames -> [id : Nat, status : InvoiceStatuses]]
    BY DEF NothingListed, InvoiceStatuses
<1>2. [n \in SheetNames |-> 0] \in [SheetNames -> Nat]
    OBVIOUS
<1>3. /\ AtRest.at = 0 /\ AtRest.step = "idle" /\ AtRest.found = 0
      /\ AtRest.listing = NothingListed /\ AtRest.known = [n \in SheetNames |-> 0]
      /\ AtRest \in ImportState
    BY <1>1, <1>2 DEF AtRest, ImportState
<1>4. \A n \in InvoiceNames : NothingListed[n] = [id |-> 0, status |-> "Draft"]
    BY DEF NothingListed
<1>5. Len(Plan) \in Nat
    BY PlanParts
<1> QED
    BY <1>3, <1>4, <1>5 DEF Placed, Remembers

LEMMA EndedOK ==
    ASSUME ImportsOK, Grows, NEW p \in Importers, Ended(p)
    PROVE  ImportsOK'
BY AtRestType, ImportMoves DEF Ended

\* The next row of the program.
Onward(own) == [own EXCEPT !.at = own.at + 1, !.step = StepOf(own.at + 1), !.found = 0]

LEMMA OnwardType ==
    ASSUME NEW own \in ImportState, own.at \in DOMAIN Plan
    PROVE  /\ Onward(own) \in ImportState /\ Placed(Onward(own))
           /\ Onward(own).at = own.at + 1 /\ Onward(own).found = 0
           /\ Onward(own).listing = own.listing
           /\ Onward(own).step \in {"done", "list", "ensure"}
<1>1. /\ Len(Plan) \in Nat /\ own.at + 1 \in 1 .. Len(Plan) + 1
      /\ own.at + 1 \in Nat
    BY PlanParts
<1>2. /\ StepOf(own.at + 1) \in {"done", "list", "ensure"}
      /\ StepOf(own.at + 1) # "done" => own.at + 1 \in DOMAIN Plan
      /\ StepOf(own.at + 1) = "list" => Plan[own.at + 1].do = "list"
      /\ StepOf(own.at + 1) = "ensure" => Plan[own.at + 1].do \in {"work", "valuation"}
    BY <1>1, StepOfType
<1>3. /\ Onward(own) \in ImportState
      /\ Onward(own).at = own.at + 1 /\ Onward(own).found = 0
      /\ Onward(own).step = StepOf(own.at + 1) /\ Onward(own).listing = own.listing
    BY <1>1, <1>2 DEF Onward, ImportState
<1> QED
    BY <1>1, <1>2, <1>3 DEF Placed

LEMMA NextRowOK ==
    ASSUME ImportsOK, Grows, NEW p \in Importers, importer[p].at \in DOMAIN Plan, NextRow(p)
    PROVE  ImportsOK'
<1>1. PICK own \in ImportState : own = importer[p] /\ Remembers(own)
    BY ImportParts DEF ImportsOK
<1>2. PICK next \in ImportState :
          /\ next = Onward(own) /\ Placed(next)
          /\ next.found = 0 /\ next.listing = own.listing
    BY <1>1, OnwardType
<1>3. Moved(p, next)
    BY <1>1, <1>2 DEF NextRow, Onward
<1>4. Remembers(next)'
    BY <1>1, <1>2, Remembered DEF Remembers
<1> QED
    BY <1>2, <1>3, <1>4, ImportMoves

\* The next statement of a row.
LEMMA NextStepOK ==
    ASSUME ImportsOK, Grows, NEW p \in Importers, NEW step \in {"get", "save"},
           importer[p].at \in DOMAIN Plan,
           step = "get" => Here(p).do = "work",
           step = "save" => Here(p).do \in {"work", "valuation"},
           NextStep(p, step)
    PROVE  ImportsOK'
<1>1. PICK own \in ImportState : own = importer[p] /\ Placed(own) /\ Remembers(own)
    BY ImportParts DEF ImportsOK
<1>2. PICK next : next = [own EXCEPT !.step = step]
    OBVIOUS
<1>3. /\ next \in ImportState
      /\ next.at = own.at /\ next.step = step
      /\ next.found = own.found /\ next.listing = own.listing
    BY <1>2 DEF ImportState
<1>4. Placed(next) /\ Moved(p, next)
    BY <1>1, <1>2, <1>3 DEF Placed, NextStep, Here
<1>5. Remembers(next)'
    BY <1>1, <1>3, Remembered DEF Remembers
<1> QED
    BY <1>3, <1>4, <1>5, ImportMoves

-----------------------------------------------------------------------------
\* The type invariant is kept by the statements of an import.
LEMMA StartImportType ==
    ASSUME Types, NEW p \in Importers, StartImport(p)
    PROVE  Types'
<1>1. TablesOK /\ ImportsOK /\ ClerksOK /\ NotesOK
    BY DEF Types
<1>2. UNCHANGED <<contractors, works, valuations, clerk, edits, disturbed, crossed, raced>>
    BY DEF StartImport
<1>3. TablesOK' /\ Grows
    BY <1>1, <1>2, TablesStay
<1>4. /\ StepOf(1) \in {"done", "list", "ensure"}
      /\ StepOf(1) # "done" => 1 \in DOMAIN Plan
      /\ StepOf(1) = "list" => Plan[1].do = "list"
      /\ StepOf(1) = "ensure" => Plan[1].do \in {"work", "valuation"}
      /\ 1 \in 0 .. Len(Plan) + 1
    <2>1. 1 \in 1 .. Len(Plan) + 1 /\ 1 \in 0 .. Len(Plan) + 1
        BY PlanParts
    <2> QED
        BY <2>1, StepOfType
<1>5. PICK next : next = [AtRest EXCEPT !.at = 1, !.step = StepOf(1)]
    OBVIOUS
<1>6. /\ next \in ImportState /\ next.at = 1 /\ next.step = StepOf(1)
      /\ next.found = AtRest.found /\ next.listing = AtRest.listing
    BY <1>4, <1>5, AtRestType DEF ImportState
<1>7. Placed(next) /\ Moved(p, next)
    BY <1>4, <1>5, <1>6 DEF Placed, StartImport
<1>8. Remembers(next)'
    BY <1>6, AtRestType DEF Remembers
<1>9. ImportsOK'
    BY <1>1, <1>3, <1>6, <1>7, <1>8, ImportMoves
<1>10. ClerksOK' /\ NotesOK'
    BY <1>1, <1>2, <1>3, ClerksStay DEF NotesOK
<1> QED
    BY <1>3, <1>9, <1>10 DEF Types

\* What an import in service is at.
LEMMA HereType ==
    ASSUME Types, NEW p \in Importers, importer[p].step \notin {"idle", "done"}
    PROVE  /\ importer[p].at \in DOMAIN Plan /\ importer[p].at \in Nat
           /\ importer[p] \in ImportState /\ Placed(importer[p]) /\ Remembers(importer[p])
           /\ Here(p) = Plan[importer[p].at]
<1>1. importer[p] \in ImportState /\ Placed(importer[p]) /\ Remembers(importer[p])
    BY ImportParts DEF Types, ImportsOK
<1> QED
    BY <1>1, PlanParts DEF Placed, Here

\* UpsertContractorByName finds a live contractor or adds one.
LEMMA UpsertedContractor ==
    ASSUME TablesOK, NEW name \in SheetNames \cup {NewName}
    PROVE  LET upserted == UpsertContractorByName(name) IN
           /\ upserted[1] \in Seq(ContractorRow)
           /\ DOMAIN contractors \subseteq DOMAIN upserted[1]
           /\ \A i \in DOMAIN contractors : upserted[1][i] = contractors[i]
           /\ upserted[2] \in DOMAIN upserted[1] /\ upserted[2] \in Nat
<1>1. contractors \in Seq(ContractorRow)
    BY DEF TablesOK
<1>2. CASE Named(name) # {}
    <2>1. PICK i \in Named(name) : i = CHOOSE j \in Named(name) : TRUE
        BY <1>2
    <2>2. UpsertContractorByName(name) = <<contractors, i>>
        BY <1>2, <2>1 DEF UpsertContractorByName
    <2>3. i \in DOMAIN contractors /\ i \in Nat
        BY <1>1, <2>1, RowIn DEF Named
    <2> QED
        BY <1>1, <2>2, <2>3
<1>3. CASE Named(name) = {}
    <2>1. PICK row \in ContractorRow : row = [name |-> name, live |-> TRUE]
        BY DEF ContractorRow
    <2>2. UpsertContractorByName(name) = <<Append(contractors, row), Len(contractors) + 1>>
        BY <1>3, <2>1 DEF UpsertContractorByName
    <2> QED
        BY <1>1, <2>2, Added
<1> QED
    BY <1>2, <1>3

LEMMA EnsureContractorType ==
    ASSUME Types, NEW p \in Importers, EnsureContractor(p)
    PROVE  Types'
<1>1. TablesOK /\ ImportsOK /\ ClerksOK /\ NotesOK
    BY DEF Types
<1>2. /\ importer[p].step = "ensure"
      /\ UNCHANGED <<works, valuations, clerk, edits, crossed, raced>>
    BY DEF EnsureContractor
<1>3. PICK own \in ImportState :
          /\ own = importer[p] /\ Placed(own) /\ Remembers(own)
          /\ own.at \in DOMAIN Plan /\ Here(p) = Plan[own.at]
    BY <1>2, HereType
<1>4. Here(p).do \in {"work", "valuation"} /\ Here(p).name \in SheetNames
    BY <1>2, <1>3, PlanRow DEF Placed
<1>5. PICK step \in {"get", "save"} :
          /\ step = IF Here(p).do = "work" THEN "get" ELSE "save"
          /\ step = "get" => Here(p).do = "work"
    BY <1>4
<1>6. CASE NextStep(p, step) /\ UNCHANGED <<contractors, disturbed>>
    <2>1. TablesOK' /\ Grows
        BY <1>1, <1>2, <1>6, TablesStay
    <2>2. ImportsOK'
        BY <1>1, <1>3, <1>4, <1>5, <1>6, <2>1, NextStepOK
    <2>3. ClerksOK' /\ NotesOK'
        BY <1>1, <1>2, <1>6, <2>1, ClerksStay DEF NotesOK
    <2> QED
        BY <2>1, <2>2, <2>3 DEF Types
<1>7. CASE /\ contractors' = UpsertContractorByName(Here(p).name)[1]
           /\ Moved(p, [own EXCEPT !.step = step,
                                   !.known[Here(p).name] = UpsertContractorByName(Here(p).name)[2]])
           /\ Disturbs(p)
    <2>1. PICK id \in Nat :
              /\ id = UpsertContractorByName(Here(p).name)[2]
              /\ contractors' \in Seq(ContractorRow)
              /\ DOMAIN contractors \subseteq DOMAIN contractors'
              /\ \A i \in DOMAIN contractors : contractors'[i] = contractors[i]
        BY <1>1, <1>4, <1>7, UpsertedContractor
    <2>2. TablesOK' /\ Grows
        BY <1>1, <1>2, <2>1, ContractorsStep
    <2>3. PICK known \in [SheetNames -> Nat] : known = [own.known EXCEPT ![Here(p).name] = id]
        BY <1>4 DEF ImportState
    <2>4. PICK next : next = [own EXCEPT !.step = step, !.known = known]
        OBVIOUS
    <2>5. /\ next \in ImportState
          /\ next.at = own.at /\ next.step = step
          /\ next.found = own.found /\ next.listing = own.listing
        BY <2>4 DEF ImportState
    <2>6. Moved(p, next)
        BY <1>7, <2>1, <2>3, <2>4 DEF ImportState
    <2>7. Placed(next)
        BY <1>3, <1>4, <1>5, <2>5 DEF Placed
    <2>8. Remembers(next)'
        BY <1>3, <2>2, <2>5, Remembered DEF Remembers
    <2>9. ImportsOK'
        BY <1>1, <2>2, <2>5, <2>6, <2>7, <2>8, ImportMoves
    <2>10. disturbed' \subseteq Importers
        BY <1>1, <1>7 DEF Disturbs, Active, NotesOK
    <2>11. ClerksOK' /\ NotesOK'
        BY <1>1, <1>2, <2>2, <2>10, ClerksStay DEF NotesOK
    <2> QED
        BY <2>2, <2>9, <2>11 DEF Types
<1> QED
    BY <1>3, <1>5, <1>6, <1>7 DEF EnsureContractor

LEMMA EnsureFailsType ==
    ASSUME Types, NEW p \in Importers, EnsureFails(p)
    PROVE  Types'
<1>1. TablesOK /\ ImportsOK /\ ClerksOK /\ NotesOK
    BY DEF Types
<1>2. /\ importer[p].step = "ensure"
      /\ disturbed' = disturbed \cup {p}
      /\ UNCHANGED <<contractors, works, valuations, clerk, edits, crossed, raced>>
    BY DEF EnsureFails
<1>3. importer[p].at \in DOMAIN Plan /\ Here(p).do \in {"work", "valuation"}
    BY <1>2, HereType DEF Placed
<1>4. PICK step \in {"get", "save"} :
          /\ step = IF Here(p).do = "work" THEN "get" ELSE "save"
          /\ step = "get" => Here(p).do = "work"
    BY <1>3
<1>5. NextStep(p, step)
    BY <1>4 DEF EnsureFails
<1>6. TablesOK' /\ Grows
    BY <1>1, <1>2, TablesStay
<1>7. ImportsOK'
    BY <1>1, <1>3, <1>4, <1>5, <1>6, NextStepOK
<1>8. ClerksOK' /\ NotesOK'
    BY <1>1, <1>2, <1>6, ClerksStay DEF NotesOK
<1> QED
    BY <1>6, <1>7, <1>8 DEF Types

LEMMA GetWorkType ==
    ASSUME Types, NEW p \in Importers, GetWork(p)
    PROVE  Types'
<1>1. TablesOK /\ ImportsOK /\ ClerksOK /\ NotesOK
    BY DEF Types
<1>2. /\ importer[p].step = "get"
      /\ UNCHANGED <<contractors, works, valuations, clerk, edits, disturbed, crossed, raced>>
    BY DEF GetWork
<1>3. PICK own \in ImportState :
          /\ own = importer[p] /\ Placed(own) /\ Remembers(own)
          /\ Plan[own.at].do = "work" /\ own.at \in DOMAIN Plan
    BY <1>2, HereType DEF Placed
<1>4. PICK found : found = IF Numbered(Here(p).number) = {} THEN 0
                           ELSE CHOOSE i \in Numbered(Here(p).number) : TRUE
    OBVIOUS
<1>5. found \in {0} \cup DOMAIN works /\ found \in Nat
    <2>1. Numbered(Here(p).number) # {} => found \in Numbered(Here(p).number)
        BY <1>4
    <2>2. found \in {0} \cup DOMAIN works
        BY <1>4, <2>1 DEF Numbered, LiveWorks
    <2> QED
        BY <1>1, <2>2, RowIn DEF TablesOK
<1>6. PICK next : next = [own EXCEPT !.step = "save", !.found = found]
    OBVIOUS
<1>7. /\ next \in ImportState /\ next.at = own.at /\ next.step = "save"
      /\ next.found = found /\ next.listing = own.listing
    BY <1>5, <1>6 DEF ImportState
<1>8. Moved(p, next)
    BY <1>3, <1>4, <1>6 DEF GetWork
<1>9. Placed(next)
    BY <1>3, <1>7 DEF Placed
<1>10. TablesOK' /\ Grows
    BY <1>1, <1>2, TablesStay
<1>11. Remembers(next)'
    BY <1>2, <1>3, <1>5, <1>7 DEF Remembers
<1>12. ImportsOK'
    BY <1>1, <1>7, <1>8, <1>9, <1>10, <1>11, ImportMoves
<1>13. ClerksOK' /\ NotesOK'
    BY <1>1, <1>2, <1>10, ClerksStay DEF NotesOK
<1> QED
    BY <1>10, <1>12, <1>13 DEF Types

\* What a write of import p leaves of the others.
LEMMA DisturbsOK ==
    ASSUME ImportsOK, NotesOK, NEW actor, Disturbs(actor)
    PROVE  disturbed' \subseteq Importers
BY DEF Disturbs, Active, NotesOK

\* The reference an import writes with a row.
LEMMA LinkType ==
    ASSUME Types, NEW p \in Importers, importer[p].step = "save"
    PROVE  LinkOf(p) \in Nat
<1>1. PICK own \in ImportState :
          own = importer[p] /\ own.at \in DOMAIN Plan /\ Plan[own.at].do \in {"work", "valuation"}
    BY HereType DEF Placed
<1>2. Here(p).name \in SheetNames
    BY <1>1, PlanRow DEF Here
<1>3. own.known \in [SheetNames -> Nat]
    BY DEF ImportState
<1> QED
    BY <1>1, <1>2, <1>3 DEF LinkOf

LEMMA UpsertWorkType ==
    ASSUME Types, NEW p \in Importers, UpsertWork(p)
    PROVE  Types'
<1>1. TablesOK /\ ImportsOK /\ ClerksOK /\ NotesOK /\ works \in Seq(WorkRow)
    BY DEF Types, TablesOK
<1>2. /\ importer[p].step = "save" /\ Here(p).do = "work" /\ WorkSaved(p) /\ Disturbs(p)
      /\ UNCHANGED <<contractors, valuations, clerk, edits, crossed, raced>>
    BY DEF UpsertWork
<1>3. PICK own \in ImportState, row \in PlanStep :
          /\ own = importer[p] /\ Placed(own) /\ Remembers(own)
          /\ own.at \in DOMAIN Plan
          /\ row = Here(p) /\ row = Plan[own.at] /\ row.do = "work"
    <2>1. \A j \in DOMAIN Plan : Plan[j] \in PlanStep
        BY PlanParts, ElementOfSeq
    <2> QED
        BY <1>2, <2>1, HereType
<1>4. row.name \in SheetNames /\ row.number \in Numbers /\ row.exec \in ExecutionStatuses
    BY <1>3, PlanRow
<1>5. PICK link \in Nat : link = LinkOf(p) /\ Linkable(link)
    BY <1>2, LinkType DEF WorkSaved
<1>6. \E id \in DOMAIN works' :
          /\ works' \in Seq(WorkRow) /\ DOMAIN works' = DOMAIN works \cup {id} /\ id \in Nat \ {0}
          /\ \A w \in DOMAIN works : w # id => works'[w] = works[w]
          /\ works'[id].link = link
          /\ \A w \in LiveWorks : w # id => works[w].number # works'[id].number
          /\ Moved(p, [own EXCEPT !.step = "report", !.found = id])
    <2>1. CASE own.found # 0
        <3>1. own.found \in DOMAIN works /\ works[own.found].live
            BY <1>2, <1>3, <2>1 DEF Remembers, WorkSaved
        <3>2. PICK stored \in WorkRow : stored = works[own.found]
            BY <1>1, <3>1, RowIn
        <3>3. PICK mine : mine = UpdatedWork(stored, row, link)
            OBVIOUS
        <3>4. mine \in WorkRow /\ mine.number = row.number /\ mine.link = link
            BY <1>4, <3>3 DEF UpdatedWork, WorkRow
        <3>5. works' = [works EXCEPT ![own.found] = mine]
            BY <1>3, <1>5, <2>1, <3>2, <3>3 DEF UpsertWork
        <3>6. /\ works' \in Seq(WorkRow) /\ DOMAIN works' = DOMAIN works
              /\ works'[own.found] = mine /\ own.found \in Nat
              /\ \A w \in DOMAIN works : w # own.found => works'[w] = works[w]
            BY <1>1, <3>1, <3>4, <3>5, Replaced, RowIn
        <3>7. \A w \in LiveWorks : w # own.found => works[w].number # row.number
            BY <1>2, <1>3 DEF WorkSaved, Numbered
        <3>8. Moved(p, [own EXCEPT !.step = "report", !.found = own.found])
            BY <1>3, <2>1 DEF UpsertWork
        <3> QED
            BY <2>1, <3>1, <3>2, <3>4, <3>6, <3>7, <3>8
    <2>2. CASE own.found = 0
        <3>1. PICK mine :
                  mine = [number |-> row.number, name |-> row.name, link |-> link,
                          exec |-> row.exec, report |-> NoReport, live |-> TRUE]
            OBVIOUS
        <3>2. mine \in WorkRow /\ mine.number = row.number /\ mine.link = link
            BY <1>4, <3>1 DEF WorkRow
        <3>3. works' = Append(works, mine)
            BY <1>3, <1>5, <2>2, <3>1 DEF UpsertWork
        <3>4. PICK id \in Nat : id = Len(works) + 1
            BY <1>1, <3>2, Added
        <3>5. /\ works' \in Seq(WorkRow) /\ Len(works') = id /\ id # 0
              /\ DOMAIN works' = DOMAIN works \cup {id} /\ id \notin DOMAIN works
              /\ works'[id] = mine
              /\ \A w \in DOMAIN works : works'[w] = works[w]
            BY <1>1, <3>2, <3>3, <3>4, Added
        <3>6. Numbered(row.number) \subseteq {0}
            BY <1>2, <1>3, <2>2 DEF WorkSaved
        <3>7. \A w \in LiveWorks : works[w].number # row.number
            <4>1. 0 \notin LiveWorks
                BY <1>1, RowIn DEF LiveWorks
            <4> QED
                BY <3>6, <4>1 DEF Numbered
        <3>8. Moved(p, [own EXCEPT !.step = "report", !.found = id])
            BY <1>3, <2>2, <3>5 DEF UpsertWork
        <3> QED
            BY <3>2, <3>5, <3>7, <3>8
    <2> QED
        BY <2>1, <2>2
<1>7. PICK id \in DOMAIN works' :
          /\ works' \in Seq(WorkRow) /\ DOMAIN works' = DOMAIN works \cup {id} /\ id \in Nat \ {0}
          /\ \A w \in DOMAIN works : w # id => works'[w] = works[w]
          /\ works'[id].link = link
          /\ \A w \in LiveWorks : w # id => works[w].number # works'[id].number
          /\ Moved(p, [own EXCEPT !.step = "report", !.found = id])
    BY <1>6
<1>8. TablesOK' /\ Grows
    <2>1. works'[id].live =>
              /\ Linkable(works'[id].link)
              /\ \A w \in LiveWorks : w # id => works[w].number # works'[id].number
        BY <1>5, <1>7
    <2>2. UNCHANGED <<contractors, valuations>>
        BY <1>2
    <2> QED
        BY <1>1, <1>7, <2>1, <2>2, WorksStep
<1>9. PICK next : next = [own EXCEPT !.step = "report", !.found = id]
    OBVIOUS
<1>10. /\ next \in ImportState /\ next.at = own.at /\ next.step = "report"
       /\ next.found = id /\ next.listing = own.listing
    BY <1>7, <1>9 DEF ImportState
<1>11. Placed(next) /\ Moved(p, next)
    BY <1>3, <1>7, <1>9, <1>10 DEF Placed
<1>12. Remembers(next)'
    BY <1>2, <1>3, <1>10 DEF Remembers
<1>13. ImportsOK'
    BY <1>1, <1>8, <1>10, <1>11, <1>12, ImportMoves
<1>14. ClerksOK' /\ NotesOK'
    BY <1>1, <1>2, <1>8, ClerksStay, DisturbsOK DEF NotesOK
<1> QED
    BY <1>8, <1>13, <1>14 DEF Types

LEMMA UpsertProgressReportType ==
    ASSUME Types, NEW p \in Importers, UpsertProgressReport(p)
    PROVE  Types'
<1>1. TablesOK /\ ImportsOK /\ ClerksOK /\ NotesOK /\ works \in Seq(WorkRow)
    BY DEF Types, TablesOK
<1>2. /\ importer[p].step = "report" /\ works[importer[p].found].live
      /\ NextRow(p) /\ Disturbs(p)
      /\ UNCHANGED <<contractors, valuations, clerk, edits, crossed, raced>>
    BY DEF UpsertProgressReport
<1>3. PICK own \in ImportState :
          /\ own = importer[p] /\ Remembers(own) /\ own.at \in DOMAIN Plan
          /\ own.found # 0 /\ Plan[own.at].do = "work" /\ Here(p) = Plan[own.at]
    BY <1>2, HereType DEF Placed
<1>4. PICK id \in DOMAIN works : id = own.found /\ works[id].live
    BY <1>2, <1>3 DEF Remembers
<1>5. PICK stored \in WorkRow : stored = works[id]
    BY <1>1, RowIn
<1>6. PICK mine : mine = [stored EXCEPT !.report = Plan[own.at].exec]
    OBVIOUS
<1>7. mine \in WorkRow /\ mine.number = stored.number /\ mine.link = stored.link
    <2>1. Plan[own.at].exec \in ExecutionStatuses
        BY <1>3, PlanRow
    <2> QED
        BY <1>6, <2>1 DEF WorkRow
<1>8. works' = [works EXCEPT ![id] = mine]
    BY <1>3, <1>4, <1>5, <1>6 DEF UpsertProgressReport
<1>9. /\ works' \in Seq(WorkRow) /\ DOMAIN works' = DOMAIN works /\ works'[id] = mine
      /\ \A w \in DOMAIN works : w # id => works'[w] = works[w]
    BY <1>1, <1>7, <1>8, Replaced
<1>10. TablesOK' /\ Grows
    <2>1. id \in LiveWorks
        BY <1>4 DEF LiveWorks
    <2>2. works'[id].live =>
              /\ Linkable(works'[id].link)
              /\ \A w \in LiveWorks : w # id => works[w].number # works'[id].number
        BY <1>1, <1>5, <1>7, <1>9, <2>1 DEF TablesOK
    <2>3. id \in DOMAIN works' /\ DOMAIN works' = DOMAIN works \cup {id}
        BY <1>9
    <2>4. UNCHANGED <<contractors, valuations>>
        BY <1>2
    <2> QED
        BY <1>1, <1>9, <2>2, <2>3, <2>4, WorksStep
<1>11. ImportsOK'
    BY <1>1, <1>2, <1>3, <1>10, NextRowOK
<1>12. ClerksOK' /\ NotesOK'
    BY <1>1, <1>2, <1>10, ClerksStay, DisturbsOK DEF NotesOK
<1> QED
    BY <1>10, <1>11, <1>12 DEF Types

\* The listing an import remembers: for each name an invoice that was listed under it,
\* with the status it had, or none.
ListingOf(listing, name) ==
    IF ListedUnder(name) = {} THEN listing = NothingListed[name]
    ELSE \E v \in ListedUnder(name) :
             listing = [id |-> v, status |-> valuations[v].status]

LEMMA ListStepState ==
    ASSUME Types, NEW p \in Importers, ListValuations(p)
    PROVE  \E next \in ImportState :
              /\ Moved(p, next) /\ Placed(next) /\ next.found \in {0} \cup DOMAIN works
              /\ next.at = importer[p].at + 1
              /\ Plan[importer[p].at].do = "list" /\ importer[p].at \in DOMAIN Plan
              /\ next.step \in {"done", "list", "ensure"}
              /\ \A n \in InvoiceNames : ListingOf(next.listing[n], n)
<1>1. TablesOK /\ ImportsOK /\ valuations \in Seq(ValuationRow)
    BY DEF Types, TablesOK
<1>2. importer[p].step = "list"
    BY DEF ListValuations
<1>3. PICK own \in ImportState :
          /\ own = importer[p] /\ Remembers(own) /\ own.at \in DOMAIN Plan
          /\ Plan[own.at].do = "list"
    BY <1>2, HereType DEF Placed
<1>4. PICK listing \in [InvoiceNames -> 0 .. Len(valuations)] :
          /\ \A n \in InvoiceNames :
                IF ListedUnder(n) = {} THEN listing[n] = 0 ELSE listing[n] \in ListedUnder(n)
          /\ Moved(p, [own EXCEPT !.at = own.at + 1, !.step = StepOf(own.at + 1),
                 !.listing = [n \in InvoiceNames |->
                     IF listing[n] = 0 THEN NothingListed[n]
                     ELSE [id |-> listing[n], status |-> valuations[listing[n]].status]]])
    BY <1>3 DEF ListValuations
<1>5. PICK listed :
          listed = [n \in InvoiceNames |->
                     IF listing[n] = 0 THEN NothingListed[n]
                     ELSE [id |-> listing[n], status |-> valuations[listing[n]].status]]
    OBVIOUS
<1>6. ASSUME NEW n \in InvoiceNames
      PROVE  /\ ListingOf(listed[n], n)
             /\ listed[n] \in [id : Nat, status : InvoiceStatuses]
    <2>1. NothingListed[n] \in [id : Nat, status : InvoiceStatuses]
        BY DEF NothingListed, InvoiceStatuses
    <2>2. CASE ListedUnder(n) = {}
        BY <1>4, <1>5, <2>1, <2>2 DEF ListingOf
    <2>3. CASE ListedUnder(n) # {}
        <3>1. listing[n] \in ListedUnder(n) /\ listing[n] \in DOMAIN valuations
            BY <1>4, <2>3 DEF ListedUnder
        <3>2. PICK row \in ValuationRow : row = valuations[listing[n]]
            BY <1>1, <3>1, RowIn
        <3>3. listing[n] # 0 /\ listing[n] \in Nat
            BY <1>1, <3>1, RowIn
        <3>4. listed[n] = [id |-> listing[n], status |-> row.status]
            BY <1>5, <3>2, <3>3
        <3>5. row.status \in InvoiceStatuses
            BY DEF ValuationRow
        <3> QED
            BY <2>3, <3>1, <3>2, <3>3, <3>4, <3>5 DEF ListingOf
    <2> QED
        BY <2>2, <2>3
<1>7. listed \in [InvoiceNames -> [id : Nat, status : InvoiceStatuses]]
    BY <1>5, <1>6
<1>8. PICK next : next = [own EXCEPT !.at = own.at + 1, !.step = StepOf(own.at + 1),
                                     !.listing = listed]
    OBVIOUS
<1>9. PICK after \in ImportState :
          /\ after = Onward(own) /\ Placed(after)
          /\ after.at = own.at + 1 /\ after.step \in {"done", "list", "ensure"}
          /\ after.step = StepOf(own.at + 1)
    <2>1. Onward(own).step = StepOf(own.at + 1)
        BY DEF Onward, ImportState
    <2> QED
        BY <1>3, <2>1, OnwardType
<1>10. /\ next \in ImportState /\ next.at = after.at /\ next.step = after.step
       /\ next.found = own.found /\ next.listing = listed
    <2>1. own.at + 1 = after.at /\ after.at \in Nat
        BY <1>9 DEF ImportState
    <2> QED
        BY <1>7, <1>8, <1>9, <2>1 DEF ImportState
<1>11. Placed(next)
    BY <1>9, <1>10 DEF Placed
<1>12. Moved(p, next)
    BY <1>4, <1>5, <1>8
<1>13. next.found \in {0} \cup DOMAIN works
    BY <1>3, <1>10 DEF Remembers
<1> QED
    BY <1>3, <1>6, <1>9, <1>10, <1>11, <1>12, <1>13

LEMMA ListedRow ==
    ASSUME NEW n \in InvoiceNames, NEW listing, ListingOf(listing, n)
    PROVE  /\ listing.id \in {0} \cup DOMAIN valuations
           /\ listing.id = 0 => ListedUnder(n) = {} \/ 0 \in ListedUnder(n)
           /\ listing.id # 0 => /\ listing.id \in ListedUnder(n)
                               /\ listing.status = valuations[listing.id].status
<1>1. CASE ListedUnder(n) = {}
    <2>1. listing = [id |-> 0, status |-> "Draft"]
        BY <1>1 DEF ListingOf, NothingListed
    <2> QED
        BY <1>1, <2>1
<1>2. CASE ListedUnder(n) # {}
    <2>1. PICK v \in ListedUnder(n) : listing = [id |-> v, status |-> valuations[v].status]
        BY <1>2 DEF ListingOf
    <2>2. listing.id = v /\ listing.status = valuations[v].status
        BY <2>1
    <2>3. v \in DOMAIN valuations
        BY DEF ListedUnder
    <2> QED
        BY <2>2, <2>3
<1> QED
    BY <1>1, <1>2

LEMMA ListValuationsType ==
    ASSUME Types, NEW p \in Importers, ListValuations(p)
    PROVE  Types'
<1>1. TablesOK /\ ImportsOK /\ ClerksOK /\ NotesOK
    BY DEF Types
<1>2. UNCHANGED <<contractors, works, valuations, clerk, edits, disturbed, crossed, raced>>
    BY DEF ListValuations
<1>3. PICK next \in ImportState :
          /\ Moved(p, next) /\ Placed(next) /\ next.found \in {0} \cup DOMAIN works
          /\ \A n \in InvoiceNames : ListingOf(next.listing[n], n)
    BY ListStepState
<1>4. \A n \in InvoiceNames : next.listing[n].id \in {0} \cup DOMAIN valuations
    BY <1>3, ListedRow
<1>5. TablesOK' /\ Grows
    BY <1>1, <1>2, TablesStay
<1>6. Remembers(next)'
    BY <1>2, <1>3, <1>4 DEF Remembers
<1>7. ImportsOK'
    BY <1>1, <1>3, <1>5, <1>6, ImportMoves
<1>8. ClerksOK' /\ NotesOK'
    BY <1>1, <1>2, <1>5, ClerksStay DEF NotesOK
<1> QED
    BY <1>5, <1>7, <1>8 DEF Types

LEMMA ListFailsType ==
    ASSUME Types, NEW p \in Importers, ListFails(p)
    PROVE  Types'
<1>1. TablesOK /\ ImportsOK /\ ClerksOK /\ NotesOK
    BY DEF Types
<1>2. /\ importer[p].step = "list" /\ NextRow(p)
      /\ disturbed' = disturbed \cup {p} /\ raced' = raced \cup InvoiceNames
      /\ UNCHANGED <<contractors, works, valuations, clerk, edits, crossed>>
    BY DEF ListFails
<1>3. importer[p].at \in DOMAIN Plan
    BY <1>2, HereType
<1>4. TablesOK' /\ Grows
    BY <1>1, <1>2, TablesStay
<1>5. ImportsOK'
    BY <1>1, <1>2, <1>3, <1>4, NextRowOK
<1>6. ClerksOK' /\ NotesOK'
    BY <1>1, <1>2, <1>4, ClerksStay DEF NotesOK
<1> QED
    BY <1>4, <1>5, <1>6 DEF Types

\* What an import writes: the invoice of the listing, or a new one.
InvoiceRewritten(stored, name, link, status) ==
    [stored EXCEPT !.name = name, !.link = link, !.month = "this", !.figure = "sheet",
                   !.status = status]

InvoiceNew(name, link) ==
    [name |-> name, link |-> link, month |-> "this", figure |-> "sheet", status |-> "Draft",
     live |-> TRUE, by |-> "import", decided |-> "Draft"]

LEMMA InvoiceRows ==
    ASSUME NEW name \in InvoiceNames, NEW link \in Nat
    PROVE  /\ \A stored \in ValuationRow, status \in InvoiceStatuses :
                 LET mine == InvoiceRewritten(stored, name, link, status) IN
                 /\ mine \in ValuationRow
                 /\ mine.name = name /\ mine.link = link /\ mine.month = "this"
                 /\ mine.status = status /\ mine.live = stored.live
                 /\ mine.by = stored.by /\ mine.decided = stored.decided
           /\ LET mine == InvoiceNew(name, link) IN
              /\ mine \in ValuationRow
              /\ mine.name = name /\ mine.link = link /\ mine.month = "this"
              /\ mine.status = "Draft" /\ mine.live /\ mine.by = "import"
              /\ mine.decided = "Draft"
<1>1. ASSUME NEW stored \in ValuationRow, NEW status \in InvoiceStatuses
      PROVE  LET mine == InvoiceRewritten(stored, name, link, status) IN
             /\ mine \in ValuationRow
             /\ mine.name = name /\ mine.link = link /\ mine.month = "this"
             /\ mine.status = status /\ mine.live = stored.live
             /\ mine.by = stored.by /\ mine.decided = stored.decided
    BY DEF InvoiceRewritten, ValuationRow
<1>2. LET mine == InvoiceNew(name, link) IN
      /\ mine \in ValuationRow
      /\ mine.name = name /\ mine.link = link /\ mine.month = "this"
      /\ mine.status = "Draft" /\ mine.live /\ mine.by = "import"
      /\ mine.decided = "Draft"
    BY DEF InvoiceNew, ValuationRow, InvoiceStatuses
<1> QED
    BY <1>1, <1>2

\* Saving the invoice of a row: what is written, and where.
SavesListed(p, own, name, link) ==
    \E v \in DOMAIN valuations, stored \in ValuationRow :
        /\ v = own.listing[name].id /\ stored = valuations[v] /\ stored.live
        /\ valuations' = [valuations EXCEPT ![v] =
               InvoiceRewritten(stored, name, link, own.listing[name].status)]
        /\ Overlaps(p, v) /\ UNCHANGED raced

SavesNew(p, own, name, link) ==
    /\ own.listing[name].id = 0
    /\ valuations' = Append(valuations, InvoiceNew(name, link))
    /\ raced' = IF \E q \in Active \ {p}, j \in DOMAIN Plan :
                      /\ j >= importer[q].at
                      /\ Plan[j] = Plan[own.at]
                      /\ importer[q].at > Len(Tracker) + 1
                      /\ importer[q].listing[name].id = 0
                THEN raced \cup {name} ELSE raced
    /\ UNCHANGED crossed

LEMMA SaveStep ==
    ASSUME Types, NEW p \in Importers, SaveValuation(p)
    PROVE  \E own \in ImportState, name \in InvoiceNames, link \in Nat :
              /\ own = importer[p] /\ own.at \in DOMAIN Plan /\ Placed(own) /\ Remembers(own)
              /\ Plan[own.at].do = "valuation" /\ name = Plan[own.at].name
              /\ Here(p) = Plan[own.at]
              /\ own.step = "save"
              /\ Linkable(link) /\ NextRow(p)
              /\ own.listing[name] \in [id : Nat, status : InvoiceStatuses]
              /\ SavesListed(p, own, name, link) \/ SavesNew(p, own, name, link)
<1>1. importer[p].step = "save" /\ Here(p).do = "valuation" /\ ValuationSaved(p) /\ NextRow(p)
    BY DEF SaveValuation
<1>2. PICK own \in ImportState :
          /\ own = importer[p] /\ own.at \in DOMAIN Plan /\ Placed(own) /\ Remembers(own)
          /\ Here(p) = Plan[own.at]
    BY <1>1, HereType
<1>3. PICK name \in InvoiceNames : name = Plan[own.at].name
    BY <1>1, <1>2, PlanRow
<1>4. PICK link \in Nat : link = LinkOf(p) /\ Linkable(link)
    BY <1>1, LinkType DEF ValuationSaved
<1>5. own.listing[name] \in [id : Nat, status : InvoiceStatuses]
    BY DEF ImportState
<1>6. PICK prev \in [id : Nat, status : InvoiceStatuses] : prev = own.listing[name]
    BY <1>5
<1>7. \/ /\ prev.id # 0
         /\ valuations' = [valuations EXCEPT ![prev.id] =
                [valuations[prev.id] EXCEPT !.name = name, !.link = link, !.month = "this",
                          !.figure = "sheet", !.status = prev.status]]
         /\ Overlaps(p, prev.id)
         /\ UNCHANGED raced
      \/ /\ prev.id = 0
         /\ valuations' = Append(valuations, InvoiceNew(name, link))
         /\ raced' = IF \E q \in Active \ {p}, j \in DOMAIN Plan :
                           /\ j >= importer[q].at
                           /\ Plan[j] = Here(p)
                           /\ importer[q].at > Len(Tracker) + 1
                           /\ importer[q].listing[name].id = 0
                     THEN raced \cup {name} ELSE raced
         /\ UNCHANGED crossed
    BY <1>2, <1>3, <1>4, <1>6 DEF SaveValuation, InvoiceStatus, InvoiceNew
<1>8. ASSUME prev.id # 0
      PROVE  SavesListed(p, own, name, link)
    <2>1. prev.id \in DOMAIN valuations /\ valuations[prev.id].live
        BY <1>1, <1>2, <1>3, <1>6, <1>8 DEF Remembers, ValuationSaved
    <2>2. PICK stored \in ValuationRow : stored = valuations[prev.id]
        <3>1. valuations \in Seq(ValuationRow)
            BY DEF Types, TablesOK
        <3> QED
            BY <2>1, <3>1, RowIn
    <2>3. valuations' = [valuations EXCEPT ![prev.id] =
              InvoiceRewritten(stored, name, link, own.listing[name].status)]
        BY <1>6, <1>7, <1>8, <2>2 DEF InvoiceRewritten
    <2> QED
        BY <1>6, <1>7, <1>8, <2>1, <2>2, <2>3 DEF SavesListed
<1>9. ASSUME prev.id = 0
      PROVE  SavesNew(p, own, name, link)
    BY <1>2, <1>6, <1>7, <1>9 DEF SavesNew
<1> QED
    BY <1>1, <1>2, <1>3, <1>4, <1>5, <1>8, <1>9

LEMMA SaveValuationType ==
    ASSUME Types, NEW p \in Importers, SaveValuation(p)
    PROVE  Types'
<1>1. TablesOK /\ ImportsOK /\ ClerksOK /\ NotesOK /\ valuations \in Seq(ValuationRow)
    BY DEF Types, TablesOK
<1>2. Disturbs(p) /\ UNCHANGED <<contractors, works, clerk, edits>>
    BY DEF SaveValuation
<1>3. PICK own \in ImportState, name \in InvoiceNames, link \in Nat :
          /\ own = importer[p] /\ own.at \in DOMAIN Plan
          /\ Linkable(link) /\ NextRow(p)
          /\ own.listing[name] \in [id : Nat, status : InvoiceStatuses]
          /\ SavesListed(p, own, name, link) \/ SavesNew(p, own, name, link)
    BY SaveStep
<1>4. /\ TablesOK' /\ Grows /\ crossed' \subseteq DOMAIN valuations'
      /\ raced' \subseteq InvoiceNames \cup {NewName}
    <2>1. ASSUME NEW v \in DOMAIN valuations, NEW stored \in ValuationRow,
                 v = own.listing[name].id, stored = valuations[v], stored.live,
                 valuations' = [valuations EXCEPT ![v] =
                     InvoiceRewritten(stored, name, link, own.listing[name].status)],
                 Overlaps(p, v), UNCHANGED raced
          PROVE  TablesOK' /\ Grows /\ crossed' \subseteq DOMAIN valuations'
                 /\ raced' \subseteq InvoiceNames \cup {NewName}
        <3>0. PICK status \in InvoiceStatuses : status = own.listing[name].status
            BY <1>3
        <3>1. PICK mine \in ValuationRow :
                  /\ mine = InvoiceRewritten(stored, name, link, own.listing[name].status)
                  /\ mine.link = link
            <4>1. /\ InvoiceRewritten(stored, name, link, status) \in ValuationRow
                  /\ InvoiceRewritten(stored, name, link, status).link = link
                BY InvoiceRows
            <4> QED
                BY <3>0, <4>1
        <3>2. /\ valuations' \in Seq(ValuationRow) /\ DOMAIN valuations' = DOMAIN valuations
              /\ valuations'[v] = mine
              /\ \A u \in DOMAIN valuations : u # v => valuations'[u] = valuations[u]
            BY <1>1, <2>1, <3>1, Replaced
        <3>3. v \in DOMAIN valuations' /\ DOMAIN valuations' = DOMAIN valuations \cup {v}
              /\ (valuations'[v].live => Linkable(valuations'[v].link))
            BY <1>3, <3>1, <3>2
        <3>4. UNCHANGED <<contractors, works>>
            BY <1>2
        <3>5. TablesOK' /\ Grows
            BY <1>1, <3>2, <3>3, <3>4, ValuationsStep
        <3> QED
            BY <1>1, <2>1, <3>2, <3>5 DEF Overlaps, NotesOK
    <2>2. ASSUME valuations' = Append(valuations, InvoiceNew(name, link)),
                 raced' \subseteq raced \cup {name}, UNCHANGED crossed
          PROVE  TablesOK' /\ Grows /\ crossed' \subseteq DOMAIN valuations'
                 /\ raced' \subseteq InvoiceNames \cup {NewName}
        <3>1. PICK mine \in ValuationRow : mine = InvoiceNew(name, link) /\ mine.link = link
            BY InvoiceRows
        <3>2. PICK v \in Nat : v = Len(valuations) + 1
            BY <1>1, <3>1, Added
        <3>3. /\ valuations' \in Seq(ValuationRow)
              /\ DOMAIN valuations' = DOMAIN valuations \cup {v} /\ v \notin DOMAIN valuations
              /\ valuations'[v] = mine
              /\ \A u \in DOMAIN valuations : valuations'[u] = valuations[u]
            BY <1>1, <2>2, <3>1, <3>2, Added
        <3>4. v \in DOMAIN valuations'
              /\ (valuations'[v].live => Linkable(valuations'[v].link))
            BY <1>3, <3>1, <3>3
        <3>5. UNCHANGED <<contractors, works>>
            BY <1>2
        <3>6. TablesOK' /\ Grows
            BY <1>1, <3>3, <3>4, <3>5, ValuationsStep
        <3> QED
            BY <1>1, <2>2, <3>3, <3>6 DEF NotesOK
    <2> QED
        BY <1>3, <2>1, <2>2 DEF SavesListed, SavesNew
<1>5. ImportsOK'
    BY <1>1, <1>3, <1>4, NextRowOK
<1>6. ClerksOK' /\ NotesOK'
    BY <1>1, <1>2, <1>4, ClerksStay, DisturbsOK DEF NotesOK
<1> QED
    BY <1>4, <1>5, <1>6 DEF Types

LEMMA EndImportType ==
    ASSUME Types, NEW p \in Importers, AbortImport(p) \/ ImportFails(p) \/ AnswerImport(p)
    PROVE  Types'
<1>1. TablesOK /\ ImportsOK /\ ClerksOK /\ NotesOK
    BY DEF Types
<1>2. Ended(p) /\ UNCHANGED <<contractors, works, valuations, clerk, edits, crossed, raced>>
    BY DEF AbortImport, ImportFails, AnswerImport
<1>3. TablesOK' /\ Grows
    BY <1>1, <1>2, TablesStay
<1>4. ImportsOK'
    BY <1>1, <1>2, <1>3, EndedOK
<1>5. ClerksOK' /\ NotesOK'
    BY <1>1, <1>2, <1>3, ClerksStay DEF NotesOK, Ended
<1> QED
    BY <1>3, <1>4, <1>5 DEF Types

-----------------------------------------------------------------------------
\* The type invariant is kept by the requests of users.
LEMMA EditOK ==
    ASSUME NotesOK, Edit
    PROVE  edits' \in Nat /\ disturbed' \subseteq Importers
BY DEF Edit, Active, NotesOK

\* A name written over that of a contractor, and a contractor added.
LEMMA CreateContractorType ==
    ASSUME Types, CreateContractor
    PROVE  Types'
<1>1. TablesOK /\ ImportsOK /\ ClerksOK /\ NotesOK /\ contractors \in Seq(ContractorRow)
    BY DEF Types, TablesOK
<1>2. Edit /\ UNCHANGED <<works, valuations, importer, clerk, crossed, raced>>
    BY DEF CreateContractor
<1>3. PICK row \in ContractorRow : contractors' = Append(contractors, row)
    <2>1. PICK name \in (SheetNames \ {""}) \cup {NewName} :
              contractors' = Append(contractors, [name |-> name, live |-> TRUE])
        BY DEF CreateContractor
    <2>2. [name |-> name, live |-> TRUE] \in ContractorRow
        BY DEF ContractorRow
    <2> QED
        BY <2>1, <2>2
<1>4. /\ contractors' \in Seq(ContractorRow)
      /\ DOMAIN contractors \subseteq DOMAIN contractors'
      /\ \A i \in DOMAIN contractors : contractors'[i] = contractors[i]
    BY <1>1, <1>3, Added
<1>5. TablesOK' /\ Grows
    BY <1>1, <1>2, <1>4, ContractorsStep
<1>6. ImportsOK' /\ ClerksOK'
    BY <1>1, <1>2, <1>5, ImportsStay, ClerksStay
<1>7. NotesOK'
    BY <1>1, <1>2, EditOK DEF NotesOK
<1> QED
    BY <1>5, <1>6, <1>7 DEF Types

\* What a request reads is a copy of a row that is there.
LEMMA OpenContractorType ==
    ASSUME Types, NEW k \in Clerks, OpenContractor(k)
    PROVE  Types'
<1>1. TablesOK /\ ImportsOK /\ ClerksOK /\ NotesOK /\ contractors \in Seq(ContractorRow)
    BY DEF Types, TablesOK
<1>2. UNCHANGED <<contractors, works, valuations, importer, edits, disturbed, crossed, raced>>
    BY DEF OpenContractor
<1>3. PICK i \in DOMAIN contractors, row \in ContractorRow :
          /\ row = contractors[i]
          /\ clerk' = [clerk EXCEPT ![k] = [op |-> "contractor", id |-> i, name |-> row.name]]
    <2>1. PICK i \in DOMAIN contractors :
              clerk' = [clerk EXCEPT ![k] =
                           [op |-> "contractor", id |-> i, name |-> contractors[i].name]]
        BY DEF OpenContractor, ReadsRow
    <2>2. contractors[i] \in ContractorRow
        BY <1>1, RowIn
    <2> QED
        BY <2>1, <2>2
<1>4. PICK copy : copy = [op |-> "contractor", id |-> i, name |-> row.name]
    OBVIOUS
<1>5. copy \in ContractorCopy /\ copy.id = i
    <2>1. i \in Nat
        BY <1>1, RowIn
    <2> QED
        BY <1>4, <2>1 DEF ContractorCopy, ContractorRow
<1>6. TablesOK' /\ Grows
    BY <1>1, <1>2, TablesStay
<1>7. ClerkOK(k)'
    <2>1. clerk'[k] = copy
        BY <1>1, <1>3, <1>4 DEF ClerksOK
    <2> QED
        BY <1>2, <1>5, <2>1 DEF ClerkOK
<1>8. ClerksOK'
    BY <1>1, <1>3, <1>6, <1>7, ClerksMove
<1>9. ImportsOK' /\ NotesOK'
    BY <1>1, <1>2, <1>6, ImportsStay DEF NotesOK
<1> QED
    BY <1>6, <1>8, <1>9 DEF Types

\* The copy a request works from.
LEMMA CopyType ==
    ASSUME ClerksOK, NEW k \in Clerks
    PROVE  /\ clerk[k].op = "contractor" =>
                  clerk[k] \in ContractorCopy /\ clerk[k].id \in DOMAIN contractors
           /\ clerk[k].op = "work" =>
                  clerk[k] \in WorkCopy /\ clerk[k].id \in DOMAIN works /\ clerk[k].row.live
           /\ clerk[k].op = "valuation" =>
                  clerk[k] \in ValuationCopy /\ clerk[k].id \in DOMAIN valuations
<1>1. ClerkOK(k)
    BY DEF ClerksOK
<1> QED
    BY <1>1 DEF ClerkOK, FreeClerk, ContractorCopy, WorkCopy, ValuationCopy

LEMMA PatchContractorType ==
    ASSUME Types, NEW k \in Clerks, PatchContractor(k)
    PROVE  Types'
<1>1. TablesOK /\ ImportsOK /\ ClerksOK /\ NotesOK /\ contractors \in Seq(ContractorRow)
    BY DEF Types, TablesOK
<1>2. /\ clerk[k].op = "contractor" /\ Edit /\ Answered(k)
      /\ UNCHANGED <<works, valuations, importer, crossed, raced>>
    BY DEF PatchContractor
<1>3. PICK copy \in ContractorCopy : copy = clerk[k] /\ copy.id \in DOMAIN contractors
    BY <1>1, <1>2, CopyType
<1>4. PICK row \in ContractorRow : row = contractors[copy.id]
    BY <1>1, <1>3, RowIn
<1>5. PICK name \in SheetNames \cup {NewName} :
          contractors' = [contractors EXCEPT ![copy.id] = [row EXCEPT !.name = name]]
    <2>1. PICK name \in {clerk[k].name, NewName} :
              contractors' = [contractors EXCEPT ![copy.id].name = name]
        BY <1>3 DEF PatchContractor
    <2>2. name \in SheetNames \cup {NewName}
        BY <1>3, <2>1 DEF ContractorCopy
    <2> QED
        BY <1>4, <2>1, <2>2
<1>6. PICK mine \in ContractorRow : mine = [row EXCEPT !.name = name] /\ mine.live = row.live
    <2>1. PICK mine : mine = [row EXCEPT !.name = name]
        OBVIOUS
    <2>2. mine \in ContractorRow /\ mine.live = row.live
        BY <2>1 DEF ContractorRow
    <2> QED
        BY <2>1, <2>2
<1>7. /\ contractors' \in Seq(ContractorRow) /\ DOMAIN contractors' = DOMAIN contractors
      /\ contractors'[copy.id] = mine
      /\ \A i \in DOMAIN contractors : i # copy.id => contractors'[i] = contractors[i]
    BY <1>1, <1>3, <1>5, <1>6, Replaced
<1>8. \A i \in DOMAIN contractors :
          contractors[i].live => contractors'[i].live \/ ~Referenced(i)
    BY <1>4, <1>6, <1>7
<1>9. TablesOK' /\ Grows
    BY <1>1, <1>2, <1>7, <1>8, ContractorsStep
<1>10. ImportsOK' /\ ClerksOK'
    BY <1>1, <1>2, <1>9, ImportsStay, AnsweredOK
<1>11. NotesOK'
    BY <1>1, <1>2, EditOK DEF NotesOK
<1> QED
    BY <1>9, <1>10, <1>11 DEF Types

LEMMA DeleteContractorType ==
    ASSUME Types, DeleteContractor
    PROVE  Types'
<1>1. TablesOK /\ ImportsOK /\ ClerksOK /\ NotesOK /\ contractors \in Seq(ContractorRow)
    BY DEF Types, TablesOK
<1>2. Edit /\ UNCHANGED <<works, valuations, importer, clerk, crossed, raced>>
    BY DEF DeleteContractor
<1>3. PICK id \in DOMAIN contractors :
          ~Referenced(id) /\ contractors' = [contractors EXCEPT ![id].live = FALSE]
    BY DEF DeleteContractor
<1>4. PICK row \in ContractorRow : row = contractors[id]
    BY <1>1, <1>3, RowIn
<1>5. PICK mine \in ContractorRow : mine = [row EXCEPT !.live = FALSE]
    BY DEF ContractorRow
<1>6. contractors' = [contractors EXCEPT ![id] = mine]
    BY <1>3, <1>4, <1>5
<1>7. /\ contractors' \in Seq(ContractorRow) /\ DOMAIN contractors' = DOMAIN contractors
      /\ \A i \in DOMAIN contractors : i # id => contractors'[i] = contractors[i]
    BY <1>1, <1>6, Replaced
<1>8. \A i \in DOMAIN contractors :
          contractors[i].live => contractors'[i].live \/ ~Referenced(i)
    BY <1>3, <1>7
<1>9. TablesOK' /\ Grows
    BY <1>1, <1>2, <1>7, <1>8, ContractorsStep
<1>10. ImportsOK' /\ ClerksOK'
    BY <1>1, <1>2, <1>9, ImportsStay, ClerksStay
<1>11. NotesOK'
    BY <1>1, <1>2, EditOK DEF NotesOK
<1> QED
    BY <1>9, <1>10, <1>11 DEF Types

LEMMA OpenWorkType ==
    ASSUME Types, NEW k \in Clerks, OpenWork(k)
    PROVE  Types'
<1>1. TablesOK /\ ImportsOK /\ ClerksOK /\ NotesOK /\ works \in Seq(WorkRow)
    BY DEF Types, TablesOK
<1>2. UNCHANGED <<contractors, works, valuations, importer, edits, disturbed, crossed, raced>>
    BY DEF OpenWork
<1>3. PICK w \in LiveWorks :
          clerk' = [clerk EXCEPT ![k] = [op |-> "work", id |-> w, row |-> works[w]]]
    BY DEF OpenWork, ReadsRow
<1>4. PICK row \in WorkRow : row = works[w] /\ row.live /\ w \in DOMAIN works /\ w \in Nat
    BY <1>1, <1>3, RowIn DEF LiveWorks
<1>5. PICK copy : copy = [op |-> "work", id |-> w, row |-> row]
    OBVIOUS
<1>6. copy \in WorkCopy /\ copy.id = w /\ copy.row = row
    BY <1>4, <1>5 DEF WorkCopy
<1>7. TablesOK' /\ Grows
    BY <1>1, <1>2, TablesStay
<1>8. ClerkOK(k)'
    <2>1. clerk'[k] = copy
        BY <1>1, <1>3, <1>4, <1>5 DEF ClerksOK
    <2> QED
        BY <1>2, <1>4, <1>6, <2>1 DEF ClerkOK
<1>9. ClerksOK'
    BY <1>1, <1>3, <1>7, <1>8, ClerksMove
<1>10. ImportsOK' /\ NotesOK'
    BY <1>1, <1>2, <1>7, ImportsStay DEF NotesOK
<1> QED
    BY <1>7, <1>9, <1>10 DEF Types

LEMMA PatchWorkType ==
    ASSUME Types, NEW k \in Clerks, PatchWork(k)
    PROVE  Types'
<1>1. TablesOK /\ ImportsOK /\ ClerksOK /\ NotesOK /\ works \in Seq(WorkRow)
    BY DEF Types, TablesOK
<1>2. /\ clerk[k].op = "work" /\ Edit /\ Answered(k) /\ works[clerk[k].id].live
      /\ UNCHANGED <<contractors, valuations, importer, crossed, raced>>
    BY DEF PatchWork
<1>3. PICK copy \in WorkCopy : copy = clerk[k] /\ copy.id \in DOMAIN works
    BY <1>1, <1>2, CopyType
<1>4. PICK id \in DOMAIN works : id = copy.id
    BY <1>3
<1>5. PICK stored \in WorkRow, row \in WorkRow : stored = works[id] /\ row = copy.row
    <2>1. works[id] \in WorkRow
        BY <1>1, <1>4, RowIn
    <2>2. copy.row \in WorkRow
        BY DEF WorkCopy
    <2> QED
        BY <2>1, <2>2
<1>6. PICK number \in Numbers, name \in SheetNames, link \in Links,
           exec \in TypedExecs \cup {row.exec} :
          /\ Numbered(number) \subseteq {id}
          /\ works' = [works EXCEPT ![id] =
                 [row EXCEPT !.number = number, !.name = name, !.link = link,
                             !.exec = exec, !.report = stored.report]]
    <2>1. clerk[k].id = id /\ clerk[k].row = row /\ works[id] = stored
        BY <1>3, <1>4, <1>5
    <2>2. PICK number \in Numbers, name \in SheetNames, link \in Links,
               exec \in TypedExecs \cup {clerk[k].row.exec} :
            /\ Numbered(number) \subseteq {clerk[k].id}
            /\ works' = [works EXCEPT ![clerk[k].id] =
                   [clerk[k].row EXCEPT !.number = number, !.name = name, !.link = link,
                                        !.exec = exec,
                                        !.report = works[clerk[k].id].report]]
        BY Zenon DEF PatchWork
    <2>3. exec \in TypedExecs \cup {row.exec} /\ Numbered(number) \subseteq {id}
        BY <2>1, <2>2
    <2>4. works' = [works EXCEPT ![id] =
                       [row EXCEPT !.number = number, !.name = name, !.link = link,
                                   !.exec = exec, !.report = stored.report]]
        BY Zenon, <2>1, <2>2
    <2> QED
        BY Zenon, <2>3, <2>4
<1>7. link \in Nat /\ exec \in ExecutionStatuses
    <2>1. link \in Nat
        <3>1. contractors \in Seq(ContractorRow)
            BY <1>1 DEF TablesOK
        <3>2. CASE link = 0
            BY <3>2
        <3>3. CASE link \in DOMAIN contractors
            BY <3>1, <3>3, RowIn
        <3> QED
            BY <1>6, <3>2, <3>3 DEF Links
    <2>2. exec \in ExecutionStatuses
        BY <1>6, TypedExecsAssumption DEF WorkRow
    <2> QED
        BY <2>1, <2>2
<1>8. PICK mine : mine = [row EXCEPT !.number = number, !.name = name, !.link = link,
                                     !.exec = exec, !.report = stored.report]
    OBVIOUS
<1>9. mine \in WorkRow /\ mine.number = number /\ mine.link = link
    BY <1>7, <1>8 DEF WorkRow
<1>10. works' = [works EXCEPT ![id] = mine]
    BY <1>6, <1>8
<1>11. /\ works' \in Seq(WorkRow) /\ DOMAIN works' = DOMAIN works /\ works'[id] = mine
       /\ \A w \in DOMAIN works : w # id => works'[w] = works[w]
    BY <1>1, <1>9, <1>10, Replaced
<1>12. TablesOK' /\ Grows
    <2>1. Linkable(mine.link)
        BY <1>6, <1>9 DEF Linkable
    <2>2. \A w \in LiveWorks : w # id => works[w].number # mine.number
        BY <1>6, <1>9 DEF Numbered
    <2>3. /\ id \in DOMAIN works' /\ DOMAIN works' = DOMAIN works \cup {id}
          /\ UNCHANGED <<contractors, valuations>>
        BY <1>2, <1>11
    <2> QED
        BY <1>1, <1>11, <2>1, <2>2, <2>3, WorksStep
<1>13. ImportsOK' /\ ClerksOK'
    BY <1>1, <1>2, <1>12, ImportsStay, AnsweredOK
<1>14. NotesOK'
    BY <1>1, <1>2, EditOK DEF NotesOK
<1> QED
    BY <1>12, <1>13, <1>14 DEF Types

\* A live contract rewritten with its number and its link, or deleted.
LEMMA WorkRewritten ==
    ASSUME TablesOK, NEW id \in LiveWorks, NEW mine \in WorkRow,
           mine.number = works[id].number, mine.link = works[id].link,
           works' = [works EXCEPT ![id] = mine], UNCHANGED <<contractors, valuations>>
    PROVE  TablesOK' /\ Grows
<1>1. works \in Seq(WorkRow) /\ id \in DOMAIN works
    BY DEF TablesOK, LiveWorks
<1>2. /\ works' \in Seq(WorkRow) /\ DOMAIN works' = DOMAIN works /\ works'[id] = mine
      /\ \A w \in DOMAIN works : w # id => works'[w] = works[w]
    BY <1>1, Replaced
<1>3. works'[id].live =>
          /\ Linkable(works'[id].link)
          /\ \A w \in LiveWorks : w # id => works[w].number # works'[id].number
    BY <1>2 DEF TablesOK
<1>4. id \in DOMAIN works' /\ DOMAIN works' = DOMAIN works \cup {id}
    BY <1>1, <1>2
<1> QED
    BY <1>2, <1>3, <1>4, WorksStep

LEMMA WorkEditType ==
    ASSUME Types, DeleteWork \/ UpsertContractReport \/ DeleteReport
    PROVE  Types'
<1>1. TablesOK /\ ImportsOK /\ ClerksOK /\ NotesOK /\ works \in Seq(WorkRow)
    BY DEF Types, TablesOK
<1>2. Edit /\ UNCHANGED <<contractors, valuations, importer, clerk, crossed, raced>>
    BY DEF DeleteWork, UpsertContractReport, DeleteReport
<1>3. \A w \in LiveWorks : works[w] \in WorkRow
    BY <1>1, RowIn DEF LiveWorks
<1>4. PICK id \in LiveWorks, mine \in WorkRow :
          /\ works' = [works EXCEPT ![id] = mine]
          /\ mine.number = works[id].number /\ mine.link = works[id].link
    <2>1. CASE DeleteWork
        <3>1. PICK w \in LiveWorks :
                  works' = [works EXCEPT ![w] = [@ EXCEPT !.live = FALSE, !.report = NoReport]]
            BY <2>1 DEF DeleteWork
        <3>2. PICK stored \in WorkRow : stored = works[w]
            BY <1>3
        <3>3. PICK mine : mine = [stored EXCEPT !.live = FALSE, !.report = NoReport]
            OBVIOUS
        <3>4. works' = [works EXCEPT ![w] = mine]
            BY <3>1, <3>2, <3>3
        <3>5. mine \in WorkRow /\ mine.number = stored.number /\ mine.link = stored.link
            BY <3>3 DEF WorkRow
        <3> QED
            BY <3>2, <3>4, <3>5
    <2>2. CASE UpsertContractReport \/ DeleteReport
        <3>1. PICK w \in LiveWorks, text \in {NoReport} \cup TypedTexts :
                  works' = [works EXCEPT ![w].report = text]
            BY <2>2 DEF UpsertContractReport, DeleteReport
        <3>2. PICK stored \in WorkRow : stored = works[w]
            BY <1>3
        <3>3. PICK mine : mine = [stored EXCEPT !.report = text]
            OBVIOUS
        <3>4. works' = [works EXCEPT ![w] = mine]
            BY <3>1, <3>2, <3>3
        <3>5. mine \in WorkRow /\ mine.number = stored.number /\ mine.link = stored.link
            BY <3>3 DEF WorkRow
        <3> QED
            BY <3>2, <3>4, <3>5
    <2> QED
        BY <2>1, <2>2
<1>5. TablesOK' /\ Grows
    BY <1>1, <1>2, <1>4, WorkRewritten
<1>6. ImportsOK' /\ ClerksOK'
    BY <1>1, <1>2, <1>5, ImportsStay, ClerksStay
<1>7. NotesOK'
    BY <1>1, <1>2, EditOK DEF NotesOK
<1> QED
    BY <1>5, <1>6, <1>7 DEF Types

\* The invoice of a request, new or rewritten, and one deleted.
InvoiceTyped(name, link, status) ==
    [name |-> name, link |-> link, month |-> "this", figure |-> "person", status |-> status,
     live |-> TRUE, by |-> "person", decided |-> status]

LEMMA CreateValuationStep ==
    ASSUME Types, CreateValuation
    PROVE  \E mine \in ValuationRow :
              /\ valuations' = Append(valuations, mine) /\ Linkable(mine.link)
              /\ mine.live /\ mine.by = "person" /\ mine.status = mine.decided
<1>1. valuations \in Seq(ValuationRow) /\ contractors \in Seq(ContractorRow)
    BY DEF Types, TablesOK
<1>2. PICK name \in InvoiceNames, link \in Links, in \in TypedStatuses \cup {""} :
          valuations' = Append(valuations,
              InvoiceTyped(name, link, ValuationStatusOrDefault(in, "Draft")))
    BY DEF CreateValuation, InvoiceTyped
<1>3. PICK status \in InvoiceStatuses : status = ValuationStatusOrDefault(in, "Draft")
    BY DEF ValuationStatusOrDefault, InvoiceStatuses
<1>4. link \in Nat
    <2>1. CASE link = 0
        BY <2>1
    <2>2. CASE link \in DOMAIN contractors
        BY <1>1, <2>2, RowIn
    <2> QED
        BY <2>1, <2>2 DEF Links
<1>5. PICK mine : mine = InvoiceTyped(name, link, status)
    OBVIOUS
<1>6. /\ mine \in ValuationRow /\ mine.link = link
      /\ mine.live /\ mine.by = "person" /\ mine.status = mine.decided
    BY <1>4, <1>5 DEF InvoiceTyped, ValuationRow
<1> QED
    BY <1>2, <1>3, <1>5, <1>6 DEF Linkable

LEMMA CreateValuationType ==
    ASSUME Types, CreateValuation
    PROVE  Types'
<1>1. TablesOK /\ ImportsOK /\ ClerksOK /\ NotesOK /\ valuations \in Seq(ValuationRow)
    BY DEF Types, TablesOK
<1>2. Edit /\ UNCHANGED <<contractors, works, importer, clerk, crossed, raced>>
    BY DEF CreateValuation
<1>3. PICK mine \in ValuationRow : valuations' = Append(valuations, mine) /\ Linkable(mine.link)
    BY CreateValuationStep
<1>4. PICK v \in Nat : v = Len(valuations) + 1
    BY <1>1, <1>3, Added
<1>5. /\ valuations' \in Seq(ValuationRow) /\ DOMAIN valuations' = DOMAIN valuations \cup {v}
      /\ valuations'[v] = mine
      /\ \A u \in DOMAIN valuations : valuations'[u] = valuations[u]
    BY <1>1, <1>3, <1>4, Added
<1>6. /\ v \in DOMAIN valuations' /\ Linkable(valuations'[v].link)
      /\ \A u \in DOMAIN valuations : u # v => valuations'[u] = valuations[u]
      /\ UNCHANGED <<contractors, works>>
    BY <1>2, <1>3, <1>5
<1>7. TablesOK' /\ Grows
    BY <1>1, <1>5, <1>6, ValuationsStep
<1>8. ImportsOK' /\ ClerksOK'
    BY <1>1, <1>2, <1>7, ImportsStay, ClerksStay
<1>9. NotesOK'
    BY <1>1, <1>2, <1>7, EditOK DEF NotesOK, Grows
<1> QED
    BY <1>7, <1>8, <1>9 DEF Types

LEMMA OpenValuationType ==
    ASSUME Types, NEW k \in Clerks, OpenValuation(k)
    PROVE  Types'
<1>1. TablesOK /\ ImportsOK /\ ClerksOK /\ NotesOK /\ valuations \in Seq(ValuationRow)
    BY DEF Types, TablesOK
<1>2. UNCHANGED <<contractors, works, valuations, importer, edits, disturbed, crossed, raced>>
    BY DEF OpenValuation
<1>3. PICK v \in DOMAIN valuations :
          clerk' = [clerk EXCEPT ![k] =
                       [op |-> "valuation", id |-> v, name |-> valuations[v].name,
                        status |-> valuations[v].status]]
    BY DEF OpenValuation, ReadsRow
<1>4. PICK row \in ValuationRow : row = valuations[v] /\ v \in Nat
    BY <1>1, <1>3, RowIn
<1>5. PICK copy :
          copy = [op |-> "valuation", id |-> v, name |-> row.name, status |-> row.status]
    OBVIOUS
<1>6. copy \in ValuationCopy /\ copy.id = v
    BY <1>4, <1>5 DEF ValuationCopy, ValuationRow
<1>7. TablesOK' /\ Grows
    BY <1>1, <1>2, TablesStay
<1>8. ClerkOK(k)'
    <2>1. clerk'[k] = copy
        BY <1>1, <1>3, <1>4, <1>5 DEF ClerksOK
    <2> QED
        BY <1>2, <1>6, <2>1 DEF ClerkOK
<1>9. ClerksOK'
    BY <1>1, <1>3, <1>7, <1>8, ClerksMove
<1>10. ImportsOK' /\ NotesOK'
    BY <1>1, <1>2, <1>7, ImportsStay DEF NotesOK
<1> QED
    BY <1>7, <1>9, <1>10 DEF Types

\* Rewriting an invoice from a request: what is written, and where.
LEMMA UpdateStep ==
    ASSUME Types, NEW k \in Clerks, UpdateValuation(k)
    PROVE  \E v \in DOMAIN valuations, copy \in ValuationCopy, mine \in ValuationRow :
              /\ copy = clerk[k] /\ v = copy.id /\ valuations[v] \in ValuationRow
              /\ valuations[v].live
              /\ valuations' = [valuations EXCEPT ![v] = mine] /\ Linkable(mine.link)
              /\ mine.live /\ mine.by = valuations[v].by
              /\ \/ mine.status = mine.decided
                 \/ mine.status = copy.status /\ mine.decided = valuations[v].decided
              /\ raced' = IF mine.name = valuations[v].name /\ mine.month = valuations[v].month
                          THEN raced ELSE raced \cup {valuations[v].name, mine.name}
<1>1. valuations \in Seq(ValuationRow) /\ contractors \in Seq(ContractorRow) /\ ClerksOK
    BY DEF Types, TablesOK
<1>2. clerk[k].op = "valuation" /\ valuations[clerk[k].id].live
    BY DEF UpdateValuation
<1>3. PICK copy \in ValuationCopy : copy = clerk[k] /\ copy.id \in DOMAIN valuations
    BY <1>1, <1>2, CopyType
<1>4. PICK v \in DOMAIN valuations : v = copy.id
    BY <1>3
<1>5. PICK stored \in ValuationRow : stored = valuations[v] /\ stored.live
    BY <1>1, <1>2, <1>3, <1>4, RowIn
<1>6. PICK name \in (InvoiceNames \ {""}) \cup {NewName, copy.name}, link \in Links,
           month \in {"this", "other"}, in \in TypedStatuses \cup {""} :
          /\ valuations' = [valuations EXCEPT ![v] =
                 [stored EXCEPT !.name = name, !.link = link, !.month = month,
                           !.figure = "person",
                           !.status = ValuationStatusOrDefault(in, copy.status),
                           !.decided = ValuationStatusOrDefault(in, stored.decided)]]
          /\ raced' = IF name = stored.name /\ month = stored.month THEN raced
                      ELSE raced \cup {stored.name, name}
    <2>1. clerk[k] = copy /\ clerk[k].id = v /\ valuations[v] = stored
        BY <1>3, <1>4, <1>5
    <2>2. PICK name \in (InvoiceNames \ {""}) \cup {NewName, clerk[k].name}, link \in Links,
               month \in {"this", "other"}, in \in TypedStatuses \cup {""} :
              /\ valuations' = [valuations EXCEPT ![clerk[k].id] =
                     [@ EXCEPT !.name = name, !.link = link, !.month = month,
                               !.figure = "person",
                               !.status = ValuationStatusOrDefault(in, clerk[k].status),
                               !.decided = ValuationStatusOrDefault(in, valuations[clerk[k].id].decided)]]
              /\ raced' = IF /\ name = valuations[clerk[k].id].name
                            /\ month = valuations[clerk[k].id].month
                          THEN raced ELSE raced \cup {valuations[clerk[k].id].name, name}
        BY DEF UpdateValuation
    <2>3. valuations' = [valuations EXCEPT ![v] =
             [stored EXCEPT !.name = name, !.link = link, !.month = month,
                       !.figure = "person",
                       !.status = ValuationStatusOrDefault(in, copy.status),
                       !.decided = ValuationStatusOrDefault(in, stored.decided)]]
        BY <2>1, <2>2
    <2>4. raced' = IF name = stored.name /\ month = stored.month THEN raced
                   ELSE raced \cup {stored.name, name}
        BY <2>1, <2>2
    <2> QED
        BY Zenon, <2>1, <2>3, <2>4
<1>7. PICK status \in InvoiceStatuses, decided \in InvoiceStatuses :
          /\ status = ValuationStatusOrDefault(in, copy.status)
          /\ decided = ValuationStatusOrDefault(in, stored.decided)
          /\ status = decided \/ (status = copy.status /\ decided = stored.decided)
    <2>1. copy.status \in InvoiceStatuses /\ stored.decided \in InvoiceStatuses
        BY DEF ValuationCopy, ValuationRow
    <2> QED
        BY <2>1 DEF ValuationStatusOrDefault, InvoiceStatuses
<1>8. link \in Nat /\ name \in InvoiceNames \cup {NewName}
    <2>1. CASE link = 0
        BY <1>1, <1>3, <2>1 DEF ValuationCopy
    <2>2. CASE link \in DOMAIN contractors
        <3>1. link \in Nat
            BY <1>1, <2>2, RowIn
        <3> QED
            BY <3>1 DEF ValuationCopy
    <2> QED
        BY <2>1, <2>2 DEF Links
<1>9. PICK mine : mine = [stored EXCEPT !.name = name, !.link = link, !.month = month,
                                        !.figure = "person", !.status = status, !.decided = decided]
    OBVIOUS
<1>10. /\ mine \in ValuationRow /\ mine.link = link /\ mine.month = month
       /\ mine.name = name /\ mine.live = stored.live /\ mine.by = stored.by
       /\ mine.status = status /\ mine.decided = decided
    BY <1>8, <1>9 DEF ValuationRow
<1>11. Linkable(mine.link)
    BY <1>10 DEF Linkable
<1>12. valuations' = [valuations EXCEPT ![v] = mine]
    BY <1>6, <1>7, <1>9
<1>13. /\ raced' = IF mine.name = valuations[v].name /\ mine.month = valuations[v].month
                   THEN raced ELSE raced \cup {valuations[v].name, mine.name}
       /\ mine.live /\ mine.by = valuations[v].by
       /\ \/ mine.status = mine.decided
          \/ mine.status = copy.status /\ mine.decided = valuations[v].decided
    BY <1>5, <1>6, <1>7, <1>10
<1>14. valuations[v] \in ValuationRow /\ valuations[v].live
    BY <1>5
<1> QED
    BY <1>3, <1>4, <1>10, <1>11, <1>12, <1>13, <1>14

LEMMA UpdateValuationType ==
    ASSUME Types, NEW k \in Clerks, UpdateValuation(k)
    PROVE  Types'
<1>1. TablesOK /\ ImportsOK /\ ClerksOK /\ NotesOK /\ valuations \in Seq(ValuationRow)
    BY DEF Types, TablesOK
<1>2. /\ Edit /\ Answered(k) /\ Overlaps(k, clerk[k].id)
      /\ UNCHANGED <<contractors, works, importer>>
    BY DEF UpdateValuation
<1>3. PICK v \in DOMAIN valuations, mine \in ValuationRow :
          /\ v = clerk[k].id /\ valuations[v] \in ValuationRow
          /\ valuations' = [valuations EXCEPT ![v] = mine] /\ Linkable(mine.link)
          /\ raced' \subseteq raced \cup {valuations[v].name, mine.name}
    BY UpdateStep
<1>4. /\ valuations' \in Seq(ValuationRow) /\ DOMAIN valuations' = DOMAIN valuations
      /\ valuations'[v] = mine
      /\ \A u \in DOMAIN valuations : u # v => valuations'[u] = valuations[u]
    BY <1>1, <1>3, Replaced
<1>5. /\ v \in DOMAIN valuations' /\ DOMAIN valuations' = DOMAIN valuations \cup {v}
      /\ Linkable(valuations'[v].link) /\ UNCHANGED <<contractors, works>>
    BY <1>2, <1>3, <1>4
<1>6. TablesOK' /\ Grows
    BY <1>1, <1>4, <1>5, ValuationsStep
<1>7. ImportsOK' /\ ClerksOK'
    BY <1>1, <1>2, <1>6, ImportsStay, AnsweredOK
<1>8. crossed' \subseteq DOMAIN valuations' /\ raced' \subseteq InvoiceNames \cup {NewName}
    <2>1. crossed' \subseteq crossed \cup {v}
        BY <1>2, <1>3 DEF Overlaps
    <2>2. {valuations[v].name, mine.name} \subseteq InvoiceNames \cup {NewName}
        BY <1>3 DEF ValuationRow
    <2> QED
        BY <1>1, <1>3, <1>4, <2>1, <2>2 DEF NotesOK
<1>9. NotesOK'
    BY <1>1, <1>2, <1>8, EditOK DEF NotesOK
<1> QED
    BY <1>6, <1>7, <1>9 DEF Types

\* A deleted invoice keeps the rest of its row.
LEMMA DeleteValuationStep ==
    ASSUME Types, DeleteValuation
    PROVE  \E v \in DOMAIN valuations, mine \in ValuationRow :
              /\ valuations' = [valuations EXCEPT ![v] = mine]
              /\ valuations[v] \in ValuationRow /\ valuations[v].live /\ ~mine.live
              /\ mine = [valuations[v] EXCEPT !.live = FALSE]
<1>1. valuations \in Seq(ValuationRow)
    BY DEF Types, TablesOK
<1>2. PICK v \in DOMAIN valuations :
          valuations[v].live /\ valuations' = [valuations EXCEPT ![v].live = FALSE]
    BY DEF DeleteValuation
<1>3. PICK stored \in ValuationRow : stored = valuations[v]
    BY <1>1, <1>2, RowIn
<1>4. PICK mine : mine = [stored EXCEPT !.live = FALSE]
    OBVIOUS
<1>5. mine \in ValuationRow /\ ~mine.live
    BY <1>4 DEF ValuationRow
<1>6. valuations' = [valuations EXCEPT ![v] = mine]
    BY <1>2, <1>3, <1>4
<1> QED
    BY <1>2, <1>3, <1>4, <1>5, <1>6

LEMMA DeleteValuationType ==
    ASSUME Types, DeleteValuation
    PROVE  Types'
<1>1. TablesOK /\ ImportsOK /\ ClerksOK /\ NotesOK /\ valuations \in Seq(ValuationRow)
    BY DEF Types, TablesOK
<1>2. Edit /\ UNCHANGED <<contractors, works, importer, clerk, crossed, raced>>
    BY DEF DeleteValuation
<1>3. PICK v \in DOMAIN valuations, mine \in ValuationRow :
          valuations' = [valuations EXCEPT ![v] = mine] /\ ~mine.live
    BY DeleteValuationStep
<1>4. /\ valuations' \in Seq(ValuationRow) /\ DOMAIN valuations' = DOMAIN valuations
      /\ valuations'[v] = mine
      /\ \A u \in DOMAIN valuations : u # v => valuations'[u] = valuations[u]
    BY <1>1, <1>3, Replaced
<1>5. /\ v \in DOMAIN valuations' /\ DOMAIN valuations' = DOMAIN valuations \cup {v}
      /\ (valuations'[v].live => Linkable(valuations'[v].link))
      /\ UNCHANGED <<contractors, works>>
    BY <1>2, <1>3, <1>4
<1>6. TablesOK' /\ Grows
    BY <1>1, <1>4, <1>5, ValuationsStep
<1>7. ImportsOK' /\ ClerksOK'
    BY <1>1, <1>2, <1>6, ImportsStay, ClerksStay
<1>8. NotesOK'
    BY <1>1, <1>2, <1>4, EditOK DEF NotesOK
<1> QED
    BY <1>6, <1>7, <1>8 DEF Types

LEMMA RefuseEditType ==
    ASSUME Types, NEW k \in Clerks, RefuseEdit(k)
    PROVE  Types'
<1>1. TablesOK /\ ImportsOK /\ ClerksOK /\ NotesOK
    BY DEF Types
<1>2. /\ Answered(k)
      /\ UNCHANGED <<contractors, works, valuations, importer, edits, disturbed, crossed, raced>>
    BY DEF RefuseEdit
<1>3. TablesOK' /\ Grows
    BY <1>1, <1>2, TablesStay
<1>4. ImportsOK' /\ ClerksOK'
    BY <1>1, <1>2, <1>3, ImportsStay, AnsweredOK
<1>5. NotesOK'
    BY <1>1, <1>2 DEF NotesOK
<1> QED
    BY <1>3, <1>4, <1>5 DEF Types

LEMMA InitTypes == MonthInit => Types
<1> SUFFICES ASSUME MonthInit
             PROVE  Types
    OBVIOUS
<1>1. /\ contractors = <<>> /\ works = <<>> /\ valuations = <<>>
      /\ importer = [p \in Importers |-> AtRest] /\ clerk = [k \in Clerks |-> FreeClerk]
      /\ edits = 0 /\ disturbed = {} /\ crossed = {} /\ raced = {}
    BY DEF MonthInit
<1>2. TablesOK
    BY <1>1 DEF TablesOK, LiveWorks
<1>3. ASSUME NEW p \in Importers
      PROVE  ImportOK(p)
    <2>1. AtRest \in ImportState /\ Placed(AtRest)
        BY AtRestType
    <2>2. Remembers(AtRest)
        BY DEF Remembers, AtRest, NothingListed
    <2> QED
        BY <1>1, <2>1, <2>2, ImportParts
<1>4. ImportsOK /\ ClerksOK /\ NotesOK
    BY <1>1, <1>3 DEF ImportsOK, ClerksOK, ClerkOK, NotesOK
<1> QED
    BY <1>2, <1>4 DEF Types

LEMMA IdleTypes ==
    ASSUME Types, UNCHANGED monthVars
    PROVE  Types'
<1>1. TablesOK /\ ImportsOK /\ ClerksOK /\ NotesOK
    BY DEF Types
<1>2. UNCHANGED <<contractors, works, valuations, importer, clerk, edits, disturbed, crossed, raced>>
    BY DEF monthVars
<1>3. TablesOK' /\ Grows
    BY <1>1, <1>2, TablesStay
<1>4. ImportsOK' /\ ClerksOK' /\ NotesOK'
    BY <1>1, <1>2, <1>3, ImportsStay, ClerksStay DEF NotesOK
<1> QED
    BY <1>3, <1>4 DEF Types

LEMMA NextTypes ==
    ASSUME Types, MonthNext
    PROVE  Types'
<1>1. ASSUME NEW p \in Importers,
             \/ StartImport(p) \/ EnsureContractor(p) \/ GetWork(p) \/ UpsertWork(p)
             \/ UpsertProgressReport(p) \/ ListValuations(p) \/ SaveValuation(p)
             \/ AbortImport(p) \/ AnswerImport(p)
             \/ EnsureFails(p) \/ ListFails(p) \/ ImportFails(p)
      PROVE  Types'
    BY <1>1, StartImportType, EnsureContractorType, GetWorkType, UpsertWorkType,
       UpsertProgressReportType, ListValuationsType, SaveValuationType, EndImportType,
       EnsureFailsType, ListFailsType
<1>2. ASSUME NEW k \in Clerks,
             \/ OpenContractor(k) \/ PatchContractor(k) \/ OpenWork(k) \/ PatchWork(k)
             \/ OpenValuation(k) \/ UpdateValuation(k) \/ RefuseEdit(k)
      PROVE  Types'
    BY <1>2, OpenContractorType, PatchContractorType, OpenWorkType, PatchWorkType,
       OpenValuationType, UpdateValuationType, RefuseEditType
<1>3. CASE \/ CreateContractor \/ DeleteContractor \/ DeleteWork \/ UpsertContractReport
           \/ DeleteReport \/ CreateValuation \/ DeleteValuation
    BY <1>3, CreateContractorType, DeleteContractorType, WorkEditType, CreateValuationType,
       DeleteValuationType
<1> QED
    BY <1>1, <1>2, <1>3 DEF MonthNext, MonthSteps, MonthFailures

\* Every row an import or a request writes is a row the tables accept: a number has at
\* most one live contract, every reference of a live row resolves to a live contractor,
\* an import is at a row its statement is for, and every id it or a request remembers
\* is that of a row that was once there.
THEOREM MonthTypeCorrect == MonthSpec => []MonthTypeOK
<1>1. MonthInit => Types
    BY InitTypes
<1>2. Types /\ [MonthNext]_monthVars => Types'
    BY NextTypes, IdleTypes
<1>3. Types => MonthTypeOK
    BY TypeParts
<1> QED
    BY <1>1, <1>2, <1>3, PTL DEF MonthSpec

-----------------------------------------------------------------------------
\* How the copies of the valuations agree with the table.
\* A request's copy has the status of the invoice, unless its write overlapped another.
CopiesTrue ==
    \A k \in Clerks :
        clerk[k].op = "valuation" /\ clerk[k].id \notin crossed
            => clerk[k].status = valuations[clerk[k].id].status

\* So has what an import remembers of the invoices it is going to write.
Remaining(own, n) ==
    \E j \in DOMAIN Plan : j >= own.at /\ Plan[j].do = "valuation" /\ Plan[j].name = n

ListingTrue(own) ==
    \A n \in InvoiceNames :
        /\ Remaining(own, n) /\ own.listing[n].id # 0 /\ own.listing[n].id \notin crossed
        => own.listing[n].status = valuations[own.listing[n].id].status

ListingsTrue == \A p \in Active : ListingTrue(importer[p])

StatusInv == Types /\ StatusSurvives /\ CopiesTrue /\ ListingsTrue

\* The invoices of imports under a name, and the rows of the sheet with that name.
Mine(n) == {v \in InvoicesOf(n) : valuations[v].by = "import"}
Rows(n) == {j \in DOMAIN Plan : Plan[j].do = "valuation" /\ Plan[j].name = n}
Done(n, at) == {j \in Rows(n) : j < at}

PastListing(own) == own.at > Len(Tracker) + 1

\* An invoice an import listed under a name keeps that name and its month, unless a user
\* moved or renamed it, which marks the name and the one it has now.
ListedAs(v, n) ==
    /\ valuations[v].name = n \/ {n, valuations[v].name} \subseteq raced
    /\ n \notin raced => valuations[v].month = "this"

ListedHere(own) ==
    \A n \in InvoiceNames : own.listing[n].id # 0 => ListedAs(own.listing[n].id, n)

\* An import that found no invoice under a name accounts for all there are, as long as
\* it has rows of the name before it.
UnlistedName(own, n) ==
    PastListing(own) /\ own.listing[n].id = 0 /\ Remaining(own, n)
        => Cardinality(Mine(n)) <= Cardinality(Done(n, own.at))

Unlisted(own) == \A n \in InvoiceNames \ raced : UnlistedName(own, n)

FewEnough == \A n \in InvoiceNames \ raced : Cardinality(Mine(n)) <= Cardinality(Rows(n))

InvoicesInv ==
    /\ Types /\ FewEnough
    /\ \A p \in Active : ListedHere(importer[p]) /\ Unlisted(importer[p])

-----------------------------------------------------------------------------
\* How one statement of an import moves it: it ends, or keeps its listing and stays at
\* its row or goes to the next one.
Steps(p) ==
    /\ \A q \in Importers \ {p} : importer'[q] = importer[q]
    /\ \/ importer'[p].step = "idle"
       \/ /\ importer[p].step # "idle" /\ importer[p].at \in DOMAIN Plan
          /\ importer'[p].listing = importer[p].listing
          /\ importer'[p].at \in {importer[p].at, importer[p].at + 1}

LEMMA NextRowSteps ==
    ASSUME Types, NEW p \in Importers, importer[p].step \notin {"idle", "done"}, NextRow(p)
    PROVE  Steps(p) /\ importer'[p].at = importer[p].at + 1
<1>1. DOMAIN importer = Importers
    BY DEF Types, ImportsOK
<1>2. PICK own \in ImportState : own = importer[p] /\ own.at \in DOMAIN Plan
    BY HereType
<1>3. PICK next \in ImportState :
          next = Onward(own) /\ next.at = own.at + 1 /\ next.listing = own.listing
    BY <1>2, OnwardType
<1>4. importer' = [importer EXCEPT ![p] = next]
    BY <1>2, <1>3 DEF NextRow, Moved, Onward
<1>5. importer'[p] = next /\ \A q \in Importers \ {p} : importer'[q] = importer[q]
    BY <1>1, <1>4
<1> QED
    BY <1>2, <1>3, <1>5 DEF Steps

LEMMA NextStepSteps ==
    ASSUME Types, NEW p \in Importers, importer[p].step \notin {"idle", "done"},
           NEW next, Moved(p, next),
           next.at = importer[p].at, next.listing = importer[p].listing
    PROVE  Steps(p) /\ importer'[p].at = importer[p].at
<1>1. DOMAIN importer = Importers
    BY DEF Types, ImportsOK
<1>2. importer[p].at \in DOMAIN Plan
    BY HereType
<1>3. importer'[p] = next /\ \A q \in Importers \ {p} : importer'[q] = importer[q]
    BY <1>1 DEF Moved
<1> QED
    BY <1>2, <1>3 DEF Steps

LEMMA EndedSteps ==
    ASSUME Types, NEW p \in Importers, Ended(p)
    PROVE  Steps(p) /\ importer'[p].step = "idle"
<1>1. DOMAIN importer = Importers
    BY DEF Types, ImportsOK
<1>2. importer' = [importer EXCEPT ![p] = AtRest] /\ AtRest.step = "idle"
    BY AtRestType DEF Ended, Moved
<1>3. importer'[p] = AtRest /\ \A q \in Importers \ {p} : importer'[q] = importer[q]
    BY <1>1, <1>2
<1> QED
    BY <1>2, <1>3 DEF Steps

\* The statements of an import that leave the invoices alone, and the listing.
LEMMA WorkSteps ==
    ASSUME Types, NEW p \in Importers,
           \/ EnsureContractor(p) \/ EnsureFails(p) \/ GetWork(p) \/ UpsertWork(p)
           \/ UpsertProgressReport(p) \/ AbortImport(p) \/ ImportFails(p) \/ AnswerImport(p)
    PROVE  /\ Steps(p) /\ UNCHANGED <<valuations, crossed, raced>>
           /\ clerk' = clerk
           /\ \/ importer'[p].step = "idle"
              \/ importer'[p].at = importer[p].at
              \/ importer'[p].at = importer[p].at + 1 /\ Plan[importer[p].at].do = "work"
<1>1. UNCHANGED <<valuations, crossed, raced, clerk>>
    BY DEF EnsureContractor, EnsureFails, GetWork, UpsertWork, UpsertProgressReport, AbortImport,
           ImportFails, AnswerImport
<1>2. CASE AbortImport(p) \/ ImportFails(p) \/ AnswerImport(p)
    <2>1. Ended(p)
        BY <1>2 DEF AbortImport, ImportFails, AnswerImport
    <2> QED
        BY <1>1, <2>1, EndedSteps
<1>3. CASE UpsertProgressReport(p)
    <2>1. importer[p].step = "report" /\ NextRow(p)
        BY <1>3 DEF UpsertProgressReport
    <2>2. Plan[importer[p].at].do = "work"
        BY <2>1, HereType DEF Placed
    <2> QED
        BY <1>1, <2>1, <2>2, NextRowSteps
<1>4. CASE EnsureContractor(p) \/ EnsureFails(p) \/ GetWork(p) \/ UpsertWork(p)
    <2>1. importer[p].step \in {"ensure", "get", "save"}
        BY <1>4 DEF EnsureContractor, EnsureFails, GetWork, UpsertWork
    <2>2. PICK own \in ImportState : own = importer[p]
        BY <2>1, HereType
    <2>3. PICK next : Moved(p, next) /\ next.at = own.at /\ next.listing = own.listing
        <3>1. CASE EnsureContractor(p) \/ EnsureFails(p)
            <4>1. \/ \E step : Moved(p, [own EXCEPT !.step = step])
                  \/ \E step, id : Moved(p, [own EXCEPT !.step = step, !.known[Here(p).name] = id])
                BY <2>2, <3>1 DEF EnsureContractor, EnsureFails, NextStep
            <4>2. ASSUME NEW step, Moved(p, [own EXCEPT !.step = step])
                  PROVE  \E next : Moved(p, next) /\ next.at = own.at /\ next.listing = own.listing
                <5>1. PICK next : next = [own EXCEPT !.step = step]
                    OBVIOUS
                <5>2. next.at = own.at /\ next.listing = own.listing
                    BY <5>1 DEF ImportState
                <5> QED
                    BY <4>2, <5>1, <5>2
            <4>3. ASSUME NEW step, NEW id,
                         Moved(p, [own EXCEPT !.step = step, !.known[Here(p).name] = id])
                  PROVE  \E next : Moved(p, next) /\ next.at = own.at /\ next.listing = own.listing
                <5>1. PICK next : next = [own EXCEPT !.step = step, !.known[Here(p).name] = id]
                    OBVIOUS
                <5>2. next.at = own.at /\ next.listing = own.listing
                    BY <5>1 DEF ImportState
                <5> QED
                    BY <4>3, <5>1, <5>2
            <4> QED
                BY <4>1, <4>2, <4>3
        <3>2. CASE GetWork(p) \/ UpsertWork(p)
            <4>1. \E step, found : Moved(p, [own EXCEPT !.step = step, !.found = found])
                BY <2>2, <3>2 DEF GetWork, UpsertWork
            <4>2. PICK step, found : Moved(p, [own EXCEPT !.step = step, !.found = found])
                BY <4>1
            <4>3. PICK next : next = [own EXCEPT !.step = step, !.found = found]
                OBVIOUS
            <4>4. next.at = own.at /\ next.listing = own.listing
                BY <4>3 DEF ImportState
            <4> QED
                BY <4>2, <4>3, <4>4
        <3> QED
            BY <1>4, <3>1, <3>2
    <2>4. Steps(p) /\ importer'[p].at = importer[p].at
        BY <2>1, <2>2, <2>3, NextStepSteps
    <2> QED
        BY <1>1, <2>4
<1> QED
    BY <1>2, <1>3, <1>4

-----------------------------------------------------------------------------
\* Writes that change no status but that of invoices written over a copy.
KeepsStatus ==
    /\ crossed \subseteq crossed'
    /\ \A v \in DOMAIN valuations \ crossed' : valuations'[v].status = valuations[v].status

LEMMA ListingKept ==
    ASSUME KeepsStatus, NEW own, NEW next, Remembers(own), ListingTrue(own),
           next.listing = own.listing, own.at \in Nat, next.at \in Nat, next.at >= own.at
    PROVE  ListingTrue(next)'
<1> SUFFICES ASSUME NEW n \in InvoiceNames, Remaining(next, n),
                    next.listing[n].id # 0, next.listing[n].id \notin crossed'
             PROVE  next.listing[n].status = valuations'[next.listing[n].id].status
    BY DEF ListingTrue, Remaining
<1>1. Remaining(own, n)
    <2>1. PICK j \in DOMAIN Plan : j >= next.at /\ Plan[j].do = "valuation" /\ Plan[j].name = n
        BY DEF Remaining
    <2>2. j \in Nat
        BY PlanParts
    <2>3. j >= own.at
        BY <2>1, <2>2
    <2> QED
        BY <2>1, <2>3 DEF Remaining
<1>2. PICK v : v = own.listing[n].id
    OBVIOUS
<1>3. v # 0 /\ v \notin crossed' /\ v \in DOMAIN valuations /\ v \notin crossed
    BY <1>2 DEF Remembers, KeepsStatus
<1>4. own.listing[n].status = valuations[v].status
    BY <1>1, <1>2, <1>3 DEF ListingTrue
<1>5. valuations'[v].status = valuations[v].status
    BY <1>3 DEF KeepsStatus
<1> QED
    BY <1>2, <1>4, <1>5

LEMMA ListingsStay ==
    ASSUME Types, ListingsTrue, KeepsStatus, NEW q \in Importers, q \in Active' => q \in Active,
           importer'[q] = importer[q]
    PROVE  q \in Active' => ListingTrue(importer[q])'
<1> SUFFICES ASSUME q \in Active
             PROVE  ListingTrue(importer[q])'
    OBVIOUS
<1>1. PICK own \in ImportState : own = importer[q] /\ Remembers(own)
    BY ImportParts DEF Types, ImportsOK
<1>2. own.at \in Nat /\ own.at >= own.at
    BY DEF ImportState
<1>3. ListingTrue(own)
    BY <1>1 DEF ListingsTrue
<1>4. ListingTrue(own)'
    BY <1>1, <1>2, <1>3, ListingKept
<1> QED
    BY <1>1, <1>4

LEMMA ListingsSame ==
    ASSUME Types, ListingsTrue, KeepsStatus, UNCHANGED importer
    PROVE  ListingsTrue'
<1>1. Active' = Active /\ Active \subseteq Importers
    BY DEF Active
<1> QED
    BY <1>1, ListingsStay DEF ListingsTrue

LEMMA ListingsMove ==
    ASSUME Types, ListingsTrue, KeepsStatus, NEW p \in Importers, Steps(p), ImportsOK'
    PROVE  ListingsTrue'
<1>1. ASSUME NEW q \in Active', q # p
      PROVE  ListingTrue(importer[q])'
    BY <1>1, ListingsStay DEF Active, Steps
<1>2. ASSUME p \in Active'
      PROVE  ListingTrue(importer[p])'
    <2>1. PICK own \in ImportState : own = importer[p] /\ Remembers(own)
        BY ImportParts DEF Types, ImportsOK
    <2>2. PICK next \in ImportState : next = importer'[p]
        BY DEF ImportsOK, ImportOK
    <2>3. own.step # "idle" /\ next.listing = own.listing /\ next.at \in {own.at, own.at + 1}
        BY <1>2, <2>1, <2>2 DEF Active, Steps
    <2>4. own.at \in Nat /\ next.at \in Nat /\ next.at >= own.at
        BY <2>3 DEF ImportState
    <2>5. ListingTrue(own)
        BY <2>1, <2>3 DEF ListingsTrue, Active
    <2>6. ListingTrue(next)'
        BY <2>1, <2>3, <2>4, <2>5, ListingKept
    <2> QED
        BY <2>2, <2>6
<1> QED
    BY <1>1, <1>2 DEF ListingsTrue

LEMMA CopiesStay ==
    ASSUME Types, CopiesTrue, KeepsStatus, NEW k \in Clerks, clerk'[k] = clerk[k],
           clerk'[k].op = "valuation", clerk'[k].id \notin crossed'
    PROVE  clerk'[k].status = valuations'[clerk'[k].id].status
<1>1. clerk[k].id \in DOMAIN valuations
    BY CopyType DEF Types
<1>2. clerk[k].id \notin crossed
    BY DEF KeepsStatus
<1>3. clerk[k].status = valuations[clerk[k].id].status
    BY <1>2 DEF CopiesTrue
<1> QED
    BY <1>1, <1>3 DEF KeepsStatus

LEMMA CopiesSame ==
    ASSUME Types, CopiesTrue, KeepsStatus, UNCHANGED clerk
    PROVE  CopiesTrue'
BY CopiesStay DEF CopiesTrue

\* Every action that touches no invoice.
LEMMA QuietStatus ==
    ASSUME StatusInv, UNCHANGED <<valuations, crossed>>
    PROVE  KeepsStatus /\ StatusSurvives' /\ (UNCHANGED clerk => CopiesTrue')
           /\ (UNCHANGED importer => ListingsTrue')
<1>1. KeepsStatus
    BY DEF KeepsStatus
<1>2. StatusSurvives'
    BY DEF StatusSurvives, StatusInv
<1> QED
    BY <1>1, <1>2, CopiesSame, ListingsSame DEF StatusInv

LEMMA WorkStatus ==
    ASSUME StatusInv, NEW p \in Importers, Types',
           \/ EnsureContractor(p) \/ EnsureFails(p) \/ GetWork(p) \/ UpsertWork(p)
           \/ UpsertProgressReport(p) \/ AbortImport(p) \/ ImportFails(p) \/ AnswerImport(p)
    PROVE  StatusInv'
<1>1. Types /\ ListingsTrue
    BY DEF StatusInv
<1>2. Steps(p) /\ UNCHANGED <<valuations, crossed>> /\ UNCHANGED clerk
    BY <1>1, WorkSteps
<1>3. KeepsStatus /\ StatusSurvives' /\ CopiesTrue'
    BY <1>2, QuietStatus
<1>4. ListingsTrue'
    <2>1. ImportsOK'
        BY DEF Types
    <2> QED
        BY <1>1, <1>2, <1>3, <2>1, ListingsMove
<1> QED
    BY <1>3, <1>4 DEF StatusInv

LEMMA ListFailsSteps ==
    ASSUME Types, NEW p \in Importers, ListFails(p)
    PROVE  Steps(p) /\ raced' = raced \cup InvoiceNames /\ UNCHANGED <<valuations, crossed, clerk>>
<1>1. importer[p].step = "list" /\ NextRow(p)
    BY DEF ListFails
<1>2. Steps(p)
    BY <1>1, NextRowSteps
<1> QED
    BY <1>2 DEF ListFails

LEMMA ListFailsStatus ==
    ASSUME StatusInv, NEW p \in Importers, Types', ListFails(p)
    PROVE  StatusInv'
<1>1. Types /\ ListingsTrue
    BY DEF StatusInv
<1>2. Steps(p) /\ UNCHANGED <<valuations, crossed>> /\ UNCHANGED clerk
    BY <1>1, ListFailsSteps
<1>3. KeepsStatus /\ StatusSurvives' /\ CopiesTrue'
    BY <1>2, QuietStatus
<1>4. ListingsTrue'
    <2>1. ImportsOK'
        BY DEF Types
    <2> QED
        BY <1>1, <1>2, <1>3, <2>1, ListingsMove
<1> QED
    BY <1>3, <1>4 DEF StatusInv

\* An import that starts remembers no invoice.
LEMMA StartSteps ==
    ASSUME Types, NEW p \in Importers, StartImport(p)
    PROVE  /\ \A q \in Importers \ {p} : importer'[q] = importer[q]
           /\ importer'[p].at = 1
           /\ \A n \in InvoiceNames : importer'[p].listing[n].id = 0
           /\ UNCHANGED <<valuations, crossed, raced, clerk>>
<1>1. DOMAIN importer = Importers
    BY DEF Types, ImportsOK
<1>2. PICK next : next = [AtRest EXCEPT !.at = 1, !.step = StepOf(1)]
    OBVIOUS
<1>3. next.at = 1 /\ next.listing = AtRest.listing
    BY <1>2, AtRestType DEF ImportState
<1>4. \A n \in InvoiceNames : next.listing[n].id = 0
    BY <1>3, AtRestType
<1>5. importer' = [importer EXCEPT ![p] = next]
    BY <1>2 DEF StartImport, Moved
<1>6. importer'[p] = next /\ \A q \in Importers \ {p} : importer'[q] = importer[q]
    BY <1>1, <1>5
<1>7. UNCHANGED <<valuations, crossed, raced, clerk>>
    BY DEF StartImport
<1> QED
    BY <1>3, <1>4, <1>6, <1>7

LEMMA StartStatus ==
    ASSUME StatusInv, NEW p \in Importers, StartImport(p), Types'
    PROVE  StatusInv'
<1>1. Types /\ ListingsTrue
    BY DEF StatusInv
<1>2. /\ \A q \in Importers \ {p} : importer'[q] = importer[q]
      /\ \A n \in InvoiceNames : importer'[p].listing[n].id = 0
      /\ UNCHANGED <<valuations, crossed>> /\ UNCHANGED clerk
    BY <1>1, StartSteps
<1>3. KeepsStatus /\ StatusSurvives' /\ CopiesTrue'
    BY <1>2, QuietStatus
<1>4. ASSUME NEW q \in Active'
      PROVE  ListingTrue(importer[q])'
    <2>1. CASE q = p
        BY <1>2, <2>1 DEF ListingTrue
    <2>2. CASE q # p
        BY <1>1, <1>2, <1>3, <1>4, <2>2, ListingsStay DEF Active
    <2> QED
        BY <2>1, <2>2
<1> QED
    BY <1>3, <1>4 DEF StatusInv, ListingsTrue

\* The listing is read in one statement, so it has the statuses of the table.
LEMMA ListStatus ==
    ASSUME StatusInv, NEW p \in Importers, ListValuations(p), Types'
    PROVE  StatusInv'
<1>1. Types /\ ListingsTrue /\ DOMAIN importer = Importers
    BY DEF StatusInv, Types, ImportsOK
<1>2. UNCHANGED <<valuations, crossed>> /\ UNCHANGED clerk
    BY DEF ListValuations
<1>3. KeepsStatus /\ StatusSurvives' /\ CopiesTrue'
    BY <1>2, QuietStatus
<1>4. PICK next \in ImportState :
          Moved(p, next) /\ \A n \in InvoiceNames : ListingOf(next.listing[n], n)
    BY <1>1, ListStepState
<1>5. importer'[p] = next /\ \A q \in Importers \ {p} : importer'[q] = importer[q]
    BY <1>1, <1>4 DEF Moved
<1>6. \A n \in InvoiceNames : next.listing[n].id # 0 =>
          next.listing[n].status = valuations[next.listing[n].id].status
    BY <1>4, ListedRow
<1>7. ListingTrue(next)'
    BY <1>2, <1>6 DEF ListingTrue
<1>8. ASSUME NEW q \in Active'
      PROVE  ListingTrue(importer[q])'
    <2>1. CASE q = p
        BY <1>5, <1>7, <2>1
    <2>2. CASE q # p
        BY <1>1, <1>3, <1>5, <1>8, <2>2, ListingsStay DEF Active
    <2> QED
        BY <2>1, <2>2
<1> QED
    BY <1>3, <1>8 DEF StatusInv, ListingsTrue

\* An invoice an import saves from its listing keeps its status, if no copy was stale.
LEMMA SaveStatus ==
    ASSUME StatusInv, NEW p \in Importers, SaveValuation(p), Types'
    PROVE  StatusInv'
<1>1. Types /\ ListingsTrue /\ StatusSurvives /\ valuations \in Seq(ValuationRow)
    BY DEF StatusInv, Types, TablesOK
<1>2. UNCHANGED clerk
    BY DEF SaveValuation
<1>3. PICK own \in ImportState, name \in InvoiceNames, link \in Nat :
          /\ own = importer[p] /\ own.at \in DOMAIN Plan
          /\ Plan[own.at].do = "valuation" /\ name = Plan[own.at].name
          /\ own.step = "save" /\ NextRow(p)
          /\ own.listing[name] \in [id : Nat, status : InvoiceStatuses]
          /\ SavesListed(p, own, name, link) \/ SavesNew(p, own, name, link)
    BY <1>1, SaveStep
<1>4. Steps(p)
    BY <1>1, <1>3, NextRowSteps
<1>5. crossed \subseteq crossed'
    BY <1>3 DEF SavesListed, SavesNew, Overlaps
<1>6. ASSUME SavesListed(p, own, name, link)
      PROVE  KeepsStatus /\ StatusSurvives'
    <2>1. PICK v \in DOMAIN valuations, stored \in ValuationRow :
              /\ v = own.listing[name].id /\ stored = valuations[v] /\ stored.live
              /\ valuations' = [valuations EXCEPT ![v] =
                     InvoiceRewritten(stored, name, link, own.listing[name].status)]
        BY <1>6 DEF SavesListed
    <2>2. PICK mine \in ValuationRow :
              /\ mine = InvoiceRewritten(stored, name, link, own.listing[name].status)
              /\ mine.status = own.listing[name].status /\ mine.decided = stored.decided
        <3>1. PICK status \in InvoiceStatuses : status = own.listing[name].status
            BY <1>3
        <3>2. PICK mine : mine = InvoiceRewritten(stored, name, link, status)
            OBVIOUS
        <3>3. mine \in ValuationRow /\ mine.status = status /\ mine.decided = stored.decided
            BY <3>2, InvoiceRows
        <3> QED
            BY <3>1, <3>2, <3>3
    <2>3. /\ DOMAIN valuations' = DOMAIN valuations /\ valuations'[v] = mine
          /\ \A u \in DOMAIN valuations : u # v => valuations'[u] = valuations[u]
        BY <1>1, <2>1, <2>2, Replaced
    <2>4. v \notin crossed => mine.status = stored.status
        <3>1. Remaining(own, name) /\ p \in Active
            <4>1. own.at \in Nat
                BY DEF ImportState
            <4> QED
                BY <1>3, <4>1 DEF Remaining, Active
        <3>2. v # 0
            BY <1>1, <2>1, RowIn
        <3> QED
            BY <1>1, <1>3, <2>1, <2>2, <3>1, <3>2 DEF ListingsTrue, ListingTrue
    <2>5. KeepsStatus
        BY <1>5, <2>1, <2>3, <2>4 DEF KeepsStatus
    <2>6. StatusSurvives'
        <3> SUFFICES ASSUME NEW u \in DOMAIN valuations', u \notin crossed', valuations'[u].live
                     PROVE  valuations'[u].status = valuations'[u].decided
            BY DEF StatusSurvives
        <3>1. u \in DOMAIN valuations /\ u \notin crossed
            BY <1>5, <2>3
        <3>2. CASE u = v
            <4>1. stored.status = stored.decided
                BY <1>1, <2>1, <3>1, <3>2 DEF StatusSurvives
            <4> QED
                BY <2>2, <2>3, <2>4, <3>1, <3>2, <4>1
        <3>3. CASE u # v
            BY <1>1, <2>3, <3>1, <3>3 DEF StatusSurvives
        <3> QED
            BY <3>2, <3>3
    <2> QED
        BY <2>5, <2>6
<1>7. ASSUME SavesNew(p, own, name, link)
      PROVE  KeepsStatus /\ StatusSurvives'
    <2>1. PICK mine \in ValuationRow : mine = InvoiceNew(name, link) /\ mine.status = mine.decided
        BY InvoiceRows
    <2>2. PICK v \in Nat : v = Len(valuations) + 1
        BY <1>1, <2>1, Added
    <2>3. /\ DOMAIN valuations' = DOMAIN valuations \cup {v} /\ valuations'[v] = mine
          /\ \A u \in DOMAIN valuations : valuations'[u] = valuations[u]
        BY <1>1, <1>7, <2>1, <2>2, Added DEF SavesNew
    <2>4. UNCHANGED crossed
        BY <1>7 DEF SavesNew
    <2>5. KeepsStatus
        BY <2>3, <2>4 DEF KeepsStatus
    <2>6. StatusSurvives'
        BY <1>1, <2>1, <2>3, <2>4 DEF StatusSurvives
    <2> QED
        BY <2>5, <2>6
<1>8. KeepsStatus /\ StatusSurvives'
    BY <1>3, <1>6, <1>7
<1>9. CopiesTrue'
    BY <1>1, <1>2, <1>8, CopiesSame DEF StatusInv
<1>10. ListingsTrue'
    <2>1. ImportsOK'
        BY DEF Types
    <2> QED
        BY <1>1, <1>4, <1>8, <2>1, ListingsMove
<1> QED
    BY <1>8, <1>9, <1>10 DEF StatusInv

\* A request reads an invoice in one statement.
LEMMA OpenStatus ==
    ASSUME StatusInv, NEW k \in Clerks, Types',
           OpenContractor(k) \/ OpenWork(k) \/ OpenValuation(k)
    PROVE  StatusInv'
<1>1. Types /\ CopiesTrue /\ DOMAIN clerk = Clerks
    BY DEF StatusInv, Types, ClerksOK
<1>2. UNCHANGED <<valuations, crossed>> /\ UNCHANGED importer
    BY DEF OpenContractor, OpenWork, OpenValuation
<1>3. KeepsStatus /\ StatusSurvives' /\ ListingsTrue'
    BY <1>2, QuietStatus
<1>4. PICK row : clerk' = [clerk EXCEPT ![k] = row]
    BY DEF OpenContractor, OpenWork, OpenValuation, ReadsRow
<1>5. clerk'[k] = row /\ \A j \in Clerks \ {k} : clerk'[j] = clerk[j]
    BY <1>1, <1>4
<1>6. row.op = "valuation" => row.status = valuations[row.id].status
    <2>1. CASE OpenValuation(k)
        <3>1. PICK v \in DOMAIN valuations :
                  clerk' = [clerk EXCEPT ![k] =
                               [op |-> "valuation", id |-> v, name |-> valuations[v].name,
                                status |-> valuations[v].status]]
            BY <2>1 DEF OpenValuation, ReadsRow
        <3>2. row = [op |-> "valuation", id |-> v, name |-> valuations[v].name,
                     status |-> valuations[v].status]
            BY <1>1, <1>5, <3>1
        <3> QED
            BY <3>2
    <2>2. CASE OpenContractor(k)
        <3>1. PICK i \in DOMAIN contractors :
                  clerk' = [clerk EXCEPT ![k] =
                               [op |-> "contractor", id |-> i, name |-> contractors[i].name]]
            BY <2>2 DEF OpenContractor, ReadsRow
        <3>2. row = [op |-> "contractor", id |-> i, name |-> contractors[i].name]
            BY <1>1, <1>5, <3>1
        <3> QED
            BY <3>2
    <2>3. CASE OpenWork(k)
        <3>1. PICK w \in LiveWorks :
                  clerk' = [clerk EXCEPT ![k] = [op |-> "work", id |-> w, row |-> works[w]]]
            BY <2>3 DEF OpenWork, ReadsRow
        <3>2. row = [op |-> "work", id |-> w, row |-> works[w]]
            BY <1>1, <1>5, <3>1
        <3> QED
            BY <3>2
    <2> QED
        BY <2>1, <2>2, <2>3
<1>7. ASSUME NEW j \in Clerks, clerk'[j].op = "valuation", clerk'[j].id \notin crossed'
      PROVE  clerk'[j].status = valuations'[clerk'[j].id].status
    <2>1. CASE j = k
        BY <1>2, <1>5, <1>6, <1>7, <2>1
    <2>2. CASE j # k
        BY <1>1, <1>3, <1>5, <1>7, <2>2, CopiesStay
    <2> QED
        BY <2>1, <2>2
<1> QED
    BY <1>3, <1>7 DEF StatusInv, CopiesTrue

LEMMA AnsweredCopies ==
    ASSUME Types, CopiesTrue, KeepsStatus, NEW k \in Clerks, Answered(k)
    PROVE  CopiesTrue'
<1>1. DOMAIN clerk = Clerks
    BY DEF Types, ClerksOK
<1>2. clerk'[k] = FreeClerk /\ \A j \in Clerks \ {k} : clerk'[j] = clerk[j]
    BY <1>1 DEF Answered
<1>3. FreeClerk.op = "idle"
    BY DEF FreeClerk
<1>4. ASSUME NEW j \in Clerks, clerk'[j].op = "valuation", clerk'[j].id \notin crossed'
      PROVE  clerk'[j].status = valuations'[clerk'[j].id].status
    <2>1. j # k
        BY <1>2, <1>3, <1>4
    <2> QED
        BY <1>2, <1>4, <2>1, CopiesStay
<1> QED
    BY <1>4 DEF CopiesTrue

\* The requests that write no invoice.
LEMMA EditStatus ==
    ASSUME StatusInv, Types',
           \/ \E k \in Clerks : PatchContractor(k) \/ PatchWork(k) \/ RefuseEdit(k)
           \/ CreateContractor \/ DeleteContractor \/ DeleteWork \/ UpsertContractReport
           \/ DeleteReport
    PROVE  StatusInv'
<1>1. UNCHANGED <<valuations, crossed>> /\ UNCHANGED importer
    BY DEF PatchContractor, PatchWork, RefuseEdit, CreateContractor, DeleteContractor,
           DeleteWork, UpsertContractReport, DeleteReport
<1>2. KeepsStatus /\ StatusSurvives' /\ ListingsTrue'
    BY <1>1, QuietStatus
<1>3. UNCHANGED clerk \/ \E k \in Clerks : Answered(k)
    BY DEF PatchContractor, PatchWork, RefuseEdit, CreateContractor, DeleteContractor,
           DeleteWork, UpsertContractReport, DeleteReport
<1>4. CopiesTrue'
    BY <1>2, <1>3, CopiesSame, AnsweredCopies DEF StatusInv
<1> QED
    BY <1>2, <1>4 DEF StatusInv

LEMMA CreateStatus ==
    ASSUME StatusInv, Types', CreateValuation
    PROVE  StatusInv'
<1>1. Types /\ StatusSurvives /\ valuations \in Seq(ValuationRow)
    BY DEF StatusInv, Types, TablesOK
<1>2. UNCHANGED crossed /\ UNCHANGED importer /\ UNCHANGED clerk
    BY DEF CreateValuation
<1>3. PICK mine \in ValuationRow :
          valuations' = Append(valuations, mine) /\ mine.status = mine.decided
    BY <1>1, CreateValuationStep
<1>4. PICK v \in Nat : v = Len(valuations) + 1
    BY <1>1, <1>3, Added
<1>5. /\ DOMAIN valuations' = DOMAIN valuations \cup {v} /\ valuations'[v] = mine
      /\ \A u \in DOMAIN valuations : valuations'[u] = valuations[u]
    BY <1>1, <1>3, <1>4, Added
<1>6. KeepsStatus
    BY <1>2, <1>5 DEF KeepsStatus
<1>7. StatusSurvives'
    BY <1>1, <1>2, <1>3, <1>5 DEF StatusSurvives
<1> QED
    BY <1>2, <1>6, <1>7, CopiesSame, ListingsSame DEF StatusInv

LEMMA DeleteStatus ==
    ASSUME StatusInv, Types', DeleteValuation
    PROVE  StatusInv'
<1>1. Types /\ StatusSurvives /\ valuations \in Seq(ValuationRow)
    BY DEF StatusInv, Types, TablesOK
<1>2. UNCHANGED crossed /\ UNCHANGED importer /\ UNCHANGED clerk
    BY DEF DeleteValuation
<1>3. PICK v \in DOMAIN valuations, mine \in ValuationRow :
          /\ valuations' = [valuations EXCEPT ![v] = mine]
          /\ valuations[v] \in ValuationRow /\ ~mine.live
          /\ mine = [valuations[v] EXCEPT !.live = FALSE]
    BY <1>1, DeleteValuationStep
<1>4. mine.status = valuations[v].status
    <2>1. PICK stored \in ValuationRow : stored = valuations[v]
        BY <1>3
    <2>2. mine = [stored EXCEPT !.live = FALSE]
        BY <1>3, <2>1
    <2> QED
        BY <2>1, <2>2 DEF ValuationRow
<1>5. /\ DOMAIN valuations' = DOMAIN valuations /\ valuations'[v] = mine
      /\ \A u \in DOMAIN valuations : u # v => valuations'[u] = valuations[u]
    BY <1>1, <1>3, Replaced
<1>6. KeepsStatus
    BY <1>2, <1>4, <1>5 DEF KeepsStatus
<1>7. StatusSurvives'
    BY <1>1, <1>2, <1>3, <1>5 DEF StatusSurvives
<1> QED
    BY <1>2, <1>6, <1>7, CopiesSame, ListingsSame DEF StatusInv

\* A request that rewrites an invoice marks it if another holds a copy.
LEMMA UpdateStatus ==
    ASSUME StatusInv, NEW k \in Clerks, UpdateValuation(k), Types'
    PROVE  StatusInv'
<1>1. /\ Types /\ StatusSurvives /\ CopiesTrue /\ ListingsTrue
      /\ valuations \in Seq(ValuationRow) /\ DOMAIN clerk = Clerks
    BY DEF StatusInv, Types, TablesOK, ClerksOK
<1>2. Answered(k) /\ Overlaps(k, clerk[k].id) /\ UNCHANGED importer /\ clerk[k].op = "valuation"
    BY DEF UpdateValuation
<1>3. PICK v \in DOMAIN valuations, copy \in ValuationCopy, mine \in ValuationRow :
          /\ copy = clerk[k] /\ v = copy.id /\ valuations[v] \in ValuationRow /\ valuations[v].live
          /\ valuations' = [valuations EXCEPT ![v] = mine]
          /\ \/ mine.status = mine.decided
             \/ mine.status = copy.status /\ mine.decided = valuations[v].decided
    BY <1>1, UpdateStep
<1>4. /\ DOMAIN valuations' = DOMAIN valuations /\ valuations'[v] = mine
      /\ \A u \in DOMAIN valuations : u # v => valuations'[u] = valuations[u]
    BY <1>1, <1>3, Replaced
<1>5. /\ crossed \subseteq crossed'
      /\ Copied(k, v) => v \in crossed'
    BY <1>2, <1>3 DEF Overlaps
<1>6. StatusSurvives'
    <2> SUFFICES ASSUME NEW u \in DOMAIN valuations', u \notin crossed', valuations'[u].live
                 PROVE  valuations'[u].status = valuations'[u].decided
        BY DEF StatusSurvives
    <2>1. u \in DOMAIN valuations /\ u \notin crossed
        BY <1>4, <1>5
    <2>2. CASE u = v
        <3>1. valuations[v].status = valuations[v].decided
            BY <1>1, <1>3, <2>1, <2>2 DEF StatusSurvives
        <3>2. copy.status = valuations[v].status
            BY <1>1, <1>2, <1>3, <2>1, <2>2 DEF CopiesTrue
        <3> QED
            BY <1>3, <1>4, <2>2, <3>1, <3>2
    <2>3. CASE u # v
        BY <1>1, <1>4, <2>1, <2>3 DEF StatusSurvives
    <2> QED
        BY <2>2, <2>3
<1>7. CopiesTrue'
    <2> SUFFICES ASSUME NEW j \in Clerks, clerk'[j].op = "valuation", clerk'[j].id \notin crossed'
                 PROVE  clerk'[j].status = valuations'[clerk'[j].id].status
        BY DEF CopiesTrue
    <2>1. clerk'[k] = FreeClerk /\ \A i \in Clerks \ {k} : clerk'[i] = clerk[i]
        BY <1>1, <1>2 DEF Answered
    <2>2. j # k /\ clerk'[j] = clerk[j]
        BY <2>1 DEF FreeClerk
    <2>3. clerk[j].id \in DOMAIN valuations /\ clerk[j].id \notin crossed
        BY <1>1, <1>5, <2>2, CopyType DEF Types
    <2>4. clerk[j].id # v
        BY <1>5, <2>2 DEF Copied
    <2>5. clerk[j].status = valuations[clerk[j].id].status
        BY <1>1, <2>2, <2>3 DEF CopiesTrue
    <2> QED
        BY <1>4, <2>2, <2>3, <2>4, <2>5
<1>8. ASSUME NEW q \in Active'
      PROVE  ListingTrue(importer[q])'
    <2>1. q \in Active /\ q \in Importers /\ q # k
        BY <1>2, <1>8, MonthAssumption DEF Active
    <2>2. PICK own \in ImportState : own = importer[q] /\ own = importer'[q] /\ Remembers(own)
        BY <1>1, <1>2, <2>1, ImportParts DEF Types, ImportsOK
    <2>3. ASSUME NEW n \in InvoiceNames, Remaining(own, n),
                 own.listing[n].id # 0, own.listing[n].id \notin crossed'
          PROVE  own.listing[n].status = valuations'[own.listing[n].id].status
        <3>1. own.listing[n].id \in DOMAIN valuations /\ own.listing[n].id \notin crossed
            BY <1>5, <2>2, <2>3 DEF Remembers
        <3>2. own.listing[n].id # v
            <4>1. PICK j \in DOMAIN Plan :
                      j >= own.at /\ Plan[j].do = "valuation" /\ Plan[j].name = n
                BY <2>3 DEF Remaining
            <4>2. own.listing[n].id = v => Copied(k, v)
                BY <2>1, <2>2, <4>1 DEF Copied
            <4> QED
                BY <1>5, <2>3, <4>2
        <3>3. own.listing[n].status = valuations[own.listing[n].id].status
            BY <1>1, <2>1, <2>2, <2>3, <3>1 DEF ListingsTrue, ListingTrue
        <3> QED
            BY <1>4, <3>1, <3>2, <3>3
    <2>4. ListingTrue(own)'
        BY <2>3 DEF ListingTrue, Remaining
    <2> QED
        BY <2>2, <2>4
<1> QED
    BY <1>6, <1>7, <1>8 DEF StatusInv, ListingsTrue

LEMMA InitStatus == MonthInit => StatusInv
<1> SUFFICES ASSUME MonthInit
             PROVE  StatusInv
    OBVIOUS
<1>1. Types
    BY InitTypes
<1>2. /\ valuations = <<>> /\ importer = [p \in Importers |-> AtRest]
      /\ clerk = [k \in Clerks |-> FreeClerk]
    BY DEF MonthInit
<1>3. StatusSurvives
    BY <1>2 DEF StatusSurvives
<1>4. CopiesTrue
    BY <1>2 DEF CopiesTrue, FreeClerk
<1>5. Active = {}
    BY <1>2, AtRestType DEF Active
<1> QED
    BY <1>1, <1>3, <1>4, <1>5 DEF StatusInv, ListingsTrue

LEMMA NextStatus ==
    ASSUME StatusInv, MonthNext
    PROVE  StatusInv'
<1>1. Types'
    BY NextTypes DEF StatusInv
<1>2. ASSUME NEW p \in Importers,
             \/ StartImport(p) \/ EnsureContractor(p) \/ GetWork(p) \/ UpsertWork(p)
             \/ UpsertProgressReport(p) \/ ListValuations(p) \/ SaveValuation(p)
             \/ AbortImport(p) \/ AnswerImport(p)
             \/ EnsureFails(p) \/ ListFails(p) \/ ImportFails(p)
      PROVE  StatusInv'
    BY <1>1, <1>2, StartStatus, WorkStatus, ListStatus, SaveStatus, ListFailsStatus
<1>3. ASSUME NEW k \in Clerks,
             \/ OpenContractor(k) \/ PatchContractor(k) \/ OpenWork(k) \/ PatchWork(k)
             \/ OpenValuation(k) \/ UpdateValuation(k) \/ RefuseEdit(k)
      PROVE  StatusInv'
    BY <1>1, <1>3, OpenStatus, EditStatus, UpdateStatus
<1>4. CASE \/ CreateContractor \/ DeleteContractor \/ DeleteWork \/ UpsertContractReport
           \/ DeleteReport \/ CreateValuation \/ DeleteValuation
    BY <1>1, <1>4, EditStatus, CreateStatus, DeleteStatus
<1> QED
    BY <1>2, <1>3, <1>4 DEF MonthNext, MonthSteps, MonthFailures

\* The status of an invoice is the one a person decided last, however often, by however
\* many imports at a time, and with whatever failures the workbook is imported over it,
\* unless somebody wrote the invoice between the listing of an import, or the read of
\* a request, and its write.
THEOREM StatusKept == MonthSpec => []StatusSurvives
<1>1. MonthInit => StatusInv
    BY InitStatus
<1>2. StatusInv /\ [MonthNext]_monthVars => StatusInv'
    <2>1. ASSUME StatusInv, UNCHANGED monthVars
          PROVE  StatusInv'
        <3>1. Types' /\ UNCHANGED <<valuations, crossed>> /\ UNCHANGED clerk /\ UNCHANGED importer
            BY <2>1, IdleTypes DEF StatusInv, monthVars
        <3> QED
            BY <2>1, <3>1, QuietStatus DEF StatusInv
    <2> QED
        BY <2>1, NextStatus
<1>3. StatusInv => StatusSurvives
    BY DEF StatusInv
<1> QED
    BY <1>1, <1>2, <1>3, PTL DEF MonthSpec

-----------------------------------------------------------------------------
\* Counting rows and invoices.
LEMMA RowsCounted ==
    ASSUME NEW n
    PROVE  /\ IsFiniteSet(Rows(n)) /\ Cardinality(Rows(n)) \in Nat
           /\ Cardinality(Rows(n)) <= Cardinality({i \in DOMAIN Verified : Verified[i] = n})
<1>1. /\ Len(Tracker) \in Nat /\ Len(Verified) \in Nat
      /\ DOMAIN Plan = 1 .. Len(Plan) /\ Len(Plan) \in Nat
      /\ DOMAIN Verified = 1 .. Len(Verified)
    BY PlanParts, VerifiedType
<1>2. PICK named : named = {i \in DOMAIN Verified : Verified[i] = n}
    OBVIOUS
<1>3. IsFiniteSet(named)
    <2>1. IsFiniteSet(1 .. Len(Verified))
        BY <1>1, FS_Interval
    <2> QED
        BY <1>1, <1>2, <2>1, FS_Subset
<1>4. PICK f : f = [j \in Rows(n) |-> j - Len(Tracker) - 1]
    OBVIOUS
<1>5. \A j \in Rows(n) : j \in Nat /\ j - Len(Tracker) - 1 \in named
    <2> TAKE j \in Rows(n)
    <2>1. /\ j \in DOMAIN Plan /\ Plan[j].do = "valuation" /\ Plan[j].name = n
          /\ j \in Nat
        BY <1>1 DEF Rows
    <2>2. /\ j > Len(Tracker) + 1 /\ j <= Len(Tracker) + 1 + Len(Verified)
          /\ Plan[j].name = Verified[j - Len(Tracker) - 1]
        BY <2>1, PlanParts
    <2>3. j - Len(Tracker) - 1 \in 1 .. Len(Verified)
        BY <1>1, <2>1, <2>2
    <2> QED
        BY <1>1, <1>2, <2>1, <2>2, <2>3
<1>6. f \in [Rows(n) -> named]
    BY <1>4, <1>5
<1>7. \A i, j \in Rows(n) : f[i] = f[j] => i = j
    BY <1>1, <1>4, <1>5
<1>8. f \in Injection(Rows(n), named)
    BY <1>6, <1>7 DEF Injection, IsInjective
<1>9. IsFiniteSet(Rows(n)) /\ Cardinality(Rows(n)) <= Cardinality(named)
    BY <1>3, <1>8, FS_Injection
<1> QED
    BY <1>2, <1>9, FS_CardinalityType

LEMMA DoneCounted ==
    ASSUME NEW n, NEW at \in Nat
    PROVE  /\ Cardinality(Done(n, at)) \in Nat
           /\ Cardinality(Done(n, at)) <= Cardinality(Rows(n))
           /\ Cardinality(Done(n, at)) <= Cardinality(Done(n, at + 1))
           /\ at \in Rows(n) =>
                  Cardinality(Done(n, at + 1)) = Cardinality(Done(n, at)) + 1
           /\ Cardinality(Done(n, at + 1)) <= Cardinality(Rows(n))
<1>1. IsFiniteSet(Rows(n)) /\ DOMAIN Plan = 1 .. Len(Plan) /\ Len(Plan) \in Nat
    BY RowsCounted, PlanParts
<1>2. Done(n, at) \subseteq Rows(n) /\ Done(n, at + 1) \subseteq Rows(n)
    BY DEF Done
<1>3. /\ IsFiniteSet(Done(n, at)) /\ Cardinality(Done(n, at)) <= Cardinality(Rows(n))
      /\ IsFiniteSet(Done(n, at + 1)) /\ Cardinality(Done(n, at + 1)) <= Cardinality(Rows(n))
    BY <1>1, <1>2, FS_Subset
<1>4. Done(n, at) \subseteq Done(n, at + 1)
    BY <1>1 DEF Done, Rows
<1>5. Cardinality(Done(n, at)) <= Cardinality(Done(n, at + 1))
    BY <1>3, <1>4, FS_Subset
<1>6. ASSUME at \in Rows(n)
      PROVE  Cardinality(Done(n, at + 1)) = Cardinality(Done(n, at)) + 1
    <2>1. Done(n, at + 1) = Done(n, at) \cup {at} /\ at \notin Done(n, at)
        BY <1>1, <1>6 DEF Done, Rows
    <2> QED
        BY <1>3, <2>1, FS_AddElement
<1> QED
    BY <1>3, <1>5, <1>6, FS_CardinalityType

\* A set of rows of a table, and one with no more of them.
LEMMA Counted ==
    ASSUME NEW S, NEW s \in Seq(S), NEW M, M \subseteq DOMAIN s
    PROVE  /\ IsFiniteSet(M) /\ Cardinality(M) \in Nat
           /\ \A L : L \subseteq M => Cardinality(L) \in Nat /\ Cardinality(L) <= Cardinality(M)
<1>1. DOMAIN s = 1 .. Len(s) /\ Len(s) \in Nat
    BY LenProperties
<1>2. IsFiniteSet(DOMAIN s)
    BY <1>1, FS_Interval
<1>3. IsFiniteSet(M)
    BY <1>2, FS_Subset
<1>4. ASSUME NEW L, L \subseteq M
      PROVE  Cardinality(L) \in Nat /\ Cardinality(L) <= Cardinality(M)
    <2>1. L \in SUBSET M
        BY <1>4
    <2>2. IsFiniteSet(L) /\ Cardinality(L) <= Cardinality(M)
        BY <1>3, <2>1, FS_Subset
    <2> QED
        BY <2>2, FS_CardinalityType
<1> QED
    BY <1>3, <1>4, FS_CardinalityType

LEMMA MineCounted ==
    ASSUME Types, NEW n
    PROVE  /\ Mine(n) \subseteq DOMAIN valuations
           /\ IsFiniteSet(Mine(n)) /\ Cardinality(Mine(n)) \in Nat
           /\ \A L : L \subseteq Mine(n) =>
                  Cardinality(L) \in Nat /\ Cardinality(L) <= Cardinality(Mine(n))
<1>1. valuations \in Seq(ValuationRow)
    BY DEF Types, TablesOK
<1>2. Mine(n) \subseteq DOMAIN valuations
    BY DEF Mine, InvoicesOf
<1> QED
    BY <1>1, <1>2, Counted

-----------------------------------------------------------------------------
\* Writes under which an invoice keeps its name and its month unless they mark it.
Tame ==
    /\ raced \subseteq raced'
    /\ \A v \in DOMAIN valuations :
          /\ \/ valuations'[v].name = valuations[v].name
             \/ {valuations[v].name, valuations'[v].name} \subseteq raced'
          /\ valuations[v].name \notin raced' /\ valuations[v].month = "this"
                 => valuations'[v].month = "this"

NoneNew == \A n \in InvoiceNames \ raced' : Mine(n)' \subseteq Mine(n)

LEMMA ListedKept ==
    ASSUME Tame, NEW own, NEW next, Remembers(own), ListedHere(own), next.listing = own.listing
    PROVE  ListedHere(next)'
<1> SUFFICES ASSUME NEW n \in InvoiceNames, next.listing[n].id # 0
             PROVE  ListedAs(next.listing[n].id, n)'
    BY DEF ListedHere
<1>1. PICK v : v = own.listing[n].id
    OBVIOUS
<1>2. v \in DOMAIN valuations
    BY <1>1 DEF Remembers
<1>3. /\ valuations[v].name = n \/ {n, valuations[v].name} \subseteq raced
      /\ n \notin raced => valuations[v].month = "this"
    BY <1>1 DEF ListedHere, ListedAs
<1>4. /\ raced \subseteq raced'
      /\ \/ valuations'[v].name = valuations[v].name
         \/ {valuations[v].name, valuations'[v].name} \subseteq raced'
      /\ valuations[v].name \notin raced' /\ valuations[v].month = "this"
             => valuations'[v].month = "this"
    BY <1>2 DEF Tame
<1>5. valuations'[v].name = n \/ {n, valuations'[v].name} \subseteq raced'
    BY <1>3, <1>4
<1>6. ASSUME n \notin raced'
      PROVE  valuations'[v].month = "this"
    BY <1>3, <1>4, <1>6
<1>7. next.listing[n].id = v
    BY <1>1
<1> QED
    BY <1>5, <1>6, <1>7 DEF ListedAs

LEMMA UnlistedKept ==
    ASSUME Types, NEW n, NEW own, NEW next, UnlistedName(own, n), Mine(n)' \subseteq Mine(n),
           next.listing = own.listing, own.at \in Nat,
           \/ next.at = own.at
           \/ next.at = own.at + 1 /\ own.at # Len(Tracker) + 1
    PROVE  UnlistedName(next, n)'
<1> SUFFICES ASSUME PastListing(next), next.listing[n].id = 0, Remaining(next, n)
             PROVE  Cardinality(Mine(n)') <= Cardinality(Done(n, next.at))
    BY DEF UnlistedName, PastListing, Remaining, Done, Rows
<1>1. Remaining(own, n)
    <2>1. PICK j \in DOMAIN Plan : j >= next.at /\ Plan[j].do = "valuation" /\ Plan[j].name = n
        BY DEF Remaining
    <2>2. j \in Nat
        BY PlanParts
    <2>3. j >= own.at
        BY <2>1, <2>2
    <2> QED
        BY <2>1, <2>3 DEF Remaining
<1>2. PastListing(own)
    <2>1. Len(Tracker) \in Nat
        BY PlanParts
    <2> QED
        BY <2>1 DEF PastListing
<1>3. Cardinality(Mine(n)) <= Cardinality(Done(n, own.at))
    BY <1>1, <1>2 DEF UnlistedName
<1>4. PICK after : after = Mine(n)'
    OBVIOUS
<1>5. /\ Cardinality(after) \in Nat /\ Cardinality(Mine(n)) \in Nat
      /\ Cardinality(after) <= Cardinality(Mine(n))
    BY <1>4, MineCounted
<1>6. /\ Cardinality(Done(n, own.at)) \in Nat /\ Cardinality(Done(n, next.at)) \in Nat
      /\ Cardinality(Done(n, own.at)) <= Cardinality(Done(n, next.at))
    <2>1. own.at + 1 \in Nat
        OBVIOUS
    <2> QED
        BY <2>1, DoneCounted
<1> QED
    BY <1>3, <1>4, <1>5, <1>6

LEMMA FewEnoughKept ==
    ASSUME Types, FewEnough, raced \subseteq raced', NoneNew
    PROVE  FewEnough'
<1> SUFFICES ASSUME NEW n \in InvoiceNames \ raced'
             PROVE  Cardinality(Mine(n)') <= Cardinality(Rows(n))
    BY DEF FewEnough, Rows
<1>1. Cardinality(Mine(n)) <= Cardinality(Rows(n))
    BY DEF FewEnough
<1>2. PICK after : after = Mine(n)'
    OBVIOUS
<1>3. /\ Cardinality(after) \in Nat /\ Cardinality(Mine(n)) \in Nat
      /\ Cardinality(after) <= Cardinality(Mine(n))
    BY <1>2, MineCounted DEF NoneNew
<1>4. Cardinality(Rows(n)) \in Nat
    BY RowsCounted
<1> QED
    BY <1>1, <1>2, <1>3, <1>4

-----------------------------------------------------------------------------
\* What the imports in service remember, when one moves or none does.
Listings(q) == ListedHere(importer[q]) /\ Unlisted(importer[q])

LEMMA OthersKeep ==
    ASSUME InvoicesInv, Tame, NEW q \in Active, importer'[q] = importer[q],
           \A n \in InvoiceNames \ raced' :
               Mine(n)' \subseteq Mine(n)
               \/ (PastListing(importer[q]) /\ importer[q].listing[n].id = 0
                   => ~Remaining(importer[q], n))
    PROVE  Listings(q)'
<1>1. Types /\ Listings(q) /\ q \in Importers
    BY DEF InvoicesInv, Listings, Active
<1>2. PICK own \in ImportState : own = importer[q] /\ Remembers(own) /\ own = importer'[q]
    BY <1>1, ImportParts DEF Types, ImportsOK
<1>3. ListedHere(own)'
    BY <1>1, <1>2, ListedKept DEF Listings
<1>4. ASSUME NEW n \in InvoiceNames \ raced'
      PROVE  UnlistedName(own, n)'
    <2>1. CASE Mine(n)' \subseteq Mine(n)
        <3>1. UnlistedName(own, n)
            BY <1>1, <1>2, <1>4 DEF Listings, Unlisted, Tame
        <3>2. own.at \in Nat
            BY DEF ImportState
        <3> QED
            BY <1>1, <2>1, <3>1, <3>2, UnlistedKept
    <2>2. CASE PastListing(own) /\ own.listing[n].id = 0 => ~Remaining(own, n)
        BY <2>2 DEF UnlistedName, PastListing, Remaining
    <2> QED
        BY <1>2, <1>4, <2>1, <2>2
<1>5. Unlisted(own)'
    BY <1>4 DEF Unlisted
<1> QED
    BY <1>2, <1>3, <1>5 DEF Listings

\* An import that moves on, from a row that is not the listing.
LEMMA MoverKeeps ==
    ASSUME InvoicesInv, Types', Tame, NoneNew, NEW p \in Active, p \in Active', Steps(p),
           importer'[p].at = importer[p].at \/ Plan[importer[p].at].do # "list"
    PROVE  Listings(p)'
<1>1. Types /\ Listings(p) /\ p \in Importers
    BY DEF InvoicesInv, Listings, Active
<1>2. PICK own \in ImportState : own = importer[p] /\ Remembers(own)
    BY <1>1, ImportParts DEF Types, ImportsOK
<1>3. PICK next : next = importer'[p]
    OBVIOUS
<1>4. /\ next.listing = own.listing /\ own.at \in DOMAIN Plan
      /\ next.at \in {own.at, own.at + 1}
    BY <1>2, <1>3 DEF Active, Steps
<1>5. next.at = own.at \/ (next.at = own.at + 1 /\ own.at # Len(Tracker) + 1)
    <2>1. own.at = Len(Tracker) + 1 => Plan[own.at].do = "list"
        BY <1>4, PlanParts
    <2> QED
        BY <1>2, <1>3, <1>4, <2>1
<1>6. ListedHere(next)'
    BY <1>1, <1>2, <1>4, ListedKept DEF Listings
<1>7. ASSUME NEW n \in InvoiceNames \ raced'
      PROVE  UnlistedName(next, n)'
    <2>1. UnlistedName(own, n)
        BY <1>1, <1>2, <1>7 DEF Listings, Unlisted, Tame
    <2>2. own.at \in Nat
        BY DEF ImportState
    <2>3. Mine(n)' \subseteq Mine(n)
        BY <1>7 DEF NoneNew
    <2> QED
        BY <1>1, <1>4, <1>5, <2>1, <2>2, <2>3, UnlistedKept
<1>8. Unlisted(next)'
    BY <1>7 DEF Unlisted
<1> QED
    BY <1>3, <1>6, <1>8 DEF Listings

LEMMA InvoicesMove ==
    ASSUME InvoicesInv, Types', Tame, NoneNew, NEW p \in Importers, Steps(p),
           \/ importer'[p].step = "idle"
           \/ importer'[p].at = importer[p].at
           \/ Plan[importer[p].at].do # "list"
    PROVE  InvoicesInv'
<1>1. FewEnough'
    BY FewEnoughKept DEF InvoicesInv, Tame
<1>2. ASSUME NEW q \in Active'
      PROVE  Listings(q)'
    <2>1. CASE q = p
        <3>1. p \in Active
            BY <1>2, <2>1 DEF Active, Steps
        <3> QED
            BY <1>2, <2>1, <3>1, MoverKeeps DEF Active
    <2>2. CASE q # p
        <3>1. q \in Active /\ importer'[q] = importer[q]
            BY <1>2, <2>2 DEF Active, Steps
        <3> QED
            BY <3>1, OthersKeep DEF NoneNew
    <2> QED
        BY <2>1, <2>2
<1> QED
    BY <1>1, <1>2 DEF InvoicesInv, Listings

LEMMA InvoicesStay ==
    ASSUME InvoicesInv, Types', Tame, NoneNew, UNCHANGED importer
    PROVE  InvoicesInv'
<1>1. FewEnough'
    BY FewEnoughKept DEF InvoicesInv, Tame
<1>2. ASSUME NEW q \in Active'
      PROVE  Listings(q)'
    <2>1. q \in Active /\ importer'[q] = importer[q]
        BY <1>2 DEF Active
    <2> QED
        BY <2>1, OthersKeep DEF NoneNew
<1> QED
    BY <1>1, <1>2 DEF InvoicesInv, Listings

LEMMA QuietInvoices ==
    ASSUME UNCHANGED valuations, raced \subseteq raced'
    PROVE  Tame /\ NoneNew
BY DEF Tame, NoneNew, Mine, InvoicesOf

LEMMA WorkInvoices ==
    ASSUME InvoicesInv, NEW p \in Importers, Types',
           \/ EnsureContractor(p) \/ EnsureFails(p) \/ GetWork(p) \/ UpsertWork(p)
           \/ UpsertProgressReport(p) \/ AbortImport(p) \/ ImportFails(p) \/ AnswerImport(p)
    PROVE  InvoicesInv'
<1>1. Types
    BY DEF InvoicesInv
<1>2. /\ Steps(p) /\ UNCHANGED <<valuations, raced>>
      /\ \/ importer'[p].step = "idle"
         \/ importer'[p].at = importer[p].at
         \/ importer'[p].at = importer[p].at + 1 /\ Plan[importer[p].at].do = "work"
    BY <1>1, WorkSteps
<1>3. Tame /\ NoneNew
    BY <1>2, QuietInvoices
<1> QED
    BY <1>2, <1>3, InvoicesMove

LEMMA QuietEdits ==
    ASSUME InvoicesInv, Types',
           \/ \E k \in Clerks : \/ PatchContractor(k) \/ PatchWork(k) \/ RefuseEdit(k)
                                \/ OpenContractor(k) \/ OpenWork(k) \/ OpenValuation(k)
           \/ CreateContractor \/ DeleteContractor \/ DeleteWork \/ UpsertContractReport
           \/ DeleteReport \/ UNCHANGED monthVars
    PROVE  InvoicesInv'
<1>1. UNCHANGED <<valuations, raced>> /\ UNCHANGED importer
    BY DEF PatchContractor, PatchWork, RefuseEdit, OpenContractor, OpenWork, OpenValuation,
           CreateContractor, DeleteContractor, DeleteWork, UpsertContractReport, DeleteReport,
           monthVars
<1>2. Tame /\ NoneNew
    BY <1>1, QuietInvoices
<1> QED
    BY <1>1, <1>2, InvoicesStay

\* A listing that fails leaves every name open.
LEMMA ListFailsInvoices ==
    ASSUME InvoicesInv, NEW p \in Importers, Types', ListFails(p)
    PROVE  InvoicesInv'
<1>1. Types
    BY DEF InvoicesInv
<1>2. Steps(p) /\ raced' = raced \cup InvoiceNames /\ UNCHANGED valuations
    BY <1>1, ListFailsSteps
<1>3. Tame /\ NoneNew
    BY <1>2, QuietInvoices
<1>4. FewEnough'
    BY <1>2 DEF FewEnough
<1>5. ASSUME NEW q \in Active'
      PROVE  Listings(q)'
    <2>1. q \in Active /\ q \in Importers
        BY <1>2, <1>5 DEF Active, Steps
    <2>2. PICK own \in ImportState : own = importer[q] /\ Remembers(own) /\ ListedHere(own)
        BY <1>1, <2>1, ImportParts DEF Types, ImportsOK, InvoicesInv
    <2>3. PICK next : next = importer'[q] /\ next.listing = own.listing
        BY <1>2, <1>5, <2>1, <2>2 DEF Active, Steps
    <2>4. ListedHere(next)'
        BY <1>3, <2>2, <2>3, ListedKept
    <2>5. Unlisted(next)'
        BY <1>2 DEF Unlisted
    <2> QED
        BY <2>3, <2>4, <2>5 DEF Listings
<1> QED
    BY <1>4, <1>5 DEF InvoicesInv, Listings

LEMMA StartInvoices ==
    ASSUME InvoicesInv, NEW p \in Importers, Types', StartImport(p)
    PROVE  InvoicesInv'
<1>1. Types
    BY DEF InvoicesInv
<1>2. /\ \A q \in Importers \ {p} : importer'[q] = importer[q]
      /\ importer'[p].at = 1
      /\ \A n \in InvoiceNames : importer'[p].listing[n].id = 0
      /\ UNCHANGED <<valuations, raced>>
    BY <1>1, StartSteps
<1>3. Tame /\ NoneNew
    BY <1>2, QuietInvoices
<1>4. FewEnough'
    BY <1>2, <1>3, FewEnoughKept DEF InvoicesInv
<1>5. ASSUME NEW q \in Active'
      PROVE  Listings(q)'
    <2>1. CASE q = p
        <3>1. PICK next : next = importer'[p]
            OBVIOUS
        <3>2. next.at = 1 /\ \A n \in InvoiceNames : next.listing[n].id = 0
            BY <1>2, <3>1
        <3>3. ~PastListing(next)
            BY <3>2, PlanParts DEF PastListing
        <3>4. ListedHere(next)' /\ Unlisted(next)'
            BY <3>2, <3>3 DEF ListedHere, Unlisted, UnlistedName, PastListing
        <3> QED
            BY <2>1, <3>1, <3>4 DEF Listings
    <2>2. CASE q # p
        <3>1. q \in Active /\ importer'[q] = importer[q]
            BY <1>2, <1>5, <2>2 DEF Active
        <3> QED
            BY <1>3, <3>1, OthersKeep DEF NoneNew
    <2> QED
        BY <2>1, <2>2
<1> QED
    BY <1>4, <1>5 DEF InvoicesInv, Listings

\* The listing: what is not listed under a name is not there.
LEMMA ListInvoices ==
    ASSUME InvoicesInv, NEW p \in Importers, Types', ListValuations(p)
    PROVE  InvoicesInv'
<1>1. Types /\ DOMAIN importer = Importers
    BY DEF InvoicesInv, Types, ImportsOK
<1>2. UNCHANGED <<valuations, raced>> /\ importer[p].step = "list"
    BY DEF ListValuations
<1>3. Tame /\ NoneNew
    BY <1>2, QuietInvoices
<1>4. FewEnough'
    BY <1>2, <1>3, FewEnoughKept DEF InvoicesInv
<1>5. PICK next \in ImportState :
          Moved(p, next) /\ \A n \in InvoiceNames : ListingOf(next.listing[n], n)
    BY <1>1, ListStepState
<1>6. importer'[p] = next /\ \A q \in Importers \ {p} : importer'[q] = importer[q]
    BY <1>1, <1>5 DEF Moved
<1>7. ASSUME NEW n \in InvoiceNames, next.listing[n].id # 0
      PROVE  /\ valuations[next.listing[n].id].name = n
             /\ valuations[next.listing[n].id].month = "this"
    <2>1. next.listing[n].id \in ListedUnder(n)
        BY <1>5, <1>7, ListedRow
    <2> QED
        BY <2>1 DEF ListedUnder
<1>8. ASSUME NEW n \in InvoiceNames, next.listing[n].id = 0
      PROVE  Cardinality(Mine(n)) <= Cardinality(Done(n, next.at))
    <2>1. ListedUnder(n) = {}
        <3>1. 0 \notin DOMAIN valuations
            <4>1. valuations \in Seq(ValuationRow)
                BY <1>1 DEF Types, TablesOK
            <4> QED
                BY <4>1, RowIn
        <3>2. ListedUnder(n) = {} \/ 0 \in ListedUnder(n)
            BY <1>5, <1>8, ListedRow
        <3> QED
            BY <3>1, <3>2 DEF ListedUnder
    <2>2. Mine(n) = {}
        BY <2>1 DEF Mine, InvoicesOf, ListedUnder
    <2>3. Cardinality(Mine(n)) = 0
        BY <2>2, FS_EmptySet
    <2>4. Cardinality(Done(n, next.at)) \in Nat
        <3>1. next.at \in Nat
            BY DEF ImportState
        <3> QED
            BY <3>1, DoneCounted
    <2> QED
        BY <2>3, <2>4
<1>9. ListedHere(next)' /\ Unlisted(next)'
    <2>1. ListedHere(next)'
        BY <1>2, <1>7 DEF ListedHere, ListedAs
    <2>2. ASSUME NEW n \in InvoiceNames
          PROVE  UnlistedName(next, n)'
        <3>1. Mine(n)' = Mine(n)
            BY <1>2 DEF Mine, InvoicesOf
        <3> QED
            BY <1>8, <3>1 DEF UnlistedName, Done, Rows
    <2> QED
        BY <2>1, <2>2 DEF Unlisted
<1>10. ASSUME NEW q \in Active'
      PROVE  Listings(q)'
    <2>1. CASE q = p
        BY <1>6, <1>9, <2>1 DEF Listings
    <2>2. CASE q # p
        <3>1. q \in Active /\ importer'[q] = importer[q]
            BY <1>6, <1>10, <2>2 DEF Active
        <3> QED
            BY <1>3, <3>1, OthersKeep DEF NoneNew
    <2> QED
        BY <2>1, <2>2
<1> QED
    BY <1>4, <1>10 DEF InvoicesInv, Listings

\* A row of the sheet written over the invoice that was listed under its name.
LEMMA SaveListedInvoices ==
    ASSUME InvoicesInv, Types', NEW p \in Importers,
           NEW own \in ImportState, NEW name \in InvoiceNames, NEW link \in Nat,
           own = importer[p], own.at \in DOMAIN Plan, own.step = "save",
           Plan[own.at].do = "valuation",
           own.listing[name] \in [id : Nat, status : InvoiceStatuses],
           NextRow(p), SavesListed(p, own, name, link)
    PROVE  InvoicesInv'
<1>1. Types /\ valuations \in Seq(ValuationRow)
    BY DEF InvoicesInv, Types, TablesOK
<1>2. Steps(p)
    BY <1>1, NextRowSteps
<1>3. PICK v \in DOMAIN valuations, stored \in ValuationRow :
          /\ v = own.listing[name].id /\ stored = valuations[v] /\ stored.live
          /\ valuations' = [valuations EXCEPT ![v] =
                 InvoiceRewritten(stored, name, link, own.listing[name].status)]
          /\ UNCHANGED raced
    BY DEF SavesListed
<1>4. PICK mine \in ValuationRow :
          /\ mine = InvoiceRewritten(stored, name, link, own.listing[name].status)
          /\ mine.name = name /\ mine.month = "this" /\ mine.live = stored.live
          /\ mine.by = stored.by
    <2>1. PICK status \in InvoiceStatuses : status = own.listing[name].status
        OBVIOUS
    <2>2. PICK mine : mine = InvoiceRewritten(stored, name, link, status)
        OBVIOUS
    <2>3. /\ mine \in ValuationRow /\ mine.name = name /\ mine.month = "this"
          /\ mine.live = stored.live /\ mine.by = stored.by
        BY <2>2 DEF InvoiceRewritten, ValuationRow
    <2> QED
        BY <2>1, <2>2, <2>3
<1>5. /\ DOMAIN valuations' = DOMAIN valuations /\ valuations'[v] = mine
      /\ \A u \in DOMAIN valuations : u # v => valuations'[u] = valuations[u]
    BY <1>1, <1>3, <1>4, Replaced
<1>6. /\ stored.name = name \/ {name, stored.name} \subseteq raced
      /\ name \notin raced => stored.month = "this"
    <2>1. p \in Active /\ v # 0
        BY <1>1, <1>3, RowIn DEF Active
    <2>2. ListedHere(own)
        BY <2>1 DEF InvoicesInv
    <2> QED
        BY <1>3, <2>1, <2>2 DEF ListedHere, ListedAs
<1>7. /\ UNCHANGED raced
      /\ valuations[v].name = name \/ {name, valuations[v].name} \subseteq raced
      /\ name \notin raced => valuations[v].month = "this"
      /\ valuations[v].live /\ valuations[v].by = mine.by
      /\ valuations'[v].name = name /\ valuations'[v].month = "this"
      /\ valuations'[v].by = mine.by
    BY <1>3, <1>4, <1>5, <1>6
<1>8. Tame
    <2> SUFFICES ASSUME NEW u \in DOMAIN valuations
                 PROVE  /\ \/ valuations'[u].name = valuations[u].name
                           \/ {valuations[u].name, valuations'[u].name} \subseteq raced'
                        /\ valuations[u].month = "this" => valuations'[u].month = "this"
        BY <1>7 DEF Tame
    <2>1. CASE u = v
        BY <1>7, <2>1
    <2>2. CASE u # v
        BY <1>5, <2>2
    <2> QED
        BY <2>1, <2>2
<1>9. NoneNew
    <2> SUFFICES ASSUME NEW n \in InvoiceNames \ raced', NEW u \in Mine(n)'
                 PROVE  u \in Mine(n)
        BY DEF NoneNew
    <2>1. /\ u \in DOMAIN valuations /\ valuations'[u].live /\ valuations'[u].name = n
          /\ valuations'[u].month = "this" /\ valuations'[u].by = "import"
        BY <1>5 DEF Mine, InvoicesOf
    <2>2. CASE u = v
        BY <1>7, <2>1, <2>2 DEF Mine, InvoicesOf
    <2>3. CASE u # v
        BY <1>5, <2>1, <2>3 DEF Mine, InvoicesOf
    <2> QED
        BY <2>2, <2>3
<1>10. importer'[p].at = importer[p].at \/ Plan[importer[p].at].do # "list"
    OBVIOUS
<1> QED
    BY <1>2, <1>8, <1>9, <1>10, InvoicesMove

\* A row of the sheet whose name was not listed: the new invoice is accounted for by
\* the row, and marked if another import is about to add one for it as well.
LEMMA SaveNewInvoices ==
    ASSUME InvoicesInv, Types', NEW p \in Importers,
           NEW own \in ImportState, NEW name \in InvoiceNames, NEW link \in Nat,
           own = importer[p], own.at \in DOMAIN Plan, own.step = "save",
           Plan[own.at].do = "valuation", name = Plan[own.at].name,
           NextRow(p), SavesNew(p, own, name, link)
    PROVE  InvoicesInv'
<1>1. Types /\ valuations \in Seq(ValuationRow)
    BY DEF InvoicesInv, Types, TablesOK
<1>2. /\ Steps(p) /\ importer'[p].at = own.at + 1 /\ Remembers(own) /\ p \in Active
      /\ \/ importer'[p].listing = own.listing
         \/ importer'[p].step = "idle"
    <2>1. Remembers(own)
        BY <1>1, ImportParts DEF Types, ImportsOK
    <2>2. Steps(p) /\ importer'[p].at = own.at + 1
        BY <1>1, NextRowSteps
    <2> QED
        BY <2>1, <2>2 DEF Steps, Active
<1>3. /\ own.listing[name].id = 0
      /\ valuations' = Append(valuations, InvoiceNew(name, link))
      /\ raced \subseteq raced'
      /\ \A q \in Active \ {p}, j \in DOMAIN Plan :
             /\ j >= importer[q].at /\ Plan[j] = Plan[own.at]
             /\ importer[q].at > Len(Tracker) + 1 /\ importer[q].listing[name].id = 0
             => name \in raced'
    BY DEF SavesNew
<1>4. PICK mine \in ValuationRow : mine = InvoiceNew(name, link) /\ mine.name = name
    BY InvoiceRows
<1>5. PICK v \in Nat : v = Len(valuations) + 1
    BY <1>1, <1>4, Added
<1>6. /\ DOMAIN valuations' = DOMAIN valuations \cup {v} /\ v \notin DOMAIN valuations
      /\ valuations'[v] = mine
      /\ \A u \in DOMAIN valuations : valuations'[u] = valuations[u]
    BY <1>1, <1>3, <1>4, <1>5, Added
<1>7. Tame
    BY <1>3, <1>6 DEF Tame
<1>8. \A n : Mine(n)' \subseteq Mine(n) \cup {v} /\ (n # name => Mine(n)' \subseteq Mine(n))
    BY <1>4, <1>6 DEF Mine, InvoicesOf
<1>9. own.at \in Nat /\ own.at + 1 \in Nat /\ own.at \in Rows(name)
    BY DEF ImportState, Rows
<1>10. ASSUME name \notin raced
       PROVE  Cardinality(Mine(name)') <= Cardinality(Done(name, own.at + 1))
    <2>1. PastListing(own) /\ Remaining(own, name)
        BY <1>9, PlanParts DEF PastListing, Remaining
    <2>2. UnlistedName(own, name)
        BY <1>2, <1>10 DEF InvoicesInv, Unlisted
    <2>3. Cardinality(Mine(name)) <= Cardinality(Done(name, own.at))
        BY <1>3, <2>1, <2>2 DEF UnlistedName
    <2>4. PICK before : before = Mine(name) \cup {v}
        OBVIOUS
    <2>5. /\ IsFiniteSet(before) /\ Cardinality(Mine(name)) \in Nat
          /\ Cardinality(before) = Cardinality(Mine(name)) + 1
        <3>1. IsFiniteSet(Mine(name)) /\ Cardinality(Mine(name)) \in Nat /\ v \notin Mine(name)
            BY <1>1, <1>6, MineCounted
        <3> QED
            BY <2>4, <3>1, FS_AddElement
    <2>6. PICK after \in SUBSET before : after = Mine(name)'
        BY <1>8, <2>4
    <2>7. IsFiniteSet(after) /\ Cardinality(after) <= Cardinality(before)
        BY <2>5, FS_Subset
    <2>8. Cardinality(after) \in Nat
        BY <2>7, FS_CardinalityType
    <2>9. /\ Cardinality(Done(name, own.at)) \in Nat
          /\ Cardinality(Done(name, own.at + 1)) = Cardinality(Done(name, own.at)) + 1
        BY <1>9, DoneCounted
    <2> QED
        BY <2>3, <2>5, <2>6, <2>7, <2>8, <2>9
<1>11. FewEnough'
    <2> SUFFICES ASSUME NEW n \in InvoiceNames \ raced'
                 PROVE  Cardinality(Mine(n)') <= Cardinality(Rows(n))
        BY DEF FewEnough, Rows
    <2>1. PICK after : after = Mine(n)'
        OBVIOUS
    <2>2. Cardinality(Rows(n)) \in Nat /\ n \notin raced
        BY <1>3, RowsCounted
    <2>3. CASE n = name
        <3>1. Cardinality(Mine(n)') <= Cardinality(Done(n, own.at + 1))
            BY <1>10, <2>2, <2>3
        <3>2. /\ Cardinality(Done(n, own.at + 1)) \in Nat
              /\ Cardinality(Done(n, own.at + 1)) <= Cardinality(Rows(n))
            BY <1>9, DoneCounted
        <3>3. Cardinality(after) \in Nat
            <4>1. after \subseteq Mine(n) \cup {v}
                BY <1>8, <2>1
            <4>2. IsFiniteSet(Mine(n) \cup {v})
                BY <1>1, MineCounted, FS_AddElement
            <4>3. IsFiniteSet(after)
                BY <4>1, <4>2, FS_Subset
            <4> QED
                BY <4>3, FS_CardinalityType
        <3> QED
            BY <2>1, <2>2, <3>1, <3>2, <3>3
    <2>4. CASE n # name
        <3>1. /\ Cardinality(after) \in Nat /\ Cardinality(Mine(n)) \in Nat
              /\ Cardinality(after) <= Cardinality(Mine(n))
            BY <1>1, <1>8, <2>1, <2>4, MineCounted
        <3>2. Cardinality(Mine(n)) <= Cardinality(Rows(n))
            BY <2>2 DEF InvoicesInv, FewEnough
        <3> QED
            BY <2>1, <2>2, <3>1, <3>2
    <2> QED
        BY <2>3, <2>4
<1>12. ASSUME p \in Active'
       PROVE  Listings(p)'
    <2>1. PICK next : next = importer'[p] /\ next.listing = own.listing /\ next.at = own.at + 1
        BY <1>2, <1>12 DEF Active
    <2>2. ListedHere(own) /\ Unlisted(own)
        BY <1>2 DEF InvoicesInv
    <2>3. ListedHere(next)'
        BY <1>2, <1>7, <2>1, <2>2, ListedKept
    <2>4. ASSUME NEW n \in InvoiceNames \ raced'
          PROVE  UnlistedName(next, n)'
        <3>1. CASE n = name
            <4>1. Cardinality(Mine(n)') <= Cardinality(Done(n, next.at))
                BY <1>3, <1>10, <2>1, <2>4, <3>1
            <4> QED
                BY <4>1 DEF UnlistedName, Done, Rows
        <3>2. CASE n # name
            <4>1. UnlistedName(own, n) /\ Mine(n)' \subseteq Mine(n)
                BY <1>3, <1>8, <2>2, <2>4, <3>2 DEF Unlisted
            <4>2. own.at # Len(Tracker) + 1
                BY PlanParts
            <4> QED
                BY <1>1, <1>9, <2>1, <4>1, <4>2, UnlistedKept
        <3> QED
            BY <3>1, <3>2
    <2>5. Unlisted(next)'
        BY <2>4 DEF Unlisted
    <2> QED
        BY <2>1, <2>3, <2>5 DEF Listings
<1>13. ASSUME NEW q \in Active', q # p
       PROVE  Listings(q)'
    <2>1. q \in Active /\ importer'[q] = importer[q]
        BY <1>2, <1>13 DEF Active, Steps
    <2>2. ASSUME NEW n \in InvoiceNames \ raced'
          PROVE  Mine(n)' \subseteq Mine(n)
                 \/ (PastListing(importer[q]) /\ importer[q].listing[n].id = 0
                     => ~Remaining(importer[q], n))
        <3>1. CASE n # name
            BY <1>8, <3>1
        <3>2. CASE n = name
            <4> SUFFICES ASSUME PastListing(importer[q]), importer[q].listing[n].id = 0,
                                Remaining(importer[q], n)
                         PROVE  FALSE
                OBVIOUS
            <4>1. PICK j \in DOMAIN Plan :
                      j >= importer[q].at /\ Plan[j].do = "valuation" /\ Plan[j].name = n
                BY DEF Remaining
            <4>2. Plan[j] = Plan[own.at]
                BY <3>2, <4>1, PlanRow
            <4>3. importer[q].at > Len(Tracker) + 1
                BY DEF PastListing
            <4> QED
                BY <1>3, <1>13, <2>1, <2>2, <3>2, <4>1, <4>2, <4>3
        <3> QED
            BY <3>1, <3>2
    <2> QED
        BY <1>7, <2>1, <2>2, OthersKeep
<1> QED
    BY <1>11, <1>12, <1>13 DEF InvoicesInv, Listings

LEMMA SaveInvoices ==
    ASSUME InvoicesInv, NEW p \in Importers, SaveValuation(p), Types'
    PROVE  InvoicesInv'
<1>1. Types
    BY DEF InvoicesInv
<1>2. PICK own \in ImportState, name \in InvoiceNames, link \in Nat :
          /\ own = importer[p] /\ own.at \in DOMAIN Plan
          /\ Plan[own.at].do = "valuation" /\ name = Plan[own.at].name
          /\ own.step = "save" /\ NextRow(p)
          /\ own.listing[name] \in [id : Nat, status : InvoiceStatuses]
          /\ SavesListed(p, own, name, link) \/ SavesNew(p, own, name, link)
    BY <1>1, SaveStep
<1> QED
    BY <1>2, SaveListedInvoices, SaveNewInvoices

\* The invoice of a person is not counted.
LEMMA CreateInvoices ==
    ASSUME InvoicesInv, Types', CreateValuation
    PROVE  InvoicesInv'
<1>1. Types /\ valuations \in Seq(ValuationRow)
    BY DEF InvoicesInv, Types, TablesOK
<1>2. UNCHANGED raced /\ UNCHANGED importer
    BY DEF CreateValuation
<1>3. PICK mine \in ValuationRow :
          valuations' = Append(valuations, mine) /\ mine.by = "person"
    BY <1>1, CreateValuationStep
<1>4. PICK v \in Nat : v = Len(valuations) + 1
    BY <1>1, <1>3, Added
<1>5. /\ DOMAIN valuations' = DOMAIN valuations \cup {v} /\ valuations'[v] = mine
      /\ \A u \in DOMAIN valuations : valuations'[u] = valuations[u]
    BY <1>1, <1>3, <1>4, Added
<1>6. Tame
    BY <1>2, <1>5 DEF Tame
<1>7. NoneNew
    BY <1>3, <1>5 DEF NoneNew, Mine, InvoicesOf
<1> QED
    BY <1>2, <1>6, <1>7, InvoicesStay

\* A new month or another name of an invoice is marked.
LEMMA UpdateInvoices ==
    ASSUME InvoicesInv, Types', NEW k \in Clerks, UpdateValuation(k)
    PROVE  InvoicesInv'
<1>1. Types /\ valuations \in Seq(ValuationRow)
    BY DEF InvoicesInv, Types, TablesOK
<1>2. UNCHANGED importer
    BY DEF UpdateValuation
<1>3. PICK v \in DOMAIN valuations, mine \in ValuationRow :
          /\ valuations[v] \in ValuationRow /\ valuations[v].live
          /\ valuations' = [valuations EXCEPT ![v] = mine]
          /\ mine.by = valuations[v].by
          /\ raced' = IF mine.name = valuations[v].name /\ mine.month = valuations[v].month
                      THEN raced ELSE raced \cup {valuations[v].name, mine.name}
    BY <1>1, UpdateStep
<1>4. /\ DOMAIN valuations' = DOMAIN valuations /\ valuations'[v] = mine
      /\ \A u \in DOMAIN valuations : u # v => valuations'[u] = valuations[u]
    BY <1>1, <1>3, Replaced
<1>5. /\ raced \subseteq raced'
      /\ valuations'[v].by = valuations[v].by
      /\ \/ /\ valuations'[v].name = valuations[v].name
            /\ valuations'[v].month = valuations[v].month
         \/ {valuations[v].name, valuations'[v].name} \subseteq raced'
    BY <1>3, <1>4
<1>6. Tame
    <2> SUFFICES ASSUME NEW u \in DOMAIN valuations
                 PROVE  /\ \/ valuations'[u].name = valuations[u].name
                           \/ {valuations[u].name, valuations'[u].name} \subseteq raced'
                        /\ valuations[u].name \notin raced' /\ valuations[u].month = "this"
                               => valuations'[u].month = "this"
        BY <1>5 DEF Tame
    <2>1. CASE u = v
        BY <1>5, <2>1
    <2>2. CASE u # v
        BY <1>4, <2>2
    <2> QED
        BY <2>1, <2>2
<1>7. NoneNew
    <2> SUFFICES ASSUME NEW n \in InvoiceNames \ raced', NEW u \in Mine(n)'
                 PROVE  u \in Mine(n)
        BY DEF NoneNew
    <2>1. /\ u \in DOMAIN valuations /\ valuations'[u].live /\ valuations'[u].name = n
          /\ valuations'[u].month = "this" /\ valuations'[u].by = "import"
        BY <1>4 DEF Mine, InvoicesOf
    <2>2. CASE u = v
        BY <1>3, <1>5, <2>1, <2>2 DEF Mine, InvoicesOf
    <2>3. CASE u # v
        BY <1>4, <2>1, <2>3 DEF Mine, InvoicesOf
    <2> QED
        BY <2>2, <2>3
<1> QED
    BY <1>2, <1>6, <1>7, InvoicesStay

LEMMA DeleteInvoices ==
    ASSUME InvoicesInv, Types', DeleteValuation
    PROVE  InvoicesInv'
<1>1. Types /\ valuations \in Seq(ValuationRow)
    BY DEF InvoicesInv, Types, TablesOK
<1>2. UNCHANGED raced /\ UNCHANGED importer
    BY DEF DeleteValuation
<1>3. PICK v \in DOMAIN valuations, mine \in ValuationRow :
          /\ valuations' = [valuations EXCEPT ![v] = mine]
          /\ valuations[v] \in ValuationRow /\ ~mine.live
          /\ mine = [valuations[v] EXCEPT !.live = FALSE]
    BY <1>1, DeleteValuationStep
<1>4. mine.name = valuations[v].name /\ mine.month = valuations[v].month
    <2>1. PICK stored \in ValuationRow : stored = valuations[v]
        BY <1>3
    <2>2. mine = [stored EXCEPT !.live = FALSE]
        BY <1>3, <2>1
    <2> QED
        BY <2>1, <2>2 DEF ValuationRow
<1>5. /\ DOMAIN valuations' = DOMAIN valuations /\ valuations'[v] = mine
      /\ \A u \in DOMAIN valuations : u # v => valuations'[u] = valuations[u]
    BY <1>1, <1>3, Replaced
<1>6. Tame
    BY <1>2, <1>4, <1>5 DEF Tame
<1>7. ~valuations'[v].live
    BY <1>3, <1>5
<1>8. NoneNew
    BY <1>5, <1>7 DEF NoneNew, Mine, InvoicesOf
<1> QED
    BY <1>2, <1>6, <1>8, InvoicesStay

LEMMA InitInvoices == MonthInit => InvoicesInv
<1> SUFFICES ASSUME MonthInit
             PROVE  InvoicesInv
    OBVIOUS
<1>1. Types
    BY InitTypes
<1>2. valuations = <<>> /\ importer = [p \in Importers |-> AtRest]
    BY DEF MonthInit
<1>3. FewEnough
    <2> SUFFICES ASSUME NEW n \in InvoiceNames
                 PROVE  Cardinality(Mine(n)) <= Cardinality(Rows(n))
        BY DEF FewEnough
    <2>1. Mine(n) = {}
        BY <1>2 DEF Mine, InvoicesOf
    <2>2. Cardinality(Mine(n)) = 0 /\ Cardinality(Rows(n)) \in Nat
        BY <2>1, FS_EmptySet, RowsCounted
    <2> QED
        BY <2>2
<1>4. Active = {}
    BY <1>2, AtRestType DEF Active
<1> QED
    BY <1>1, <1>3, <1>4 DEF InvoicesInv

LEMMA NextInvoices ==
    ASSUME InvoicesInv, MonthNext
    PROVE  InvoicesInv'
<1>1. Types'
    BY NextTypes DEF InvoicesInv
<1>2. ASSUME NEW p \in Importers,
             \/ StartImport(p) \/ EnsureContractor(p) \/ GetWork(p) \/ UpsertWork(p)
             \/ UpsertProgressReport(p) \/ ListValuations(p) \/ SaveValuation(p)
             \/ AbortImport(p) \/ AnswerImport(p)
             \/ EnsureFails(p) \/ ListFails(p) \/ ImportFails(p)
      PROVE  InvoicesInv'
    BY <1>1, <1>2, StartInvoices, WorkInvoices, ListInvoices, SaveInvoices, ListFailsInvoices
<1>3. ASSUME NEW k \in Clerks,
             \/ OpenContractor(k) \/ PatchContractor(k) \/ OpenWork(k) \/ PatchWork(k)
             \/ OpenValuation(k) \/ UpdateValuation(k) \/ RefuseEdit(k)
      PROVE  InvoicesInv'
    BY <1>1, <1>3, QuietEdits, UpdateInvoices
<1>4. CASE \/ CreateContractor \/ DeleteContractor \/ DeleteWork \/ UpsertContractReport
           \/ DeleteReport \/ CreateValuation \/ DeleteValuation
    BY <1>1, <1>4, QuietEdits, CreateInvoices, DeleteInvoices
<1> QED
    BY <1>2, <1>3, <1>4 DEF MonthNext, MonthSteps, MonthFailures

\* "Valuations upsert by their natural keys": no constraint of the table says so, yet
\* imports leave at most one invoice of the month per row of the sheet, for any sheet
\* and any number of imports, unless two of them crossed at that row, the listing
\* failed or a user moved an invoice to another month.
THEOREM InvoicesPerRow == MonthSpec => []OneInvoicePerRow
<1>1. MonthInit => InvoicesInv
    BY InitInvoices
<1>2. InvoicesInv /\ [MonthNext]_monthVars => InvoicesInv'
    <2>1. ASSUME InvoicesInv, UNCHANGED monthVars
          PROVE  InvoicesInv'
        <3>1. Types'
            BY <2>1, IdleTypes DEF InvoicesInv
        <3> QED
            BY <2>1, <3>1, QuietEdits
    <2> QED
        BY <2>1, NextInvoices
<1>3. InvoicesInv => OneInvoicePerRow
    <2> SUFFICES ASSUME InvoicesInv, NEW n \in InvoiceNames \ raced
                 PROVE  Cardinality({v \in InvoicesOf(n) : valuations[v].by = "import"})
                            <= Cardinality({i \in DOMAIN Verified : Verified[i] = n})
        BY DEF OneInvoicePerRow
    <2>1. Cardinality(Mine(n)) <= Cardinality(Rows(n))
        BY DEF InvoicesInv, FewEnough
    <2>2. Cardinality(Mine(n)) \in Nat /\ Cardinality(Rows(n)) \in Nat
        BY MineCounted, RowsCounted DEF InvoicesInv
    <2>3. PICK rows : rows = {i \in DOMAIN Verified : Verified[i] = n}
        OBVIOUS
    <2>4. Cardinality(Rows(n)) <= Cardinality(rows) /\ Cardinality(rows) \in Nat
        <3>1. Len(Verified) \in Nat /\ DOMAIN Verified = 1 .. Len(Verified)
            BY VerifiedType
        <3>2. IsFiniteSet(1 .. Len(Verified))
            BY <3>1, FS_Interval
        <3>3. rows \subseteq 1 .. Len(Verified)
            BY <2>3, <3>1
        <3>4. IsFiniteSet(rows)
            BY <3>2, <3>3, FS_Subset
        <3>5. Cardinality(rows) \in Nat
            BY <3>4, FS_CardinalityType
        <3>6. Cardinality(Rows(n)) <= Cardinality(rows)
            BY <2>3, RowsCounted
        <3> QED
            BY <3>5, <3>6
    <2> QED
        BY <2>1, <2>2, <2>3, <2>4 DEF Mine
<1> QED
    BY <1>1, <1>2, <1>3, PTL DEF MonthSpec
===============================================================================
