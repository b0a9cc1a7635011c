---------------------- MODULE StorageOperationsProofs ----------------------
(***************************************************************************)
(* Theorems about StorageOperations: for one caller at a time, and in the  *)
(* last part for processes that interleave; any number of calls, failures  *)
(* and kills.                                                              *)
(*                                                                         *)
(* An append to the journal is bound by what its caller knew when it chose *)
(* the event, and several steps pass before the event is written or not.   *)
(* So the invariant says of an append what its caller needs afterwards: if *)
(* the event applies, then the journal after it must be lawful, and the    *)
(* steps that follow, on success as in the handler, must find what they    *)
(* rely on (Promise).  Everywhere else it says which carriers a step has   *)
(* verified that nobody else touches (Known).  The operators take the      *)
(* state they speak of as arguments: at, the step; o, the operation; s, the *)
(* head seen; j, the journal; k, the carriers; u, the pin.                 *)
(***************************************************************************)
EXTENDS StorageOperations, TLAPS

(* One operation at a time, as in the web service; and no directory is      *)
(* removed half way while the trash is on another volume.                   *)
Serial == (\A c, d \in Callers : c = d) /\ (CrossVolume => "part" \notin Faults)

Kinds == DOMAIN Transitions
Appending == {"expect", "acquire", "write", "release"}
Running == {"archive", "restore_hot", "trash", "restore_trash", "keep", "unkeep"}
Away == {"hot", "archived"}

(* Where an append leads. *)
Ends == {"discovered", "existing", "build", "cleanup", "compare", "extract", "enter", "tidy",
         "undo", "ok", "fail"}
Logs == [type : Kinds, from : States, to : States, keep : BOOLEAN, named : Places \cup {"none"},
         expects : Nat, then : Ends, else : Ends]

(* A kept run is not on its way to the trash. *)
Unpinned(j, u) == j.pending = "trash_started" => ~j.keep /\ ~u

(* What a call is to have done. *)
DoneIn(o, s, j, k, u) ==
    /\ o = "archive" => j.state = "archived" /\ k["archive"] = "whole" /\ k["hot"] = "none"
    /\ o = "restore_hot" => j.state = "hot" /\ k["hot"] = "whole" /\ k["archive"] = "none"
    /\ o = "trash" => j.state = "trash" /\ k["payload"] = "whole"
    /\ o = "restore_trash" =>
         j.state = s.previous /\ k[Place(s.previous)] = "whole" /\ k["payload"] = "none"
    /\ o = "keep" => j.keep /\ u
    /\ o = "unkeep" => ~j.keep /\ ~u

(* The steps of each operation. *)
Belongs(at, o) ==
    /\ at \in {"archive", "bundle", "existing", "build", "published", "cleanup", "compare",
               "remove_hot", "unarchive", "uncleaned"} => o = "archive"
    /\ at \in {"restore_hot", "extract", "extracted", "drop", "resume", "resume_drop", "retract",
               "unrestore"} => o = "restore_hot"
    /\ at \in {"trash", "trashing", "enter", "move", "note", "source", "rollback", "discard",
               "untrash", "resume_trash"} => o = "trash"
    /\ at \in {"restore_trash", "leave", "arrive", "tidy", "undo"} => o = "restore_trash"
    /\ at \in {"recover_lock", "unlink"} => o = "recover_lock"
    /\ at = "keep" => o = "keep"
    /\ at = "unkeep" => o = "unkeep"
    /\ at = "keeping" => o \in {"keep", "unkeep"}
    /\ at = "discovered" => o \in {"archive", "trash", "keep", "unkeep"}

(* What archive and restore_hot know of the carriers at a step. *)
KnownCopies(at, s, j, k) ==
    /\ at \in {"discovered", "bundle", "existing", "build", "published", "cleanup", "compare",
               "remove_hot", "unarchive"} => k["hot"] = "whole"
    /\ at = "existing" => (s.state = "archived_duplicate" => j.state = "archived_duplicate")
    /\ at \in {"published", "cleanup", "compare", "remove_hot", "uncleaned"} =>
         k["archive"] = "whole"
    /\ at = "cleanup" => j.state = "archived_duplicate"
    /\ at \in {"extract", "extracted", "drop", "unrestore", "resume_drop", "retract"} =>
         k["archive"] = "whole"
    /\ at \in {"extracted", "drop", "resume_drop", "retract"} => k["hot"] = "whole"
    /\ at = "extract" => k["hot"] = "none"
    /\ at = "unrestore" => k["hot"] \in {"whole", "none"}

(* What trash and restore_trash know. *)
KnownTrash(at, s, j, k) ==
    /\ at \in {"enter", "move", "note", "source", "rollback", "discard"} => s.state \in Away
    /\ at \in {"enter", "move", "source", "discard"} => k[Place(s.state)] = "whole"
    /\ at = "note" => k[Place(s.state)] = IF CrossVolume THEN "whole" ELSE "none"
    /\ at = "source" => CrossVolume
    /\ at \in {"note", "source"} => k["payload"] = "whole"
    /\ at = "rollback" =>
         \/ k[Place(s.state)] = "whole"
         \/ ~CrossVolume /\ k["payload"] = "whole" /\ k[Place(s.state)] = "none"
    /\ at \in {"leave", "arrive", "tidy", "undo"} => s.previous \in Away
    /\ at = "leave" => k["payload"] = "whole" /\ k[Place(s.previous)] = "none"
    /\ at \in {"arrive", "tidy"} => k[Place(s.previous)] = "whole"
    /\ at = "arrive" => k["payload"] = IF CrossVolume THEN "whole" ELSE "none"
    /\ at = "tidy" => k["payload"] = "none" /\ j.state = s.previous
    /\ at = "undo" => \/ k["payload"] = "whole" /\ k[Place(s.previous)] = "none"
                      \/ k[Place(s.previous)] = "whole" /\ k["payload"] \in {"whole", "none"}

Known(at, o, s, j, k, u) ==
    /\ Belongs(at, o) /\ KnownCopies(at, s, j, k) /\ KnownTrash(at, s, j, k)
    /\ at \in {"bundle", "trashing", "keeping"} => s = j
    /\ at = "ok" => DoneIn(o, s, j, k, u)

(* Complete evidence is somewhere. *)
Somewhere(k) == \E p \in Places : k[p] = "whole"
Complete(k) == {p \in Places : k[p] = "whole"}

(* What the journal j may become. *)
Lawful(jn, j, k, u) ==
    /\ jn \in LifecycleHead /\ Unpinned(jn, u)
    /\ jn.state # j.state =>
         <<j.state, jn.state>> \in Storage!LifeCycle /\ Storage!Claims[jn.state] \subseteq Complete(k)
    /\ jn.state = "trash" /\ j.state # "trash" => ~j.keep /\ ~u

(* What becomes of an event that applies. *)
Promise(e, o, s, j, k, u) ==
    \A w \in Nat : Applies(j, e, w) =>
        /\ Lawful(Apply(j, e), j, k, u)
        /\ Known(e.then, o, s, Apply(j, e), k, u)
        /\ Known(e.else, o, s, Apply(j, e), k, u)

RecordOK(r) == r = NoRecord \/ r.previous \in Away

CallerOK(at, e, o, s, j, k, u) ==
    /\ Known(at, o, s, j, k, u)
    /\ at \in Appending => o \in Running /\ e \in Logs /\ Known(e.else, o, s, j, k, u)
    /\ at \in {"expect", "acquire", "write"} => Promise(e, o, s, j, k, u)
    /\ at = "release" => Known(e.then, o, s, j, k, u)

Unlocked(at, o, l) == at = "ok" /\ o \notin Running => l = Nobody

Types == TypeOK /\ DOMAIN pc = Callers /\ DOMAIN log = Callers

Inv ==
    /\ Types /\ Somewhere(carrier) /\ Unpinned(journal, pin) /\ RecordOK(record)
    /\ \A c \in Callers : /\ CallerOK(pc[c], log[c], call[c], seen[c], journal, carrier, pin)
                          /\ Unlocked(pc[c], call[c], locked)

(* What every step is to respect. *)
Kept == journal'.state = "trash" /\ journal.state # "trash" => ~journal.keep /\ ~pin
Orderly == [Storage!Next]_(Storage!vars) /\ Kept

-----------------------------------------------------------------------------
(* Every variable has its type initially, and no call is made. *)
LEMMA InitInv == Init => Inv
<1> SUFFICES ASSUME Init PROVE Inv
  OBVIOUS
<1>1. Types
  <2>1. NoHead \in LifecycleHead
    BY DEF NoHead, LifecycleHead, States
  <2>2. NoRecord \in [previous : States, operation : Nat, tail : Nat]
    BY DEF NoRecord, States
  <2>3. carrier \in [Places -> {"none", "whole", "part"}]
    BY DEF Init
  <2>4. faults \in 0..MaxFaults /\ calls \in 0..MaxCalls
    BY JournalAssumption, OperationsAssumption DEF Init
  <2> QED BY <2>1, <2>2, <2>3, <2>4 DEF Init, Types, TypeOK
<1>2. Somewhere(carrier) /\ Unpinned(journal, pin) /\ RecordOK(record)
  BY DEF Init, Somewhere, Unpinned, RecordOK, NoHead, Places
<1>3. ASSUME NEW c \in Callers
      PROVE  /\ CallerOK(pc[c], log[c], call[c], seen[c], journal, carrier, pin)
             /\ Unlocked(pc[c], call[c], locked)
  BY DEF Init, CallerOK, Unlocked, Known, Belongs, KnownCopies, KnownTrash, Appending
<1> QED BY <1>1, <1>2, <1>3 DEF Inv

(* Nobody else is at work: a step is right if its caller is. *)
LEMMA StepsTo ==
    ASSUME Inv, Serial, NEW c \in Callers, NEW at, at \notin Appending, Goto(c, at),
           Types', journal' = journal, Somewhere(carrier'), Unpinned(journal, pin'),
           RecordOK(record'), Known(at, call'[c], seen'[c], journal, carrier', pin'),
           Unlocked(at, call'[c], locked')
    PROVE  Inv'
<1>1. pc'[c] = at /\ \A d \in Callers : d = c
  BY DEF Goto, Inv, Types, Serial
<1>2. CallerOK(pc'[c], log'[c], call'[c], seen'[c], journal', carrier', pin')
  BY <1>1 DEF CallerOK, Appending
<1> QED BY <1>1, <1>2 DEF Inv

(* An event is announced, of a kind and between states that there are. *)
Announced(c, type, from, to, named, then, else) ==
    /\ Log(c, type, from, to, named, then, else)
    /\ type \in Kinds /\ from \in States /\ to \in States /\ named \in Places \cup {"none"}
    /\ then \in Ends /\ else \in Ends

(* The caller announces an event, and stands by what it promises. *)
LEMMA Announces ==
    ASSUME Inv, Serial, NEW c \in Callers, NEW type, NEW from, NEW to, NEW named, NEW then,
           NEW else, Announced(c, type, from, to, named, then, else),
           Types', journal' = journal, Somewhere(carrier'), Unpinned(journal, pin'),
           RecordOK(record'), call' = call, call[c] \in Running,
           Promise(log'[c], call[c], seen'[c], journal, carrier', pin'),
           Known(else, call[c], seen'[c], journal, carrier', pin')
    PROVE  Inv'
<1>1. pc'[c] = "expect" /\ \A d \in Callers : d = c
  BY DEF Announced, Log, Goto, Inv, Types, Serial
<1>2. log'[c] \in Logs /\ log'[c].else = else
  BY DEF Announced, Log, Logs, Inv, Types
<1>3. Known("expect", call[c], seen'[c], journal, carrier', pin')
  BY DEF Known, Belongs, KnownCopies, KnownTrash
<1>4. CallerOK(pc'[c], log'[c], call'[c], seen'[c], journal', carrier', pin')
  BY <1>1, <1>2, <1>3 DEF CallerOK, Appending
<1>5. Unlocked(pc'[c], call'[c], locked')
  BY <1>1 DEF Unlocked
<1> QED BY <1>1, <1>4, <1>5 DEF Inv

(* A step that leaves the journal and the carriers is no step of RunStorage. *)
LEMMA Stays == ASSUME UNCHANGED <<journal, carrier>> PROVE Orderly
BY DEF Orderly, Kept, Storage!vars, Whole

(* A carrier is written or removed while complete evidence stays. *)
LEMMA Puts ==
    ASSUME Types, NEW p \in Places, NEW w, carrier' = [carrier EXCEPT ![p] = w],
           Somewhere(carrier'), journal' = journal
    PROVE  Orderly
<1> DEFINE now == {q \in Places : Whole(q)}
           next == {q \in Places : carrier'[q] = "whole"}
<1>1. \A q \in Places : carrier'[q] = IF q = p THEN w ELSE carrier[q]
  BY DEF Types, TypeOK
<1>2. next = IF w = "whole" THEN now \cup {p} ELSE now \ {p}
  BY <1>1 DEF Whole
<1>3. next # {}
  BY DEF Somewhere
<1>4. CASE w = "whole"
  <2>1. Storage!Copy(p)
    BY <1>2, <1>4 DEF Storage!Copy, Whole
  <2> QED BY <2>1 DEF Orderly, Kept, Storage!Next
<1>5. CASE w # "whole"
  <2>1. Storage!Remove(p)
    BY <1>2, <1>3, <1>5 DEF Storage!Remove, Whole
  <2> QED BY <2>1 DEF Orderly, Kept, Storage!Next
<1> QED BY <1>4, <1>5

(* A complete carrier is moved, or copied and published. *)
LEMMA Transfers ==
    ASSUME Types, NEW p \in Places, NEW q \in Places, p # q, Whole(p), Transfer(p, q),
           journal' = journal
    PROVE  /\ Orderly /\ Somewhere(carrier') /\ carrier' \in [Places -> {"none", "whole", "part"}]
           /\ carrier'[q] = "whole" /\ carrier'[p] = IF CrossVolume THEN "whole" ELSE "none"
           /\ \A r \in Places \ {p, q} : carrier'[r] = carrier[r]
<1> DEFINE now == {r \in Places : Whole(r)}
           next == {r \in Places : carrier'[r] = "whole"}
<1>1. /\ carrier' \in [Places -> {"none", "whole", "part"}]
      /\ carrier'[q] = "whole" /\ carrier'[p] = IF CrossVolume THEN "whole" ELSE "none"
      /\ \A r \in Places \ {p, q} : carrier'[r] = carrier[r]
  BY OperationsAssumption DEF Types, TypeOK, Transfer, Whole
<1>2. CASE CrossVolume
  <2>1. next = now \cup {q}
    BY <1>1, <1>2 DEF Whole
  <2>2. Storage!Copy(q)
    BY <2>1 DEF Storage!Copy, Whole
  <2> QED BY <1>1, <2>2 DEF Orderly, Kept, Storage!Next, Somewhere
<1>3. CASE ~CrossVolume
  <2>1. next = (now \ {p}) \cup {q}
    BY <1>1, <1>3 DEF Whole
  <2>2. Storage!Move(p, q)
    BY <2>1 DEF Storage!Move, Whole
  <2> QED BY <1>1, <2>2 DEF Orderly, Kept, Storage!Next, Somewhere
<1> QED BY <1>2, <1>3, OperationsAssumption

-----------------------------------------------------------------------------
(* The transition table, as far as the proofs use it. *)
LEMMA Table ==
    ASSUME NEW x, NEW y, NEW type, <<x, y>> \in Transitions[type]
    PROVE  /\ type = "hot_discovered" => x = "none" /\ y = "hot"
           /\ type = "archive_started" => x = "hot" /\ y = "archiving"
           /\ type = "archive_verified" => x = "archiving" /\ y = "archived_duplicate"
           /\ type = "archive_failed" => x = "archiving" /\ y = "hot"
           /\ type = "hot_cleanup_completed" => x = "archived_duplicate" /\ y = "archived"
           /\ type = "archive_restore_started" => x = "archived" /\ y = "archiving"
           /\ type = "archive_restore_completed" => x = "archiving" /\ y = "hot"
           /\ type = "archive_restore_failed" => x = "archiving" /\ y = "archived"
           /\ type = "trashed" => x \in Placed /\ y = "trash"
           /\ type = "trash_restored" => x = "trash" /\ y \in Placed
BY DEF Transitions

(* The life cycle, and the evidence it takes to enter a state. *)
LEMMA Cycle ==
    /\ {<<"none", "hot">>, <<"hot", "archiving">>, <<"archiving", "hot">>,
        <<"archiving", "archived_duplicate">>, <<"archived_duplicate", "archived">>,
        <<"archived", "archiving">>, <<"archiving", "archived">>,
        <<"hot", "trash">>, <<"archived", "trash">>,
        <<"trash", "hot">>, <<"trash", "archived">>} \subseteq Storage!LifeCycle
    /\ \A k : /\ Storage!Claims["archiving"] \subseteq Complete(k)
              /\ k["hot"] = "whole" => Storage!Claims["hot"] \subseteq Complete(k)
              /\ k["archive"] = "whole" => Storage!Claims["archived"] \subseteq Complete(k)
              /\ k["hot"] = "whole" /\ k["archive"] = "whole" =>
                   Storage!Claims["archived_duplicate"] \subseteq Complete(k)
              /\ k["payload"] = "whole" => Storage!Claims["trash"] \subseteq Complete(k)
BY DEF Storage!LifeCycle, Storage!Claims, Complete, Places

(* The head after an event that applies. *)
LEMMA HeadAfter ==
    ASSUME NEW j \in LifecycleHead, NEW e \in Logs, NEW w, Applies(j, e, w)
    PROVE  /\ Apply(j, e) \in LifecycleHead
           /\ Apply(j, e).state = e.to /\ e.from = j.state
           /\ <<j.state, e.to>> \in Transitions[e.type]
           /\ Apply(j, e).keep = IF e.type = "keep_changed" THEN e.keep ELSE j.keep
           /\ e.type \in Starts => j.pending = "none" /\ Apply(j, e).pending = e.type
           /\ e.type \in DOMAIN Completes =>
                j.pending = Completes[e.type] /\ Apply(j, e).pending = "none"
           /\ e.type \notin Starts \cup DOMAIN Completes => Apply(j, e).pending = j.pending
           /\ e.type = "trash_restored" => e.to = j.previous
<1>1. /\ e.to \in States /\ e.from \in States /\ e.keep \in BOOLEAN
      /\ j.keep \in BOOLEAN /\ j.previous \in States /\ j.revision \in Nat
      /\ j.pending \in Starts \cup {"none"} /\ j.operation \in Nat
  BY DEF Logs, LifecycleHead
<1>2. "none" \in States /\ Starts \cap DOMAIN Completes = {}
  BY DEF States, Starts, Completes
<1>3. Apply(j, e).pending = IF e.type \in Starts THEN e.type
                            ELSE IF e.type \in DOMAIN Completes THEN "none" ELSE j.pending
  BY <1>2 DEF Apply
<1>4. Apply(j, e) \in LifecycleHead
  <2> DEFINE previous == CASE e.type = "trashed" -> e.from
                           [] e.type = "trash_restored" -> "none"
                           [] OTHER -> j.previous
             keep == IF e.type = "keep_changed" THEN e.keep ELSE j.keep
             pending == CASE e.type \in Starts -> e.type
                          [] e.type \in DOMAIN Completes -> "none"
                          [] OTHER -> j.pending
             started == CASE e.type \in Starts -> j.revision
                          [] e.type \in DOMAIN Completes -> 0
                          [] OTHER -> j.operation
  <2>1. previous \in States
    BY <1>1, <1>2
  <2>2. keep \in BOOLEAN
    BY <1>1
  <2>3. pending \in Starts \cup {"none"}
    BY <1>1, <1>2
  <2>4. started \in Nat
    BY <1>1, <1>2
  <2>5. j.revision + 1 \in Nat
    BY <1>1
  <2> HIDE DEF previous, keep, pending, started
  <2>6. Apply(j, e) = [state |-> e.to, keep |-> keep, previous |-> previous,
                       revision |-> j.revision + 1, pending |-> pending, operation |-> started]
    BY DEF Apply, previous, keep, pending, started
  <2> QED BY <1>1, <2>1, <2>2, <2>3, <2>4, <2>5, <2>6 DEF LifecycleHead
<1>5. /\ Apply(j, e).state = e.to
      /\ Apply(j, e).keep = IF e.type = "keep_changed" THEN e.keep ELSE j.keep
  BY DEF Apply
<1> QED BY <1>2, <1>3, <1>4, <1>5 DEF Applies

(* Nothing is known of the carriers when a call fails. *)
LEMMA FailKnows ==
    \A o, s, j, k, u : Known("fail", o, s, j, k, u)
BY DEF Known, Belongs, KnownCopies, KnownTrash

(* An event that is no move to the trash, and keeps the manual keep, is     *)
(* lawful when its state is next in the life cycle and its evidence there.  *)
LEMMA LawfulMove ==
    ASSUME NEW j \in LifecycleHead, NEW e \in Logs, NEW w, Applies(j, e, w), NEW k, NEW u,
           Unpinned(j, u), e.type \notin {"keep_changed", "trash_started", "trashed"},
           e.to # "trash",
           \/ e.to = j.state
           \/ <<j.state, e.to>> \in Storage!LifeCycle /\ Storage!Claims[e.to] \subseteq Complete(k)
    PROVE  Lawful(Apply(j, e), j, k, u)
<1>1. Unpinned(Apply(j, e), u)
  BY HeadAfter DEF Unpinned
<1> QED BY <1>1, HeadAfter DEF Lawful

-----------------------------------------------------------------------------
(* What each event promises the operation that announces it, on success and *)
(* in its exception handler.                                                *)
LEMMA PromiseDiscovered ==
    ASSUME NEW j \in LifecycleHead, NEW e \in Logs, NEW o, NEW s, NEW k, NEW u, Unpinned(j, u),
           e.type = "hot_discovered", e.to = "hot", e.then = "discovered", e.else = "fail",
           o \in {"archive", "trash", "keep", "unkeep"}, k["hot"] = "whole"
    PROVE  Promise(e, o, s, j, k, u)
<1> SUFFICES ASSUME NEW w \in Nat, Applies(j, e, w)
             PROVE  /\ Lawful(Apply(j, e), j, k, u)
                    /\ Known("discovered", o, s, Apply(j, e), k, u)
  BY FailKnows DEF Promise
<1>1. <<j.state, "hot">> \in Storage!LifeCycle /\ Storage!Claims["hot"] \subseteq Complete(k)
  BY HeadAfter, Table, Cycle
<1>2. Known("discovered", o, s, Apply(j, e), k, u)
  BY DEF Known, Belongs, KnownCopies, KnownTrash
<1> QED BY <1>1, <1>2, LawfulMove

LEMMA PromiseArchiveStarted ==
    ASSUME NEW j \in LifecycleHead, NEW e \in Logs, NEW s, NEW k, NEW u, Unpinned(j, u),
           e.type = "archive_started", e.to = "archiving", e.else = "fail",
           e.then \in {"existing", "build"}, k["hot"] = "whole",
           e.then = "existing" => s.state # "archived_duplicate"
    PROVE  Promise(e, "archive", s, j, k, u)
<1> SUFFICES ASSUME NEW w \in Nat, Applies(j, e, w)
             PROVE  /\ Lawful(Apply(j, e), j, k, u)
                    /\ Known(e.then, "archive", s, Apply(j, e), k, u)
  BY FailKnows DEF Promise
<1>1. <<j.state, "archiving">> \in Storage!LifeCycle
      /\ Storage!Claims["archiving"] \subseteq Complete(k)
  BY HeadAfter, Table, Cycle
<1>2. Known(e.then, "archive", s, Apply(j, e), k, u)
  BY DEF Known, Belongs, KnownCopies, KnownTrash
<1> QED BY <1>1, <1>2, LawfulMove

LEMMA PromiseVerified ==
    ASSUME NEW j \in LifecycleHead, NEW e \in Logs, NEW s, NEW k, NEW u, Unpinned(j, u),
           e.type = "archive_verified", e.to = "archived_duplicate", e.then = "cleanup",
           e.else = "fail", k["hot"] = "whole", k["archive"] = "whole"
    PROVE  Promise(e, "archive", s, j, k, u)
<1> SUFFICES ASSUME NEW w \in Nat, Applies(j, e, w)
             PROVE  /\ Lawful(Apply(j, e), j, k, u)
                    /\ Known("cleanup", "archive", s, Apply(j, e), k, u)
  BY FailKnows DEF Promise
<1>1. <<j.state, "archived_duplicate">> \in Storage!LifeCycle
      /\ Storage!Claims["archived_duplicate"] \subseteq Complete(k)
  BY HeadAfter, Table, Cycle
<1>2. Known("cleanup", "archive", s, Apply(j, e), k, u)
  BY HeadAfter DEF Known, Belongs, KnownCopies, KnownTrash
<1> QED BY <1>1, <1>2, LawfulMove

LEMMA PromiseCleanupStarted ==
    ASSUME NEW j \in LifecycleHead, NEW e \in Logs, NEW s, NEW k, NEW u, Unpinned(j, u),
           e.type = "hot_cleanup_started", e.from = "archived_duplicate",
           e.to = "archived_duplicate", e.then = "compare", e.else = "fail",
           k["hot"] = "whole", k["archive"] = "whole"
    PROVE  Promise(e, "archive", s, j, k, u)
<1> SUFFICES ASSUME NEW w \in Nat, Applies(j, e, w)
             PROVE  /\ Lawful(Apply(j, e), j, k, u)
                    /\ Known("compare", "archive", s, Apply(j, e), k, u)
  BY FailKnows DEF Promise
<1>1. e.to = j.state
  BY HeadAfter
<1>2. Known("compare", "archive", s, Apply(j, e), k, u)
  BY DEF Known, Belongs, KnownCopies, KnownTrash
<1> QED BY <1>1, <1>2, LawfulMove

LEMMA PromiseCleanupCompleted ==
    ASSUME NEW j \in LifecycleHead, NEW e \in Logs, NEW s, NEW k, NEW u, Unpinned(j, u),
           e.type = "hot_cleanup_completed", e.to = "archived", e.then = "ok",
           e.else = "fail", k["hot"] = "none", k["archive"] = "whole"
    PROVE  Promise(e, "archive", s, j, k, u)
<1> SUFFICES ASSUME NEW w \in Nat, Applies(j, e, w)
             PROVE  /\ Lawful(Apply(j, e), j, k, u)
                    /\ Known("ok", "archive", s, Apply(j, e), k, u)
  BY FailKnows DEF Promise
<1>1. <<j.state, "archived">> \in Storage!LifeCycle /\ Storage!Claims["archived"] \subseteq Complete(k)
  BY HeadAfter, Table, Cycle
<1>2. Known("ok", "archive", s, Apply(j, e), k, u)
  BY HeadAfter DEF Known, Belongs, KnownCopies, KnownTrash, DoneIn
<1> QED BY <1>1, <1>2, LawfulMove

LEMMA PromiseRestoreStarted ==
    ASSUME NEW j \in LifecycleHead, NEW e \in Logs, NEW s, NEW k, NEW u, Unpinned(j, u),
           e.type = "archive_restore_started", e.to = "archiving", e.then = "extract",
           e.else = "fail", k["hot"] = "none", k["archive"] = "whole"
    PROVE  Promise(e, "restore_hot", s, j, k, u)
<1> SUFFICES ASSUME NEW w \in Nat, Applies(j, e, w)
             PROVE  /\ Lawful(Apply(j, e), j, k, u)
                    /\ Known("extract", "restore_hot", s, Apply(j, e), k, u)
  BY FailKnows DEF Promise
<1>1. <<j.state, "archiving">> \in Storage!LifeCycle
      /\ Storage!Claims["archiving"] \subseteq Complete(k)
  BY HeadAfter, Table, Cycle
<1>2. Known("extract", "restore_hot", s, Apply(j, e), k, u)
  BY DEF Known, Belongs, KnownCopies, KnownTrash
<1> QED BY <1>1, <1>2, LawfulMove

LEMMA PromiseRestoreCompleted ==
    ASSUME NEW j \in LifecycleHead, NEW e \in Logs, NEW s, NEW k, NEW u, Unpinned(j, u),
           e.type = "archive_restore_completed", e.to = "hot", e.then = "ok",
           e.else = "fail", k["hot"] = "whole", k["archive"] = "none"
    PROVE  Promise(e, "restore_hot", s, j, k, u)
<1> SUFFICES ASSUME NEW w \in Nat, Applies(j, e, w)
             PROVE  /\ Lawful(Apply(j, e), j, k, u)
                    /\ Known("ok", "restore_hot", s, Apply(j, e), k, u)
  BY FailKnows DEF Promise
<1>1. <<j.state, "hot">> \in Storage!LifeCycle /\ Storage!Claims["hot"] \subseteq Complete(k)
  BY HeadAfter, Table, Cycle
<1>2. Known("ok", "restore_hot", s, Apply(j, e), k, u)
  BY HeadAfter DEF Known, Belongs, KnownCopies, KnownTrash, DoneIn
<1> QED BY <1>1, <1>2, LawfulMove

(* The events of _failure: after them, the call fails. *)
LEMMA PromiseFailed ==
    ASSUME NEW j \in LifecycleHead, NEW e \in Logs, NEW o, NEW s, NEW k, NEW u, Unpinned(j, u),
           e.then = "fail", e.else = "fail",
           \/ e.type = "archive_failed" /\ k["hot"] = "whole"
           \/ e.type = "archive_restore_failed" /\ k["archive"] = "whole"
           \/ e.type \in {"hot_cleanup_failed", "trash_failed"} /\ e.to = e.from
    PROVE  Promise(e, o, s, j, k, u)
<1> SUFFICES ASSUME NEW w \in Nat, Applies(j, e, w)
             PROVE  Lawful(Apply(j, e), j, k, u)
  BY FailKnows DEF Promise
<1>1. CASE e.type = "archive_failed" /\ k["hot"] = "whole"
  <2>1. j.state = "archiving" /\ e.to = "hot"
    <3>1. <<j.state, e.to>> \in Transitions[e.type]
      BY HeadAfter
    <3> QED BY <1>1, <3>1, Table
  <2>2. <<j.state, e.to>> \in Storage!LifeCycle /\ Storage!Claims[e.to] \subseteq Complete(k)
    BY <1>1, <2>1, Cycle
  <2> QED BY <1>1, <2>1, <2>2, LawfulMove
<1>2. CASE e.type = "archive_restore_failed" /\ k["archive"] = "whole"
  <2>1. j.state = "archiving" /\ e.to = "archived"
    <3>1. <<j.state, e.to>> \in Transitions[e.type]
      BY HeadAfter
    <3> QED BY <1>2, <3>1, Table
  <2>2. <<j.state, e.to>> \in Storage!LifeCycle /\ Storage!Claims[e.to] \subseteq Complete(k)
    BY <1>2, <2>1, Cycle
  <2> QED BY <1>2, <2>1, <2>2, LawfulMove
<1>3. CASE e.type \in {"hot_cleanup_failed", "trash_failed"} /\ e.to = e.from
  <2>1. Unpinned(Apply(j, e), u)
    BY <1>3, HeadAfter DEF Unpinned, Completes
  <2>2. Apply(j, e).state = j.state
    BY <1>3, HeadAfter
  <2> QED BY <2>1, <2>2, HeadAfter DEF Lawful
<1> QED BY <1>1, <1>2, <1>3

LEMMA PromiseTrashStarted ==
    ASSUME NEW j \in LifecycleHead, NEW e \in Logs, NEW s, NEW k, NEW u,
           e.type = "trash_started", e.from = s.state, e.to = s.state, e.then = "enter",
           e.else = "fail", ~j.keep, ~u, s.state \in Away, k[Place(s.state)] = "whole"
    PROVE  Promise(e, "trash", s, j, k, u)
<1> SUFFICES ASSUME NEW w \in Nat, Applies(j, e, w)
             PROVE  /\ Lawful(Apply(j, e), j, k, u)
                    /\ Known("enter", "trash", s, Apply(j, e), k, u)
  BY FailKnows DEF Promise
<1>1. Apply(j, e).state = j.state /\ Apply(j, e).keep = j.keep
  <2>1. Apply(j, e).state = e.to /\ e.from = j.state
    BY HeadAfter
  <2>2. Apply(j, e).keep = IF e.type = "keep_changed" THEN e.keep ELSE j.keep
    BY HeadAfter
  <2> QED BY <2>1, <2>2
<1>2. Unpinned(Apply(j, e), u)
  BY <1>1 DEF Unpinned
<1>3. Known("enter", "trash", s, Apply(j, e), k, u)
  BY DEF Known, Belongs, KnownCopies, KnownTrash
<1> QED BY <1>1, <1>2, <1>3, HeadAfter DEF Lawful

LEMMA PromiseTrashed ==
    ASSUME NEW j \in LifecycleHead, NEW e \in Logs, NEW s, NEW k, NEW u, Unpinned(j, u),
           e.type = "trashed", e.from \in Away, e.to = "trash", e.then = "ok",
           e.else = "fail", k["payload"] = "whole"
    PROVE  Promise(e, "trash", s, j, k, u)
<1> SUFFICES ASSUME NEW w \in Nat, Applies(j, e, w)
             PROVE  /\ Lawful(Apply(j, e), j, k, u)
                    /\ Known("ok", "trash", s, Apply(j, e), k, u)
  BY FailKnows DEF Promise
<1>1. /\ <<j.state, "trash">> \in Storage!LifeCycle
      /\ Storage!Claims["trash"] \subseteq Complete(k)
  BY HeadAfter, Cycle DEF Away
<1>2. j.pending = "trash_started" /\ Apply(j, e).pending = "none"
      /\ Apply(j, e).state = "trash"
  <2>1. "trashed" \in DOMAIN Completes /\ Completes["trashed"] = "trash_started"
    BY DEF Completes
  <2>2. e.type \in DOMAIN Completes /\ Completes[e.type] = "trash_started"
    BY <2>1
  <2>3. j.pending = Completes[e.type] /\ Apply(j, e).pending = "none"
    BY <2>2, HeadAfter
  <2>4. Apply(j, e).state = "trash"
    BY HeadAfter
  <2> QED BY <2>2, <2>3, <2>4
<1>3. Lawful(Apply(j, e), j, k, u)
  BY <1>1, <1>2, HeadAfter DEF Lawful, Unpinned
<1>4. Known("ok", "trash", s, Apply(j, e), k, u)
  BY <1>2 DEF Known, Belongs, KnownCopies, KnownTrash, DoneIn
<1> QED BY <1>3, <1>4

LEMMA PromiseTrashRestored ==
    ASSUME NEW j \in LifecycleHead, NEW e \in Logs, NEW s, NEW k, NEW u, Unpinned(j, u),
           e.type = "trash_restored", e.to = s.previous, e.then = "tidy", e.else = "undo",
           s.previous \in Away, k[Place(s.previous)] = "whole", k["payload"] = "none"
    PROVE  Promise(e, "restore_trash", s, j, k, u)
<1> SUFFICES ASSUME NEW w \in Nat, Applies(j, e, w)
             PROVE  /\ Lawful(Apply(j, e), j, k, u)
                    /\ Known("tidy", "restore_trash", s, Apply(j, e), k, u)
                    /\ Known("undo", "restore_trash", s, Apply(j, e), k, u)
  BY DEF Promise
<1>1. /\ <<j.state, e.to>> \in Storage!LifeCycle
      /\ Storage!Claims[e.to] \subseteq Complete(k)
  BY HeadAfter, Table, Cycle DEF Away, Place
<1>2. Lawful(Apply(j, e), j, k, u)
  BY <1>1, LawfulMove DEF Away
<1>3. Known("tidy", "restore_trash", s, Apply(j, e), k, u)
  BY HeadAfter DEF Known, Belongs, KnownCopies, KnownTrash
<1>4. Known("undo", "restore_trash", s, Apply(j, e), k, u)
  BY DEF Known, Belongs, KnownCopies, KnownTrash
<1> QED BY <1>2, <1>3, <1>4

LEMMA PromiseKeep ==
    ASSUME NEW j \in LifecycleHead, NEW e \in Logs, NEW o \in {"keep", "unkeep"}, NEW s, NEW k,
           NEW u, j.pending = "none", e.type = "keep_changed", e.from = e.to, e.then = "ok",
           e.else = "fail", e.keep <=> o = "keep", u <=> o = "keep"
    PROVE  Promise(e, o, s, j, k, u)
<1> SUFFICES ASSUME NEW w \in Nat, Applies(j, e, w)
             PROVE  /\ Lawful(Apply(j, e), j, k, u)
                    /\ Known("ok", o, s, Apply(j, e), k, u)
  BY FailKnows DEF Promise
<1>1. /\ Apply(j, e).state = j.state /\ Apply(j, e).keep = e.keep
      /\ Apply(j, e).pending = "none"
  BY HeadAfter DEF Starts, Completes
<1>2. Lawful(Apply(j, e), j, k, u)
  BY <1>1, HeadAfter DEF Lawful, Unpinned
<1>3. Known("ok", o, s, Apply(j, e), k, u)
  BY <1>1 DEF Known, Belongs, KnownCopies, KnownTrash, DoneIn
<1> QED BY <1>2, <1>3

-----------------------------------------------------------------------------
(* What the caller is held to when it is at a step. *)
LEMMA AtStep ==
    ASSUME Inv, NEW c \in Callers
    PROVE  /\ CallerOK(pc[c], log[c], call[c], seen[c], journal, carrier, pin)
           /\ Known(pc[c], call[c], seen[c], journal, carrier, pin)
BY DEF Inv, CallerOK

(* An event as it is announced. *)
LEMMA Logged ==
    ASSUME Inv, NEW c \in Callers, NEW type, NEW from, NEW to, NEW named, NEW then,
           NEW else, Announced(c, type, from, to, named, then, else)
    PROVE  /\ log'[c] \in Logs /\ log'[c].type = type /\ log'[c].from = from
           /\ log'[c].to = to /\ log'[c].then = then /\ log'[c].else = else
           /\ log'[c].keep <=> call[c] = "keep"
           /\ DOMAIN log' = Callers /\ DOMAIN pc' = Callers
BY DEF Announced, Log, Logs, Inv, Types, Goto

(* A step that changes nothing but what its caller sees. *)
LEMMA QuietTypes ==
    ASSUME Types, NEW c \in Callers, Quiet, Local \/ Look(c),
           DOMAIN pc' = Callers, DOMAIN log' = Callers
    PROVE  Types'
<1>1. journal.operation \in Nat
  BY DEF Types, TypeOK, LifecycleHead
<1> QED BY <1>1 DEF Types, TypeOK, Quiet, Elsewhere, Local, Look, files

LEMMA QuietGoes ==
    ASSUME Inv, Serial, NEW c \in Callers, NEW at, at \notin Appending, Goto(c, at),
           UNCHANGED log, Quiet, Local \/ Look(c), at = "ok" => call[c] \in Running,
           Known(at, call[c], seen'[c], journal, carrier, pin)
    PROVE  Inv' /\ Orderly
<1>1. Types'
  BY QuietTypes DEF Inv, Types, Goto
<1>2. UNCHANGED <<journal, carrier, record, pin, call>>
  BY DEF Quiet, Elsewhere, files
<1>3. Unlocked(at, call'[c], locked')
  BY <1>2 DEF Unlocked
<1>4. Somewhere(carrier') /\ Unpinned(journal, pin') /\ RecordOK(record')
  BY <1>2 DEF Inv
<1> QED BY <1>1, <1>2, <1>3, <1>4, StepsTo, Stays

LEMMA QuietLogs ==
    ASSUME Inv, Serial, NEW c \in Callers, NEW type, NEW from, NEW to, NEW named, NEW then,
           NEW else, Announced(c, type, from, to, named, then, else),
           Quiet, Local \/ Look(c), call[c] \in Running,
           Promise(log'[c], call[c], seen'[c], journal, carrier, pin),
           Known(else, call[c], seen'[c], journal, carrier, pin)
    PROVE  Inv' /\ Orderly
<1>1. Types'
  BY QuietTypes, Logged DEF Inv
<1>2. UNCHANGED <<journal, carrier, record, pin, call>>
  BY DEF Quiet, Elsewhere, files
<1>3. Somewhere(carrier') /\ Unpinned(journal, pin') /\ RecordOK(record')
  BY <1>2 DEF Inv
<1> QED BY <1>1, <1>2, <1>3, Announces, Stays

(* A step that writes or removes one carrier. *)
LEMMA PutTypes ==
    ASSUME Types, NEW p \in Places, NEW w \in {"none", "whole", "part"}, Put(p, w),
           Elsewhere, Local, DOMAIN pc' = Callers, DOMAIN log' = Callers
    PROVE  /\ Types' /\ UNCHANGED <<journal, record, pin, call, seen>>
           /\ carrier'[p] = w /\ \A q \in Places \ {p} : carrier'[q] = carrier[q]
BY DEF Types, TypeOK, Put, Elsewhere, Local

LEMMA PutGoes ==
    ASSUME Inv, Serial, NEW c \in Callers, NEW at, at \notin Appending \cup {"ok"}, Goto(c, at),
           UNCHANGED log, NEW p \in Places, NEW w \in {"none", "whole", "part"}, Put(p, w),
           Elsewhere, Local, Somewhere(carrier'),
           Known(at, call[c], seen[c], journal, carrier', pin)
    PROVE  Inv' /\ Orderly
<1>1. Types' /\ UNCHANGED <<journal, record, pin, call, seen>>
  BY PutTypes DEF Inv, Types, Goto
<1>2. Unlocked(at, call'[c], locked')
  BY DEF Unlocked
<1>3. Unpinned(journal, pin') /\ RecordOK(record')
  BY <1>1 DEF Inv
<1>4. Orderly
  BY <1>1, Puts DEF Put, Inv
<1> QED BY <1>1, <1>2, <1>3, <1>4, StepsTo

LEMMA PutLogs ==
    ASSUME Inv, Serial, NEW c \in Callers, NEW type, NEW from, NEW to, NEW named, NEW then,
           NEW else, Announced(c, type, from, to, named, then, else),
           NEW p \in Places, NEW w \in {"none", "whole", "part"}, Put(p, w),
           Elsewhere, Local, call[c] \in Running, Somewhere(carrier'),
           Promise(log'[c], call[c], seen[c], journal, carrier', pin),
           Known(else, call[c], seen[c], journal, carrier', pin)
    PROVE  Inv' /\ Orderly
<1>1. Types' /\ UNCHANGED <<journal, record, pin, call, seen>>
  BY PutTypes, Logged DEF Inv
<1>2. Unpinned(journal, pin') /\ RecordOK(record')
  BY <1>1 DEF Inv
<1>3. Orderly
  BY <1>1, Puts DEF Put, Inv
<1> QED BY <1>1, <1>2, <1>3, Announces

-----------------------------------------------------------------------------
(* Calls, answers and kills. *)
LEMMA CallKeeps ==
    ASSUME Inv, Serial, NEW c \in Callers, NEW o \in Operations, Call(c, o)
    PROVE  Inv' /\ Orderly
<1>1. Types' /\ call'[c] = o /\ UNCHANGED <<journal, carrier, record, pin, seen>>
  BY OperationsAssumption DEF Call, Goto, files, Inv, Types, TypeOK
<1>2. o \notin Appending /\ o # "ok"
  BY OperationsAssumption DEF Calls, Appending
<1>3. Known(o, call'[c], seen'[c], journal, carrier', pin')
  BY <1>1, OperationsAssumption DEF Calls, Known, Belongs, KnownCopies, KnownTrash
<1>4. Somewhere(carrier') /\ Unpinned(journal, pin') /\ RecordOK(record')
  BY <1>1 DEF Inv
<1>5. Goto(c, o) /\ Unlocked(o, call'[c], locked')
  BY <1>2 DEF Call, Unlocked
<1> QED BY <1>1, <1>2, <1>3, <1>4, <1>5, StepsTo, Stays

LEMMA EndedKeeps ==
    ASSUME Inv, Serial, NEW c \in Callers, Ended(c), UNCHANGED <<journal, files, calls>>,
           locked' \in Callers \cup {Nobody, Dead}, faults' \in 0..MaxFaults
    PROVE  Inv' /\ Orderly
<1>1. NoHead \in LifecycleHead
  BY DEF NoHead, LifecycleHead, States
<1>2. Types' /\ UNCHANGED <<journal, carrier, record, pin>>
  BY <1>1 DEF Ended, Goto, files, Inv, Types, TypeOK
<1>3. Known("idle", call'[c], seen'[c], journal, carrier', pin')
  BY DEF Known, Belongs, KnownCopies, KnownTrash
<1>4. Somewhere(carrier') /\ Unpinned(journal, pin') /\ RecordOK(record')
  BY <1>2 DEF Inv
<1>5. Goto(c, "idle") /\ Unlocked("idle", call'[c], locked') /\ "idle" \notin Appending
  BY DEF Ended, Unlocked, Appending
<1> QED BY <1>2, <1>3, <1>4, <1>5, StepsTo, Stays

(* A failure is counted. *)
LEMMA FaultCounts == ASSUME Types, NEW kind, Fault(kind) PROVE faults' \in 0..MaxFaults
BY JournalAssumption DEF Types, TypeOK, Fault

LEMMA ReturnKeeps ==
    ASSUME Inv, Serial, NEW c \in Callers, Return(c) PROVE Inv' /\ Orderly
BY EndedKeeps DEF Return, Inv, Types, TypeOK

LEMMA CrashKeeps ==
    ASSUME Inv, Serial, NEW c \in Callers, Crash(c) PROVE Inv' /\ Orderly
<1>1. locked' \in Callers \cup {Nobody, Dead} /\ faults' \in 0..MaxFaults
  BY FaultCounts DEF Crash, Abandoned, Inv, Types, TypeOK
<1> QED BY <1>1, EndedKeeps DEF Crash

-----------------------------------------------------------------------------
(* The journal. *)
LEMMA JournalTypes ==
    ASSUME Types, NEW c \in Callers, UNCHANGED <<carrier, record, pin, call, seen, calls>>,
           journal' \in LifecycleHead, locked' \in Callers \cup {Nobody, Dead},
           operation' \in [Callers -> Nat], faults' \in 0..MaxFaults,
           DOMAIN pc' = Callers, DOMAIN log' = Callers
    PROVE  Types'
BY DEF Types, TypeOK

(* An append that goes on holds to its promise. *)
LEMMA GoesOn ==
    ASSUME Inv, Serial, NEW c \in Callers, NEW at \in {"acquire", "write"}, Goto(c, at), Types',
           pc[c] \in {"expect", "acquire"},
           UNCHANGED <<journal, carrier, record, pin, call, seen>>,
           log'[c] \in Logs, log'[c].then = log[c].then, log'[c].else = log[c].else,
           \A w : /\ Applies(journal, log'[c], w) <=> Applies(journal, log[c], w)
                  /\ Apply(journal, log'[c]) = Apply(journal, log[c])
    PROVE  Inv' /\ Orderly
<1>1. pc'[c] = at /\ \A d \in Callers : d = c
  BY DEF Goto, Inv, Types, Serial
<1>2. /\ call[c] \in Running /\ Known(log[c].else, call[c], seen[c], journal, carrier, pin)
      /\ Promise(log[c], call[c], seen[c], journal, carrier, pin)
  BY AtStep DEF CallerOK, Appending
<1>3. Promise(log'[c], call[c], seen[c], journal, carrier, pin)
  BY <1>2 DEF Promise
<1>4. Known(at, call[c], seen[c], journal, carrier, pin)
  BY DEF Known, Belongs, KnownCopies, KnownTrash
<1>5. CallerOK(pc'[c], log'[c], call'[c], seen'[c], journal', carrier', pin')
  BY <1>1, <1>2, <1>3, <1>4 DEF CallerOK
<1>6. Unlocked(pc'[c], call'[c], locked')
  BY <1>1 DEF Unlocked
<1>7. Somewhere(carrier') /\ Unpinned(journal', pin') /\ RecordOK(record')
  BY DEF Inv
<1> QED BY <1>1, <1>5, <1>6, <1>7, Stays DEF Inv

(* An append that is given up leads to the exception handler. *)
LEMMA GivesUp ==
    ASSUME Inv, Serial, NEW c \in Callers, pc[c] \in Appending, NotAppended(c), Types',
           UNCHANGED <<journal, carrier, record, pin, call, seen>>
    PROVE  Inv' /\ Orderly
<1>1. /\ call[c] \in Running /\ Known(log[c].else, call[c], seen[c], journal, carrier, pin)
      /\ log[c].else \in Ends
  BY AtStep DEF CallerOK, Logs
<1>2. log[c].else \notin Appending
  BY <1>1 DEF Ends, Appending
<1>3. Unlocked(log[c].else, call'[c], locked')
  BY <1>1 DEF Unlocked
<1>4. Somewhere(carrier') /\ Unpinned(journal, pin') /\ RecordOK(record')
  BY DEF Inv
<1> QED BY <1>1, <1>2, <1>3, <1>4, StepsTo, Stays DEF NotAppended

LEMMA ExpectKeeps ==
    ASSUME Inv, Serial, NEW c \in Callers, Expect(c) PROVE Inv' /\ Orderly
<1>1. log[c] \in Logs /\ journal.revision \in Nat /\ pc[c] = "expect"
  BY AtStep DEF Expect, At, CallerOK, Appending, Inv, Types, TypeOK, LifecycleHead
<1>2. UNCHANGED <<journal, locked, carrier, record, pin, call, seen, operation, calls>>
  BY DEF Expect, local, files
<1>3. CASE /\ log' = [log EXCEPT ![c].expects = journal.revision]
           /\ Goto(c, "acquire") /\ UNCHANGED faults
  <2>1. Types'
    BY <1>2, <1>3, JournalTypes DEF Goto, Inv, Types, TypeOK
  <2>2. log'[c] = [log[c] EXCEPT !.expects = journal.revision]
    BY <1>3 DEF Inv, Types
  <2>3. log'[c] \in Logs
    BY <1>1, <2>2 DEF Logs
  <2>4. /\ log'[c].type = log[c].type /\ log'[c].from = log[c].from /\ log'[c].to = log[c].to
        /\ log'[c].keep = log[c].keep /\ log'[c].then = log[c].then /\ log'[c].else = log[c].else
    BY <1>1, <2>2 DEF Logs
  <2>5. \A w : /\ Applies(journal, log'[c], w) <=> Applies(journal, log[c], w)
               /\ Apply(journal, log'[c]) = Apply(journal, log[c])
    BY <2>4 DEF Applies, Apply
  <2> QED BY <1>1, <1>2, <1>3, <2>1, <2>3, <2>4, <2>5, GoesOn
<1>4. CASE NotAppended(c) /\ faults' \in 0..MaxFaults
  <2>1. Types'
    BY <1>2, <1>4, JournalTypes DEF NotAppended, Goto, Inv, Types, TypeOK
  <2> QED BY <1>1, <1>2, <1>4, <2>1, GivesUp DEF Appending
<1>5. UNCHANGED faults => faults' \in 0..MaxFaults
  BY DEF Inv, Types, TypeOK
<1> QED BY <1>3, <1>4, <1>5, FaultCounts DEF Expect, Inv

LEMMA AcquireKeeps ==
    ASSUME Inv, Serial, NEW c \in Callers, Acquire(c),
           UNCHANGED <<files, call, seen, calls>>
    PROVE  Inv' /\ Orderly
<1>1. log[c] \in Logs /\ pc[c] = "acquire"
  BY AtStep DEF Acquire, At, CallerOK, Appending
<1>2. UNCHANGED <<journal, carrier, record, pin, call, seen, operation, calls, log, faults>>
  BY DEF Acquire, files
<1>3. Types'
  BY <1>2, JournalTypes DEF Acquire, Goto, Inv, Types, TypeOK
<1> QED BY <1>1, <1>2, <1>3, GoesOn DEF Acquire

(* Every way in which an append is given up. *)
LEMMA NotAppendedKeeps ==
    ASSUME Inv, Serial, NEW c \in Callers,
           Busy(c) \/ AcquireError(c) \/ NotWritten(c) \/ ReleaseError(c),
           UNCHANGED <<files, call, seen, calls>>
    PROVE  Inv' /\ Orderly
<1>1. pc[c] \in Appending /\ NotAppended(c)
  BY DEF Busy, AcquireError, NotWritten, ReleaseError, At, Appending
<1>2. UNCHANGED <<journal, carrier, record, pin, call, seen, operation, calls>>
  BY DEF Busy, AcquireError, NotWritten, ReleaseError, files
<1>3. locked' \in Callers \cup {Nobody, Dead}
  BY DEF Busy, AcquireError, NotWritten, ReleaseError, Inv, Types, TypeOK
<1>4. faults' \in 0..MaxFaults
  BY FaultCounts DEF Busy, AcquireError, NotWritten, ReleaseError, Inv, Types, TypeOK
<1>5. Types'
  BY <1>1, <1>2, <1>3, <1>4, JournalTypes DEF NotAppended, Goto, Inv, Types, TypeOK
<1> QED BY <1>1, <1>2, <1>5, GivesUp

(* The event is written: the journal is what the caller promised. *)
LEMMA WriteKeeps ==
    ASSUME Inv, Serial, NEW c \in Callers, Write(c), UNCHANGED <<files, call, seen, calls>>
    PROVE  Inv' /\ Orderly
<1>1. /\ pc[c] = "write" /\ pc'[c] = "release" /\ \A d \in Callers : d = c
      /\ UNCHANGED <<carrier, record, pin, call, seen, calls, locked, log, faults>>
      /\ journal' = Apply(journal, log[c])
  BY DEF Write, At, Goto, files, Serial, Inv, Types
<1>2. /\ call[c] \in Running /\ log[c] \in Logs
      /\ Promise(log[c], call[c], seen[c], journal, carrier, pin)
  BY <1>1, AtStep DEF CallerOK, Appending
<1>3. operation[c] \in Nat /\ journal.revision \in Nat
  BY DEF Inv, Types, TypeOK, LifecycleHead
<1>4. /\ Lawful(journal', journal, carrier, pin)
      /\ Known(log[c].then, call[c], seen[c], journal', carrier, pin)
      /\ Known(log[c].else, call[c], seen[c], journal', carrier, pin)
  BY <1>1, <1>2, <1>3 DEF Write, Agreed, Promise
<1>5. Types'
  <2>1. operation' \in [Callers -> Nat]
    BY <1>3 DEF Write, Inv, Types, TypeOK
  <2>2. journal' \in LifecycleHead
    BY <1>4 DEF Lawful
  <2> QED BY <1>1, <2>1, <2>2, JournalTypes DEF Write, Goto, Inv, Types, TypeOK
<1>6. Known("release", call[c], seen[c], journal', carrier, pin)
  BY DEF Known, Belongs, KnownCopies, KnownTrash
<1>7. CallerOK(pc'[c], log'[c], call'[c], seen'[c], journal', carrier', pin')
  BY <1>1, <1>2, <1>4, <1>6 DEF CallerOK
<1>8. Unlocked(pc'[c], call'[c], locked')
  BY <1>1 DEF Unlocked
<1>9. Inv'
  BY <1>1, <1>4, <1>5, <1>7, <1>8 DEF Inv, Lawful
<1>10. Kept
  BY <1>4 DEF Kept, Lawful
<1>11. [Storage!Next]_(Storage!vars)
  <2>1. CASE journal'.state = journal.state
    BY <1>1, <2>1 DEF Storage!vars, Whole
  <2>2. CASE journal'.state # journal.state
    <3>1. /\ <<journal.state, journal'.state>> \in Storage!LifeCycle
          /\ Storage!Claims[journal'.state] \subseteq {p \in Places : Whole(p)}
      BY <1>4, <2>2 DEF Lawful, Complete, Whole
    <3>2. journal'.state \in DOMAIN Storage!Claims
      BY <1>4 DEF Lawful, LifecycleHead, States, Storage!Claims
    <3>3. Storage!Become(journal'.state)
      BY <1>1, <3>1 DEF Storage!Become, Whole
    <3> QED BY <3>2, <3>3 DEF Storage!Next
  <2> QED BY <2>1, <2>2
<1> QED BY <1>9, <1>10, <1>11 DEF Orderly

LEMMA ReleaseKeeps ==
    ASSUME Inv, Serial, NEW c \in Callers, Release(c), UNCHANGED <<files, call, seen, calls>>
    PROVE  Inv' /\ Orderly
<1>1. /\ pc[c] = "release" /\ Goto(c, log[c].then)
      /\ UNCHANGED <<journal, carrier, record, pin, call, seen, calls, operation, faults>>
  BY DEF Release, At, Appended, files
<1>2. /\ call[c] \in Running /\ log[c].then \in Ends
      /\ Known(log[c].then, call[c], seen[c], journal, carrier, pin)
  BY <1>1, AtStep DEF CallerOK, Appending, Logs
<1>3. log[c].then \notin Appending
  BY <1>2 DEF Ends, Appending
<1>4. Types'
  BY <1>1, JournalTypes DEF Release, Appended, Goto, Inv, Types, TypeOK
<1>5. Unlocked(log[c].then, call'[c], locked')
  BY <1>1, <1>2 DEF Unlocked
<1>6. Somewhere(carrier') /\ Unpinned(journal, pin') /\ RecordOK(record')
  BY <1>1 DEF Inv
<1> QED BY <1>1, <1>2, <1>3, <1>4, <1>5, <1>6, StepsTo, Stays

(* Recovery of the lock file. *)
LEMMA RecoverKeeps ==
    ASSUME Inv, Serial, NEW c \in Callers, RecoverLock(c) \/ Unlink(c),
           UNCHANGED <<files, call, seen, calls>>
    PROVE  Inv' /\ Orderly
<1>1. UNCHANGED <<journal, carrier, record, pin, call, seen, calls, operation, log, faults>>
  BY DEF RecoverLock, Unlink, files
<1>2. PICK at \in {"unlink", "fail", "ok"} :
        Goto(c, at) /\ (at = "ok" => locked' = Nobody) /\ call[c] = "recover_lock"
  BY AtStep DEF RecoverLock, Unlink, At, Known, Belongs
<1>3. Types'
  BY <1>1, <1>2, JournalTypes DEF RecoverLock, Unlink, Goto, Inv, Types, TypeOK
<1>4. Known(at, call[c], seen[c], journal, carrier, pin) /\ at \notin Appending
  BY <1>2 DEF Known, Belongs, KnownCopies, KnownTrash, DoneIn, Appending
<1>5. Unlocked(at, call'[c], locked')
  BY <1>2 DEF Unlocked
<1>6. Somewhere(carrier') /\ Unpinned(journal, pin') /\ RecordOK(record')
  BY <1>1 DEF Inv
<1> QED BY <1>1, <1>2, <1>3, <1>4, <1>5, <1>6, StepsTo, Stays

LEMMA RecordKeeps ==
    ASSUME Inv, Serial, NEW c \in Callers, Record(c) PROVE Inv' /\ Orderly
BY AcquireKeeps, NotAppendedKeeps, WriteKeeps, ReleaseKeeps, RecoverKeeps DEF Record, AppendEvent

-----------------------------------------------------------------------------
(* The head seen, the announcements' types, and what a step has verified. *)
LEMMA Seen ==
    ASSUME Inv, NEW c \in Callers
    PROVE  /\ journal \in LifecycleHead /\ journal.state \in States
           /\ seen[c] \in LifecycleHead /\ seen[c].state \in States
           /\ seen[c].previous \in States
           /\ carrier \in [Places -> {"none", "whole", "part"}] /\ Unpinned(journal, pin)
BY DEF Inv, Types, TypeOK, LifecycleHead

LEMMA EventNames ==
    /\ Kinds = {"hot_discovered", "keep_changed", "archive_started", "archive_verified",
                "archive_failed", "hot_cleanup_started", "hot_cleanup_completed",
                "hot_cleanup_failed", "archive_restore_started", "archive_restore_completed",
                "archive_restore_failed", "trash_started", "trashed", "trash_failed",
                "trash_restored"}
    /\ States = {"none", "hot", "archiving", "archived_duplicate", "archived", "trash"}
    /\ Places = {"hot", "archive", "payload"}
    /\ Ends = {"discovered", "existing", "build", "cleanup", "compare", "extract", "enter",
               "tidy", "undo", "ok", "fail"}
    /\ \A s : Place(s) \in Places
    /\ \A s \in Away : Place(s) \in {"hot", "archive"}
BY DEF Kinds, Transitions, States, Places, Ends, Place, Away

LEMMA DiscoverKeeps ==
    ASSUME Inv, Serial, NEW c \in Callers, Discover(c) PROVE Inv' /\ Orderly
<1> DEFINE named == IF call[c] = "trash" THEN "none" ELSE "hot"
<1>1. Look(c) /\ carrier["hot"] = "whole" /\ pc[c] \in {"archive", "trash", "keep", "unkeep"}
  BY DEF Discover, Whole
<1>2. Quiet
  BY DEF Discover, Quiet, Elsewhere
<1>3. call[c] \in {"archive", "trash", "keep", "unkeep"}
  BY <1>1, AtStep DEF Known, Belongs
<1>4. Announced(c, "hot_discovered", "none", "hot", named, "discovered", "fail")
  BY EventNames DEF Announced, Discover
<1>5. Promise(log'[c], call[c], seen'[c], journal, carrier, pin)
  BY <1>1, <1>3, <1>4, Logged, PromiseDiscovered, Seen
<1>6. call[c] \in Running
  BY <1>3 DEF Running
<1> QED BY <1>1, <1>2, <1>4, <1>5, <1>6, QuietLogs, FailKnows

LEMMA DiscoveredKeeps ==
    ASSUME Inv, Serial, NEW c \in Callers, Discovered(c) PROVE Inv' /\ Orderly
<1>1. /\ Look(c) /\ Quiet /\ UNCHANGED log /\ pc[c] = "discovered"
  BY DEF Discovered, Quiet, Elsewhere, At
<1>2. carrier["hot"] = "whole" /\ call[c] \in {"archive", "trash", "keep", "unkeep"}
  BY <1>1, AtStep DEF Known, Belongs, KnownCopies
<1>3. seen'[c] = journal
  BY <1>1 DEF Look, Inv, Types, TypeOK
<1>4. PICK at \in {"bundle", "trashing", "keeping"} :
        /\ Goto(c, at) /\ (at = "bundle" <=> call[c] = "archive")
        /\ (at = "trashing" <=> call[c] = "trash")
  BY DEF Discovered
<1>5. Known(at, call[c], seen'[c], journal, carrier, pin) /\ at \notin Appending
  BY <1>2, <1>3, <1>4 DEF Known, Belongs, KnownCopies, KnownTrash, Appending
<1> QED BY <1>1, <1>4, <1>5, QuietGoes

LEMMA CheckKeeps ==
    ASSUME Inv, Serial, NEW c \in Callers, Check(c) PROVE Inv' /\ Orderly
<1>1. /\ Local /\ Quiet /\ UNCHANGED log /\ seen'[c] = seen[c]
  BY DEF Check, Local
<1>2. PICK at \in {"remove_hot", "drop", "move"} :
        /\ Goto(c, at)
        /\ \/ pc[c] = "compare" /\ at = "remove_hot"
           \/ pc[c] = "extracted" /\ at = "drop"
           \/ pc[c] = "enter" /\ at = "move"
  BY DEF Check, CheckedBefore
<1>3. Known(at, call[c], seen[c], journal, carrier, pin) /\ at \notin Appending
  BY <1>2, AtStep DEF Known, Belongs, KnownCopies, KnownTrash, Appending
<1> QED BY <1>1, <1>2, <1>3, QuietGoes

LEMMA FailKeeps ==
    ASSUME Inv, Serial, NEW c \in Callers, Fail(c) PROVE Inv' /\ Orderly
<1>1. Quiet /\ Local /\ seen'[c] = seen[c] /\ seen[c].state \in States
  BY Seen DEF Fail, Local
<1>2. call[c] \in Running
  BY AtStep DEF Fail, At, Known, Belongs, Running
<1>3. \A type, from, to, named :
        /\ Announced(c, type, from, to, named, "fail", "fail")
        /\ Promise(log'[c], call[c], seen[c], journal, carrier, pin)
        => Inv' /\ Orderly
  BY <1>1, <1>2, QuietLogs, FailKnows
<1>4. CASE At(c, "unarchive") /\ LogFailure(c, "archive_failed", "archiving", "hot", "hot")
  <2>1. carrier["hot"] = "whole"
    BY <1>4, AtStep DEF At, Known, KnownCopies
  <2>2. Announced(c, "archive_failed", "archiving", "hot", "hot", "fail", "fail")
    BY <1>4, EventNames DEF Announced, LogFailure
  <2>3. Promise(log'[c], call[c], seen[c], journal, carrier, pin)
    BY <2>1, <2>2, Logged, PromiseFailed, Seen
  <2> QED BY <1>3, <2>2, <2>3
<1>5. CASE /\ At(c, "uncleaned")
           /\ LogFailure(c, "hot_cleanup_failed", "archived_duplicate", "archived_duplicate",
                         "archive")
  <2>1. Announced(c, "hot_cleanup_failed", "archived_duplicate", "archived_duplicate", "archive",
                  "fail", "fail")
    BY <1>5, EventNames DEF Announced, LogFailure
  <2>2. Promise(log'[c], call[c], seen[c], journal, carrier, pin)
    BY <2>1, Logged, PromiseFailed, Seen
  <2> QED BY <1>3, <2>1, <2>2
<1>6. CASE /\ At(c, "untrash")
           /\ LogFailure(c, "trash_failed", seen[c].state, seen[c].state,
                         IF Present(Home(c)) THEN Home(c) ELSE "payload")
  <2> DEFINE named == IF Present(Home(c)) THEN Home(c) ELSE "payload"
  <2>1. Announced(c, "trash_failed", seen[c].state, seen[c].state, named, "fail", "fail")
    BY <1>1, <1>6, EventNames DEF Announced, LogFailure, Home
  <2> HIDE DEF named
  <2>2. Promise(log'[c], call[c], seen[c], journal, carrier, pin)
    BY <2>1, Logged, PromiseFailed, Seen
  <2> QED BY <1>3, <2>1, <2>2
<1> QED BY <1>4, <1>5, <1>6 DEF Fail

(* Every exception handler finds what it relies on. *)
LEMMA HandlerKnows ==
    ASSUME Inv, NEW c \in Callers, pc[c] \notin Inert
    PROVE  /\ Known(Handler(c), call[c], seen[c], journal, carrier, pin)
           /\ Handler(c) \notin Appending \cup {"ok"}
<1>1. CASE pc[c] \in {"build", "published", "compare", "remove_hot"}
  <2>1. Handler(c) = IF pc[c] \in {"build", "published"} THEN "unarchive" ELSE "uncleaned"
    BY <1>1 DEF Handler
  <2> QED BY <1>1, <2>1, AtStep DEF Known, Belongs, KnownCopies, KnownTrash, Appending
<1>2. CASE pc[c] \in {"extract", "extracted", "drop", "resume_drop"}
  <2>1. Handler(c) = IF pc[c] = "resume_drop" THEN "retract" ELSE "unrestore"
    BY <1>2 DEF Handler
  <2> QED BY <1>2, <2>1, AtStep DEF Known, Belongs, KnownCopies, KnownTrash, Appending
<1>3. CASE pc[c] \in {"enter", "move", "note", "source"}
  <2>1. Handler(c) = "rollback"
    BY <1>3 DEF Handler
  <2>2. CrossVolume \in BOOLEAN
    BY OperationsAssumption
  <2> QED BY <1>3, <2>1, <2>2, AtStep DEF Known, Belongs, KnownCopies, KnownTrash, Appending
<1>4. CASE pc[c] \in {"rollback", "discard"}
  <2>1. Handler(c) = "untrash"
    BY <1>4 DEF Handler
  <2> QED BY <1>4, <2>1, AtStep DEF Known, Belongs, KnownCopies, KnownTrash, Appending
<1>5. CASE pc[c] \in {"leave", "arrive", "tidy"}
  <2>1. Handler(c) = "undo"
    BY <1>5 DEF Handler
  <2>2. CrossVolume \in BOOLEAN
    BY OperationsAssumption
  <2> QED BY <1>5, <2>1, <2>2, AtStep DEF Known, Belongs, KnownCopies, KnownTrash, Appending
<1>6. CASE pc[c] \notin {"build", "published", "compare", "remove_hot", "extract", "extracted",
                         "drop", "resume_drop", "enter", "move", "note", "source", "rollback",
                         "discard", "leave", "arrive", "tidy"}
  <2>1. Handler(c) = "fail"
    BY <1>6 DEF Handler
  <2> QED BY <2>1, FailKnows DEF Appending
<1> QED BY <1>1, <1>2, <1>3, <1>4, <1>5, <1>6

LEMMA RaiseKeeps ==
    ASSUME Inv, Serial, NEW c \in Callers, Raise(c) PROVE Inv' /\ Orderly
<1>1. UNCHANGED <<journal, locked, log, carrier, record, pin, call, seen, operation, calls>>
  BY DEF Raise, local, files
<1>2. faults' \in 0..MaxFaults
  BY FaultCounts DEF Raise, Inv, Types, TypeOK
<1>3. Types'
  BY <1>1, <1>2, JournalTypes DEF Raise, Goto, Inv, Types, TypeOK
<1>4. Somewhere(carrier') /\ Unpinned(journal, pin') /\ RecordOK(record')
  BY <1>1 DEF Inv
<1>5. Goto(c, Handler(c)) /\ pc[c] \notin Inert
  BY DEF Raise
<1>6. Unlocked(Handler(c), call'[c], locked')
  BY <1>5, HandlerKnows DEF Unlocked
<1> QED BY <1>1, <1>3, <1>4, <1>5, <1>6, HandlerKnows, StepsTo, Stays

(* The removal of a directory that stops half way leaves a complete copy.   *)
LEMMA BreakKeeps ==
    ASSUME Inv, Serial, NEW c \in Callers, NEW p \in Places, Break(c, p) PROVE Inv' /\ Orderly
<1>1. /\ UNCHANGED <<journal, locked, log, pin, call, seen, operation, calls>>
      /\ carrier' = [carrier EXCEPT ![p] = "part"] /\ record' \in {record, NoRecord}
      /\ faults' \in 0..MaxFaults /\ ~CrossVolume /\ Goto(c, Handler(c))
  BY FaultCounts, OperationsAssumption DEF Break, local, Inv, Serial, Fault
<1>2. carrier'[p] = "part" /\ \A q \in Places \ {p} : carrier'[q] = carrier[q]
  BY <1>1 DEF Inv, Types, TypeOK
<1>3. /\ Known(pc[c], call[c], seen[c], journal, carrier, pin)
      /\ carrier \in [Places -> {"none", "whole", "part"}]
  BY AtStep, Seen
<1>4. Types'
  <2>1. NoRecord \in [previous : States, operation : Nat, tail : Nat]
    BY DEF NoRecord, States
  <2>2. carrier' \in [Places -> {"none", "whole", "part"}]
    BY <1>1, <1>3
  <2>3. record' \in [previous : States, operation : Nat, tail : Nat]
    BY <1>1, <2>1 DEF Inv, Types, TypeOK
  <2> QED BY <1>1, <2>2, <2>3 DEF Goto, Inv, Types, TypeOK
<1>5. Unpinned(journal, pin') /\ RecordOK(record')
  BY <1>1 DEF Inv, RecordOK
<1>6. CASE pc[c] = "remove_hot" /\ p = "hot"
  <2>1. Handler(c) = "uncleaned" /\ carrier'["archive"] = "whole"
    BY <1>2, <1>3, <1>6, EventNames DEF Handler, Known, KnownCopies
  <2>2. Known("uncleaned", call[c], seen[c], journal, carrier', pin)
    BY <1>3, <1>6, <2>1 DEF Known, Belongs, KnownCopies, KnownTrash
  <2> QED BY <1>1, <1>4, <1>5, <2>1, <2>2, StepsTo, Puts, EventNames
          DEF Somewhere, Unlocked, Appending, Inv
<1>7. CASE pc[c] = "retract" /\ p = "hot"
  <2>1. Handler(c) = "fail" /\ carrier'["archive"] = "whole"
    BY <1>2, <1>3, <1>7, EventNames DEF Handler, Known, KnownCopies
  <2> QED BY <1>1, <1>4, <1>5, <2>1, FailKnows, StepsTo, Puts, EventNames
          DEF Somewhere, Unlocked, Appending, Inv
<1>8. CASE pc[c] = "discard" /\ p = "payload"
  <2>1. Handler(c) = "untrash" /\ carrier[Home(c)] = "whole" /\ Home(c) \in {"hot", "archive"}
    BY <1>3, <1>8, EventNames DEF Handler, Known, KnownTrash, Home
  <2>2. carrier'[Home(c)] = "whole"
    BY <1>2, <1>8, <2>1, EventNames
  <2>3. Known("untrash", call[c], seen[c], journal, carrier', pin)
    BY <1>3, <1>8 DEF Known, Belongs, KnownCopies, KnownTrash
  <2> QED BY <1>1, <1>4, <1>5, <2>1, <2>2, <2>3, StepsTo, Puts, EventNames
          DEF Somewhere, Unlocked, Appending, Inv
<1>9. CASE pc[c] = "undo" /\ Present("payload") /\ p = "hot" /\ Target(c) = "hot" /\ Present(p)
  <2>1. Handler(c) = "fail" /\ carrier["payload"] = "whole"
    BY <1>3, <1>9 DEF Handler, Known, KnownTrash, Present, Target
  <2>2. carrier'["payload"] = "whole"
    BY <1>2, <1>9, <2>1, EventNames
  <2> QED BY <1>1, <1>4, <1>5, <2>1, <2>2, FailKnows, StepsTo, Puts, EventNames
          DEF Somewhere, Unlocked, Appending, Inv
<1>10. pc[c] # "source" /\ ~(pc[c] = "arrive" /\ CrossVolume)
  BY <1>1, <1>3 DEF Known, KnownTrash
<1> QED BY <1>6, <1>7, <1>8, <1>9, <1>10 DEF Break, At

-----------------------------------------------------------------------------
(* archive *)
LEMMA ArchiveKeeps ==
    ASSUME Inv, Serial, NEW c \in Callers, Archive(c) PROVE Inv' /\ Orderly
<1>1. /\ Quiet /\ Look(c) /\ UNCHANGED log /\ Goto(c, "bundle") /\ pc[c] = "archive"
      /\ carrier["hot"] = "whole"
  BY DEF Archive, Step, At, Ready, Whole
<1>2. seen'[c] = journal
  BY <1>1 DEF Look, Inv, Types, TypeOK
<1>3. Known("bundle", call[c], seen'[c], journal, carrier, pin)
  BY <1>1, <1>2, AtStep DEF Known, Belongs, KnownCopies, KnownTrash
<1> QED BY <1>1, <1>3, QuietGoes DEF Appending

LEMMA BundleKeeps ==
    ASSUME Inv, Serial, NEW c \in Callers, Bundle(c) PROVE Inv' /\ Orderly
<1>1. /\ Quiet /\ Local /\ seen'[c] = seen[c] /\ pc[c] = "bundle"
  BY DEF Bundle, Step, At, Local
<1>2. /\ Known("bundle", call[c], seen[c], journal, carrier, pin)
      /\ call[c] = "archive" /\ carrier["hot"] = "whole" /\ seen[c] = journal
  BY <1>1, AtStep DEF Known, Belongs, KnownCopies
<1>3. CASE Goto(c, "existing") /\ UNCHANGED log
  <2>1. Known("existing", call[c], seen[c], journal, carrier, pin)
    BY <1>2 DEF Known, Belongs, KnownCopies, KnownTrash
  <2> QED BY <1>1, <1>3, <2>1, QuietGoes DEF Appending
<1>4. CASE /\ seen[c].state = "hot" \/ ~Present("archive")
           /\ Log(c, "archive_started", "hot", "archiving", "hot",
                  IF Present("archive") THEN "existing" ELSE "build", "fail")
  <2> DEFINE then == IF Present("archive") THEN "existing" ELSE "build"
  <2>1. Announced(c, "archive_started", "hot", "archiving", "hot", then, "fail")
    BY <1>4, EventNames DEF Announced
  <2>2. then \in {"existing", "build"} /\ (then = "existing" => seen[c].state = "hot")
    BY <1>4
  <2> HIDE DEF then
  <2>3. Promise(log'[c], call[c], seen[c], journal, carrier, pin)
    BY <1>2, <2>1, <2>2, Logged, PromiseArchiveStarted, Seen
  <2> QED BY <1>1, <1>2, <2>1, <2>3, QuietLogs, FailKnows DEF Running
<1> QED BY <1>3, <1>4 DEF Bundle

LEMMA VerifiedKeeps ==
    ASSUME Inv, Serial, NEW c \in Callers, Verified(c), Quiet, Local, call[c] = "archive",
           carrier["hot"] = "whole", carrier["archive"] = "whole"
    PROVE  Inv' /\ Orderly
<1>1. Announced(c, "archive_verified", "archiving", "archived_duplicate", "archive", "cleanup",
                "fail")
  BY EventNames DEF Announced, Verified
<1>2. Promise(log'[c], call[c], seen[c], journal, carrier, pin)
  BY <1>1, Logged, PromiseVerified, Seen
<1>3. seen'[c] = seen[c] /\ call[c] \in Running
  BY DEF Local, Running
<1> QED BY <1>1, <1>2, <1>3, QuietLogs, FailKnows

LEMMA ExistingKeeps ==
    ASSUME Inv, Serial, NEW c \in Callers, Existing(c) PROVE Inv' /\ Orderly
<1>1. Quiet /\ Local /\ seen'[c] = seen[c] /\ pc[c] = "existing" /\ carrier["archive"] = "whole"
  BY DEF Existing, Step, At, Local, Ready, Whole
<1>2. /\ call[c] = "archive" /\ carrier["hot"] = "whole"
      /\ seen[c].state = "archived_duplicate" => journal.state = "archived_duplicate"
  BY <1>1, AtStep DEF Known, Belongs, KnownCopies
<1>3. CASE seen[c].state = "archived_duplicate" /\ Goto(c, "cleanup") /\ UNCHANGED log
  <2>1. Known("cleanup", call[c], seen[c], journal, carrier, pin)
    BY <1>1, <1>2, <1>3 DEF Known, Belongs, KnownCopies, KnownTrash
  <2> QED BY <1>1, <1>3, <2>1, QuietGoes DEF Appending
<1>4. CASE Verified(c)
  BY <1>1, <1>2, <1>4, VerifiedKeeps
<1> QED BY <1>3, <1>4 DEF Existing

LEMMA BuildKeeps ==
    ASSUME Inv, Serial, NEW c \in Callers, Build(c) PROVE Inv' /\ Orderly
<1>1. /\ Put("archive", "whole") /\ Elsewhere /\ Local /\ UNCHANGED log /\ pc[c] = "build"
      /\ Goto(c, "published")
  BY DEF Build, Step, At
<1>2. DOMAIN pc' = Callers /\ DOMAIN log' = Callers
  BY <1>1 DEF Goto, Inv, Types
<1>3. carrier'["archive"] = "whole" /\ carrier'["hot"] = carrier["hot"]
  BY <1>1, <1>2, PutTypes, EventNames DEF Inv
<1>4. Known("published", call[c], seen[c], journal, carrier', pin)
  BY <1>1, <1>3, AtStep DEF Known, Belongs, KnownCopies, KnownTrash
<1>5. Somewhere(carrier')
  BY <1>3, EventNames DEF Somewhere
<1> QED BY <1>1, <1>4, <1>5, PutGoes, EventNames DEF Appending

LEMMA BundlePublishedKeeps ==
    ASSUME Inv, Serial, NEW c \in Callers, BundlePublished(c) PROVE Inv' /\ Orderly
<1>1. Quiet /\ Local /\ Verified(c) /\ pc[c] = "published"
  BY DEF BundlePublished, Step, At
<1>2. call[c] = "archive" /\ carrier["hot"] = "whole" /\ carrier["archive"] = "whole"
  BY <1>1, AtStep DEF Known, Belongs, KnownCopies
<1> QED BY <1>1, <1>2, VerifiedKeeps

LEMMA CleanupKeeps ==
    ASSUME Inv, Serial, NEW c \in Callers, Cleanup(c) PROVE Inv' /\ Orderly
<1>1. Quiet /\ Local /\ seen'[c] = seen[c] /\ pc[c] = "cleanup"
  BY DEF Cleanup, At, Local
<1>2. /\ call[c] = "archive" /\ carrier["hot"] = "whole" /\ carrier["archive"] = "whole"
      /\ journal.state = "archived_duplicate"
  BY <1>1, AtStep DEF Known, Belongs, KnownCopies
<1>3. Announced(c, "hot_cleanup_started", "archived_duplicate", "archived_duplicate", "hot",
                "compare", "fail")
  BY <1>2, EventNames DEF Announced, Cleanup
<1>4. Promise(log'[c], call[c], seen[c], journal, carrier, pin)
  BY <1>2, <1>3, Logged, PromiseCleanupStarted, Seen
<1> QED BY <1>1, <1>2, <1>3, <1>4, QuietLogs, FailKnows DEF Running

LEMMA RemoveHotKeeps ==
    ASSUME Inv, Serial, NEW c \in Callers, RemoveHot(c) PROVE Inv' /\ Orderly
<1>1. /\ Put("hot", "none") /\ Elsewhere /\ Local /\ pc[c] = "remove_hot"
  BY DEF RemoveHot, Step, At
<1>2. call[c] = "archive" /\ carrier["archive"] = "whole"
  BY <1>1, AtStep DEF Known, Belongs, KnownCopies
<1>3. Announced(c, "hot_cleanup_completed", "archived_duplicate", "archived", "archive", "ok",
                "fail")
  BY EventNames DEF Announced, RemoveHot
<1>4. carrier'["hot"] = "none" /\ carrier'["archive"] = "whole"
  BY <1>1, <1>2, <1>3, Logged, PutTypes, EventNames DEF Inv
<1>5. Promise(log'[c], call[c], seen[c], journal, carrier', pin)
  BY <1>2, <1>3, <1>4, Logged, PromiseCleanupCompleted, Seen
<1>6. Somewhere(carrier') /\ call[c] \in Running
  BY <1>2, <1>4, EventNames DEF Somewhere, Running
<1> QED BY <1>1, <1>3, <1>5, <1>6, PutLogs, FailKnows, EventNames

-----------------------------------------------------------------------------
(* restore_hot *)
LEMMA RestoreHotKeeps ==
    ASSUME Inv, Serial, NEW c \in Callers, RestoreHot(c) PROVE Inv' /\ Orderly
<1>1. Quiet /\ Look(c) /\ pc[c] = "restore_hot" /\ Ready(c)
  BY DEF RestoreHot, Step, At
<1>2. call[c] = "restore_hot"
  BY <1>1, AtStep DEF Known, Belongs
<1>3. CASE Restoring /\ Goto(c, "resume") /\ UNCHANGED log
  <2>1. Known("resume", call[c], seen'[c], journal, carrier, pin)
    BY <1>2 DEF Known, Belongs, KnownCopies, KnownTrash
  <2> QED BY <1>1, <1>3, <2>1, QuietGoes DEF Appending
<1>4. CASE ~Restoring /\ Log(c, "archive_restore_started", "archived", "archiving", "archive",
                             "extract", "fail")
  <2>1. Announced(c, "archive_restore_started", "archived", "archiving", "archive", "extract",
                  "fail")
    BY <1>4, EventNames DEF Announced
  <2>2. carrier["archive"] = "whole" /\ carrier["hot"] = "none"
    BY <1>1, <1>4 DEF Ready, At, Whole, Present
  <2>3. Promise(log'[c], call[c], seen'[c], journal, carrier, pin)
    BY <1>2, <2>1, <2>2, Logged, PromiseRestoreStarted, Seen
  <2> QED BY <1>1, <1>2, <2>1, <2>3, QuietLogs, FailKnows DEF Running
<1> QED BY <1>3, <1>4 DEF RestoreHot

LEMMA ExtractKeeps ==
    ASSUME Inv, Serial, NEW c \in Callers, Extract(c) PROVE Inv' /\ Orderly
<1>1. /\ Put("hot", "whole") /\ Elsewhere /\ Local /\ UNCHANGED log /\ pc[c] = "extract"
      /\ Goto(c, "extracted")
  BY DEF Extract, Step, At
<1>2. DOMAIN pc' = Callers /\ DOMAIN log' = Callers
  BY <1>1 DEF Goto, Inv, Types
<1>3. carrier'["hot"] = "whole" /\ carrier'["archive"] = carrier["archive"]
  BY <1>1, <1>2, PutTypes, EventNames DEF Inv
<1>4. Known("extracted", call[c], seen[c], journal, carrier', pin)
  BY <1>1, <1>3, AtStep DEF Known, Belongs, KnownCopies, KnownTrash
<1>5. Somewhere(carrier')
  BY <1>3, EventNames DEF Somewhere
<1> QED BY <1>1, <1>4, <1>5, PutGoes, EventNames DEF Appending

LEMMA DropKeeps ==
    ASSUME Inv, Serial, NEW c \in Callers, Drop(c) PROVE Inv' /\ Orderly
<1>1. /\ Put("archive", "none") /\ Elsewhere /\ Local /\ pc[c] \in {"drop", "resume_drop"}
  BY DEF Drop, Step, At
<1>2. call[c] = "restore_hot" /\ carrier["hot"] = "whole"
  BY <1>1, AtStep DEF Known, Belongs, KnownCopies
<1>3. Announced(c, "archive_restore_completed", "archiving", "hot", "hot", "ok", "fail")
  BY EventNames DEF Announced, Drop, RestoredHot
<1>4. carrier'["archive"] = "none" /\ carrier'["hot"] = "whole"
  BY <1>1, <1>2, <1>3, Logged, PutTypes, EventNames DEF Inv
<1>5. Promise(log'[c], call[c], seen[c], journal, carrier', pin)
  BY <1>2, <1>3, <1>4, Logged, PromiseRestoreCompleted, Seen
<1>6. Somewhere(carrier') /\ call[c] \in Running
  BY <1>2, <1>4, EventNames DEF Somewhere, Running
<1> QED BY <1>1, <1>3, <1>5, <1>6, PutLogs, FailKnows, EventNames

LEMMA RestoreFailedKeeps ==
    ASSUME Inv, Serial, NEW c \in Callers, RestoreFailed(c) PROVE Inv' /\ Orderly
<1>1. Quiet /\ pc[c] = "unrestore"
  BY DEF RestoreFailed, At
<1>2. call[c] = "restore_hot" /\ carrier["archive"] = "whole"
  BY <1>1, AtStep DEF Known, Belongs, KnownCopies
<1>3. CASE Look(c) /\ Goto(c, "resume") /\ UNCHANGED log
  <2>1. Known("resume", call[c], seen'[c], journal, carrier, pin)
    BY <1>2 DEF Known, Belongs, KnownCopies, KnownTrash
  <2> QED BY <1>1, <1>3, <2>1, QuietGoes DEF Appending
<1>4. CASE BackToArchive(c) /\ Local
  <2>1. Announced(c, "archive_restore_failed", "archiving", "archived", "archive", "fail", "fail")
    BY <1>4, EventNames DEF Announced, BackToArchive, LogFailure
  <2>2. Promise(log'[c], call[c], seen'[c], journal, carrier, pin)
    BY <1>2, <2>1, Logged, PromiseFailed, Seen
  <2> QED BY <1>1, <1>2, <1>4, <2>1, <2>2, QuietLogs, FailKnows DEF Running
<1> QED BY <1>3, <1>4 DEF RestoreFailed

LEMMA ResumeKeeps ==
    ASSUME Inv, Serial, NEW c \in Callers, Resume(c) PROVE Inv' /\ Orderly
<1>1. Quiet /\ Local /\ seen'[c] = seen[c] /\ pc[c] = "resume" /\ Ready(c)
  BY DEF Resume, Step, At, Local
<1>2. call[c] = "restore_hot" /\ call[c] \in Running
  BY <1>1, AtStep DEF Known, Belongs, Running
<1>3. /\ Present("hot") => carrier["hot"] = "whole"
      /\ Present("archive") => carrier["archive"] = "whole"
  BY <1>1 DEF Ready, At, Whole
<1>4. CASE Present("hot") /\ Present("archive") /\ Goto(c, "resume_drop") /\ UNCHANGED log
  <2>1. Known("resume_drop", call[c], seen[c], journal, carrier, pin)
    BY <1>2, <1>3, <1>4 DEF Known, Belongs, KnownCopies, KnownTrash
  <2> QED BY <1>1, <1>4, <2>1, QuietGoes DEF Appending
<1>5. CASE Present("hot") /\ ~Present("archive") /\ RestoredHot(c)
  <2>1. Announced(c, "archive_restore_completed", "archiving", "hot", "hot", "ok", "fail")
    BY <1>5, EventNames DEF Announced, RestoredHot
  <2>2. carrier["hot"] = "whole" /\ carrier["archive"] = "none"
    BY <1>3, <1>5 DEF Present
  <2>3. Promise(log'[c], call[c], seen[c], journal, carrier, pin)
    BY <1>2, <2>1, <2>2, Logged, PromiseRestoreCompleted, Seen
  <2> QED BY <1>1, <1>2, <2>1, <2>3, QuietLogs, FailKnows
<1>6. CASE ~Present("hot") /\ Present("archive") /\ BackToArchive(c)
  <2>1. Announced(c, "archive_restore_failed", "archiving", "archived", "archive", "fail", "fail")
    BY <1>6, EventNames DEF Announced, BackToArchive, LogFailure
  <2>2. Promise(log'[c], call[c], seen[c], journal, carrier, pin)
    BY <1>3, <1>6, <2>1, Logged, PromiseFailed, Seen
  <2> QED BY <1>1, <1>2, <2>1, <2>2, QuietLogs, FailKnows
<1> QED BY <1>4, <1>5, <1>6 DEF Resume

LEMMA RetractKeeps ==
    ASSUME Inv, Serial, NEW c \in Callers, Retract(c) PROVE Inv' /\ Orderly
<1>1. /\ Put("hot", "none") /\ Elsewhere /\ Local /\ pc[c] = "retract"
  BY DEF Retract, Step, At
<1>2. call[c] = "restore_hot" /\ carrier["archive"] = "whole"
  BY <1>1, AtStep DEF Known, Belongs, KnownCopies
<1>3. Announced(c, "archive_restore_failed", "archiving", "archived", "archive", "fail", "fail")
  BY EventNames DEF Announced, Retract, BackToArchive, LogFailure
<1>4. carrier'["archive"] = "whole"
  BY <1>1, <1>2, <1>3, Logged, PutTypes, EventNames DEF Inv
<1>5. Promise(log'[c], call[c], seen[c], journal, carrier', pin)
  BY <1>3, <1>4, Logged, PromiseFailed, Seen
<1>6. Somewhere(carrier') /\ call[c] \in Running
  BY <1>2, <1>4, EventNames DEF Somewhere, Running
<1> QED BY <1>1, <1>3, <1>5, <1>6, PutLogs, FailKnows, EventNames

-----------------------------------------------------------------------------
(* trash *)
LEMMA TrashKeeps ==
    ASSUME Inv, Serial, NEW c \in Callers, Trash(c) PROVE Inv' /\ Orderly
<1>1. Quiet /\ Look(c) /\ UNCHANGED log /\ pc[c] = "trash"
  BY DEF Trash, Step, At
<1>2. seen'[c] = journal /\ call[c] = "trash"
  BY <1>1, AtStep DEF Look, Known, Belongs, Inv, Types, TypeOK
<1>3. PICK at \in {"resume_trash", "trashing"} : Goto(c, at)
  BY DEF Trash
<1>4. Known(at, call[c], seen'[c], journal, carrier, pin) /\ at \notin Appending
  BY <1>2 DEF Known, Belongs, KnownCopies, KnownTrash, Appending
<1> QED BY <1>1, <1>3, <1>4, QuietGoes

LEMMA TrashingKeeps ==
    ASSUME Inv, Serial, NEW c \in Callers, Trashing(c) PROVE Inv' /\ Orderly
<1>1. /\ Quiet /\ Local /\ seen'[c] = seen[c] /\ pc[c] = "trashing"
      /\ Unkept(c) /\ seen[c].state \in Away /\ carrier[Place(seen[c].state)] = "whole"
  BY DEF Trashing, Step, At, Local, Ready, Whole, Home, Away
<1>2. call[c] = "trash" /\ seen[c] = journal
  BY <1>1, AtStep DEF Known, Belongs
<1>3. Announced(c, "trash_started", seen[c].state, seen[c].state, "none", "enter", "fail")
  BY EventNames, Seen DEF Announced, Trashing
<1>4. Promise(log'[c], call[c], seen[c], journal, carrier, pin)
  BY <1>1, <1>2, <1>3, Logged, PromiseTrashStarted, Seen DEF Unkept
<1> QED BY <1>1, <1>2, <1>3, <1>4, QuietLogs, FailKnows DEF Running

(* A step that moves the evidence. *)
LEMMA TransferGoes ==
    ASSUME Inv, Serial, NEW c \in Callers, NEW at, at \notin Appending \cup {"ok"}, Goto(c, at),
           UNCHANGED log, Elsewhere, Local, NEW p \in Places, NEW q \in Places, p # q,
           carrier[p] = "whole", Transfer(p, q),
           Known(at, call[c], seen[c], journal, carrier', pin)
    PROVE  Inv' /\ Orderly
<1>1. UNCHANGED <<journal, record, pin, call, seen, operation, locked, faults, calls>>
  BY DEF Elsewhere, Local, Transfer
<1>2. Orderly /\ Somewhere(carrier') /\ carrier' \in [Places -> {"none", "whole", "part"}]
  BY <1>1, Transfers DEF Inv, Whole
<1>3. Types'
  BY <1>1, <1>2 DEF Goto, Inv, Types, TypeOK
<1>4. Unpinned(journal, pin') /\ RecordOK(record') /\ Unlocked(at, call'[c], locked')
  BY <1>1 DEF Inv, Unlocked
<1> QED BY <1>1, <1>2, <1>3, <1>4, StepsTo

LEMMA MoveKeeps ==
    ASSUME Inv, Serial, NEW c \in Callers, Move(c) PROVE Inv' /\ Orderly
<1>1. /\ Transfer(Home(c), "payload") /\ Goto(c, "note") /\ Elsewhere /\ Local /\ UNCHANGED log
      /\ pc[c] = "move"
  BY DEF Move, Step, At
<1>2. call[c] = "trash" /\ seen[c].state \in Away /\ carrier[Home(c)] = "whole"
  BY <1>1, AtStep DEF Known, Belongs, KnownTrash, Home
<1>3. Home(c) \in {"hot", "archive"}
  BY <1>2, EventNames DEF Home
<1>4. carrier'["payload"] = "whole" /\ carrier'[Home(c)] = IF CrossVolume THEN "whole" ELSE "none"
  BY <1>1, <1>2, <1>3, Transfers, EventNames DEF Elsewhere, Whole, Inv
<1>5. Known("note", call[c], seen[c], journal, carrier', pin)
  BY <1>2, <1>4 DEF Known, Belongs, KnownCopies, KnownTrash, Home
<1> QED BY <1>1, <1>2, <1>3, <1>5, TransferGoes, EventNames DEF Appending

LEMMA TrashedKeeps ==
    ASSUME Inv, Serial, NEW c \in Callers, NEW named \in Places \cup {"none"}, Trashed(c, named),
           call[c] = "trash", call' = call, Types', journal' = journal, seen'[c] = seen[c],
           pin' = pin, seen[c].state \in Away, carrier'["payload"] = "whole", RecordOK(record')
    PROVE  Inv'
<1>1. Announced(c, "trashed", seen[c].state, "trash", named, "ok", "fail")
  BY EventNames, Seen DEF Announced, Trashed
<1>2. Promise(log'[c], call[c], seen'[c], journal, carrier', pin')
  BY <1>1, Logged, PromiseTrashed, Seen
<1>3. Somewhere(carrier') /\ Unpinned(journal, pin') /\ call[c] \in Running
  BY Seen, EventNames DEF Somewhere, Running
<1> QED BY <1>1, <1>2, <1>3, Announces, FailKnows

LEMMA NoteKeeps ==
    ASSUME Inv, Serial, NEW c \in Callers, Note(c) PROVE Inv' /\ Orderly
<1>1. /\ UNCHANGED <<journal, locked, carrier, pin, call, seen, operation, faults, calls>>
      /\ pc[c] = "note"
      /\ record' = [previous |-> seen[c].state, operation |-> operation[c],
                    tail |-> journal.revision]
  BY DEF Note, Step, At, Elsewhere
<1>2. /\ call[c] = "trash" /\ seen[c].state \in Away /\ carrier["payload"] = "whole"
      /\ CrossVolume => carrier[Place(seen[c].state)] = "whole"
  BY <1>1, AtStep DEF Known, Belongs, KnownTrash
<1>3. RecordOK(record') /\ Somewhere(carrier') /\ Unpinned(journal, pin')
  BY <1>1, <1>2 DEF RecordOK, Inv
<1>4. record' \in [previous : States, operation : Nat, tail : Nat]
  BY <1>1, Seen DEF Inv, Types, TypeOK, LifecycleHead
<1>5. CASE CrossVolume /\ Goto(c, "source") /\ UNCHANGED log
  <2>1. Types'
    BY <1>1, <1>4, <1>5 DEF Goto, Inv, Types, TypeOK
  <2>2. Known("source", call[c], seen[c], journal, carrier, pin)
    BY <1>2, <1>5 DEF Known, Belongs, KnownCopies, KnownTrash
  <2> QED BY <1>1, <1>3, <1>5, <2>1, <2>2, StepsTo, Stays DEF Appending, Unlocked
<1>6. CASE Trashed(c, "none")
  <2>1. Types'
    BY <1>1, <1>4, <1>6 DEF Trashed, Log, Goto, Inv, Types, TypeOK
  <2> QED BY <1>1, <1>2, <1>3, <1>6, <2>1, TrashedKeeps, Stays
<1> QED BY <1>5, <1>6 DEF Note

LEMMA SourceKeeps ==
    ASSUME Inv, Serial, NEW c \in Callers, Source(c) PROVE Inv' /\ Orderly
<1>1. /\ Put(Home(c), "none") /\ Elsewhere /\ Local /\ pc[c] = "source" /\ Trashed(c, "none")
  BY DEF Source, Step, At
<1>2. call[c] = "trash" /\ seen[c].state \in Away /\ carrier["payload"] = "whole"
  BY <1>1, AtStep DEF Known, Belongs, KnownTrash
<1>3. Home(c) \in {"hot", "archive"}
  BY <1>2, EventNames DEF Home
<1>4. DOMAIN pc' = Callers /\ DOMAIN log' = Callers
  BY <1>1 DEF Trashed, Log, Goto, Inv, Types
<1>5. /\ Types' /\ UNCHANGED <<journal, record, pin, call, seen>>
      /\ carrier'["payload"] = "whole"
  BY <1>1, <1>2, <1>3, <1>4, PutTypes, EventNames DEF Inv
<1>6. Somewhere(carrier') /\ RecordOK(record')
  BY <1>5, EventNames DEF Somewhere, Inv
<1>7. Orderly
  BY <1>1, <1>3, <1>5, <1>6, Puts, EventNames DEF Put, Inv
<1> QED BY <1>1, <1>2, <1>5, <1>6, <1>7, TrashedKeeps

LEMMA RollbackKeeps ==
    ASSUME Inv, Serial, NEW c \in Callers, Rollback(c) PROVE Inv' /\ Orderly
<1>1. Elsewhere /\ Local /\ UNCHANGED log /\ pc[c] = "rollback" /\ seen'[c] = seen[c]
  BY DEF Rollback, At, Local
<1>2. /\ call[c] = "trash" /\ seen[c].state \in Away
      /\ \/ carrier[Home(c)] = "whole"
         \/ ~CrossVolume /\ carrier["payload"] = "whole" /\ carrier[Home(c)] = "none"
  BY <1>1, AtStep DEF Known, Belongs, KnownTrash, Home
<1>3. Home(c) \in {"hot", "archive"}
  BY <1>2, EventNames DEF Home
<1>4. CASE /\ Present("payload") /\ ~Present(Home(c)) /\ ~CrossVolume
           /\ Transfer("payload", Home(c)) /\ Goto(c, "discard")
  <2>1. carrier["payload"] = "whole"
    BY <1>2, <1>4 DEF Present
  <2>2. carrier'[Home(c)] = "whole"
    BY <1>1, <1>3, <1>4, <2>1, Transfers, EventNames DEF Elsewhere, Whole, Inv
  <2>3. Known("discard", call[c], seen[c], journal, carrier', pin)
    BY <1>2, <2>2 DEF Known, Belongs, KnownCopies, KnownTrash, Home
  <2> QED BY <1>1, <1>3, <1>4, <2>1, <2>3, TransferGoes, EventNames DEF Appending
<1>5. CASE /\ ~(Present("payload") /\ ~Present(Home(c)) /\ ~CrossVolume)
           /\ Goto(c, IF Present(Home(c)) THEN "discard" ELSE "untrash") /\ UNCHANGED files
  <2>1. Quiet
    BY <1>1, <1>5 DEF Quiet
  <2>2. carrier[Home(c)] = "whole" /\ Goto(c, "discard")
    BY <1>2, <1>5 DEF Present
  <2>3. Known("discard", call[c], seen[c], journal, carrier, pin)
    BY <1>2, <2>2 DEF Known, Belongs, KnownCopies, KnownTrash, Home
  <2> QED BY <1>1, <2>1, <2>2, <2>3, QuietGoes DEF Appending
<1> QED BY <1>4, <1>5 DEF Rollback

(* The trash is emptied when the evidence is elsewhere. *)
LEMMA RemoveTrashGoes ==
    ASSUME Inv, Serial, NEW c \in Callers, NEW at, at \notin Appending, Goto(c, at),
           UNCHANGED log, Elsewhere, Local, RemoveTrash, NEW p \in {"hot", "archive"},
           carrier[p] = "whole", at = "ok" => call[c] \in Running,
           Known(at, call[c], seen[c], journal, carrier', pin)
    PROVE  Inv' /\ Orderly
<1>1. UNCHANGED <<journal, pin, call, seen, operation, locked, faults, calls>>
      /\ record' = NoRecord /\ carrier' = [carrier EXCEPT !["payload"] = "none"]
  BY DEF Elsewhere, Local, RemoveTrash
<1>2. carrier'[p] = "whole" /\ carrier' \in [Places -> {"none", "whole", "part"}]
  BY <1>1, Seen, EventNames
<1>3. Somewhere(carrier')
  BY <1>2, EventNames DEF Somewhere
<1>4. NoRecord \in [previous : States, operation : Nat, tail : Nat]
  BY DEF NoRecord, States
<1>5. Types'
  BY <1>1, <1>2, <1>4 DEF Goto, Inv, Types, TypeOK
<1>6. Orderly
  BY <1>1, <1>3, Puts, EventNames DEF Inv
<1>7. Unpinned(journal, pin') /\ RecordOK(record') /\ Unlocked(at, call'[c], locked')
  BY <1>1 DEF Inv, RecordOK, Unlocked
<1> QED BY <1>1, <1>3, <1>5, <1>6, <1>7, StepsTo

LEMMA DiscardKeeps ==
    ASSUME Inv, Serial, NEW c \in Callers, Discard(c) PROVE Inv' /\ Orderly
<1>1. /\ RemoveTrash /\ Elsewhere /\ Local /\ UNCHANGED log /\ pc[c] = "discard"
      /\ Goto(c, "untrash")
  BY DEF Discard, At
<1>2. call[c] = "trash" /\ seen[c].state \in Away /\ carrier[Home(c)] = "whole"
  BY <1>1, AtStep DEF Known, Belongs, KnownTrash, Home
<1>3. Home(c) \in {"hot", "archive"}
  BY <1>2, EventNames DEF Home
<1>4. Known("untrash", call[c], seen[c], journal, carrier', pin)
  BY <1>2 DEF Known, Belongs, KnownCopies, KnownTrash
<1> QED BY <1>1, <1>2, <1>3, <1>4, RemoveTrashGoes DEF Appending

LEMMA ResumeTrashKeeps ==
    ASSUME Inv, Serial, NEW c \in Callers, ResumeTrash(c) PROVE Inv' /\ Orderly
<1>1. /\ Quiet /\ Local /\ pc[c] = "resume_trash" /\ Trashed(c, "payload")
      /\ Matching(c) /\ carrier["payload"] = "whole"
  BY DEF ResumeTrash, Step, At, Ready, Whole
<1>2. call[c] = "trash" /\ seen'[c] = seen[c] /\ seen[c].state \in States
  BY <1>1, AtStep, Seen DEF Known, Belongs, Local
<1>3. seen[c].state \in Away \/ seen[c].state = "none"
  BY <1>1 DEF Matching, Inv, RecordOK, NoRecord
<1>4. Announced(c, "trashed", seen[c].state, "trash", "payload", "ok", "fail")
  BY <1>1, EventNames, Seen DEF Announced, Trashed
<1>5. Promise(log'[c], call[c], seen[c], journal, carrier, pin)
  <2>1. CASE seen[c].state \in Away
    BY <1>1, <1>2, <1>4, <2>1, Logged, PromiseTrashed, Seen
  <2>2. CASE seen[c].state = "none"
    <3>1. log'[c] \in Logs /\ log'[c].type = "trashed" /\ log'[c].from = "none"
      BY <1>4, <2>2, Logged
    <3>2. ASSUME NEW w \in Nat, Applies(journal, log'[c], w) PROVE FALSE
      <4>1. journal.state = "none" /\ <<journal.state, log'[c].to>> \in Transitions["trashed"]
        BY <3>1, <3>2, HeadAfter, Seen
      <4> QED BY <4>1, Table DEF Placed
    <3> QED BY <3>2 DEF Promise
  <2> QED BY <1>3, <2>1, <2>2
<1> QED BY <1>1, <1>2, <1>4, <1>5, QuietLogs, FailKnows DEF Running

-----------------------------------------------------------------------------
(* restore_trash *)
LEMMA RestoreTrashKeeps ==
    ASSUME Inv, Serial, NEW c \in Callers, RestoreTrash(c) PROVE Inv' /\ Orderly
<1>1. /\ UNCHANGED <<journal, locked, log, carrier, record, pin, call, operation, faults, calls>>
      /\ pc[c] = "restore_trash" /\ Goto(c, "leave")
      /\ seen' = [seen EXCEPT ![c] = [journal EXCEPT !.previous = record.previous]]
      /\ record # NoRecord /\ carrier["payload"] = "whole"
      /\ carrier[Place(record.previous)] = "none"
  BY DEF RestoreTrash, Step, At, Quiet, Elsewhere, files, Ready, Whole, Present
<1>2. call[c] = "restore_trash"
  BY <1>1, AtStep DEF Known, Belongs
<1>3. record.previous \in Away /\ record.previous \in States
  BY <1>1 DEF Inv, RecordOK, Types, TypeOK
<1>4. [journal EXCEPT !.previous = record.previous] \in LifecycleHead
  BY <1>3, Seen DEF LifecycleHead
<1>5. seen'[c] = [journal EXCEPT !.previous = record.previous]
  BY <1>1 DEF Inv, Types, TypeOK
<1>6. seen'[c].previous = record.previous
  BY <1>5, Seen DEF LifecycleHead
<1>7. Types'
  BY <1>1, <1>4 DEF Goto, Inv, Types, TypeOK
<1>8. Known("leave", call[c], seen'[c], journal, carrier, pin)
  BY <1>1, <1>2, <1>3, <1>6 DEF Known, Belongs, KnownCopies, KnownTrash
<1>9. /\ Unpinned(journal, pin') /\ RecordOK(record') /\ Unlocked("leave", call'[c], locked')
      /\ Somewhere(carrier') /\ "leave" \notin Appending
  BY <1>1 DEF Inv, Unlocked, Appending
<1> QED BY <1>1, <1>7, <1>8, <1>9, StepsTo, Stays

LEMMA LeaveKeeps ==
    ASSUME Inv, Serial, NEW c \in Callers, Leave(c) PROVE Inv' /\ Orderly
<1>1. /\ Transfer("payload", Target(c)) /\ Goto(c, "arrive") /\ Elsewhere /\ Local
      /\ UNCHANGED log /\ pc[c] = "leave"
  BY DEF Leave, Step, At
<1>2. /\ call[c] = "restore_trash" /\ seen[c].previous \in Away /\ carrier["payload"] = "whole"
  BY <1>1, AtStep DEF Known, Belongs, KnownTrash
<1>3. Target(c) \in {"hot", "archive"}
  BY <1>2, EventNames DEF Target
<1>4. carrier'[Target(c)] = "whole" /\ carrier'["payload"] = IF CrossVolume THEN "whole" ELSE "none"
  BY <1>1, <1>2, <1>3, Transfers, EventNames DEF Elsewhere, Whole, Inv
<1>5. Known("arrive", call[c], seen[c], journal, carrier', pin)
  BY <1>2, <1>4 DEF Known, Belongs, KnownCopies, KnownTrash, Target
<1> QED BY <1>1, <1>2, <1>3, <1>5, TransferGoes, EventNames DEF Appending

LEMMA ArriveKeeps ==
    ASSUME Inv, Serial, NEW c \in Callers, Arrive(c) PROVE Inv' /\ Orderly
<1>1. /\ IF CrossVolume THEN Put("payload", "none") ELSE UNCHANGED files
      /\ Elsewhere /\ Local /\ pc[c] = "arrive"
  BY DEF Arrive, Step, At
<1>2. /\ call[c] = "restore_trash" /\ seen[c].previous \in Away /\ carrier[Target(c)] = "whole"
      /\ carrier["payload"] = IF CrossVolume THEN "whole" ELSE "none"
  BY <1>1, AtStep DEF Known, Belongs, KnownTrash, Target
<1>3. Target(c) \in {"hot", "archive"}
  BY <1>2, EventNames DEF Target
<1>4. Announced(c, "trash_restored", "trash", seen[c].previous, Target(c), "tidy", "undo")
  BY <1>3, EventNames, Seen DEF Announced, Arrive
<1>5. call[c] \in Running /\ seen'[c] = seen[c]
  BY <1>1, <1>2 DEF Running, Local
<1>6. ASSUME carrier'[Target(c)] = "whole", carrier'["payload"] = "none"
      PROVE  /\ Promise(log'[c], call[c], seen[c], journal, carrier', pin)
             /\ Known("undo", call[c], seen[c], journal, carrier', pin)
             /\ Somewhere(carrier')
  <2>1. Promise(log'[c], call[c], seen[c], journal, carrier', pin)
    BY <1>2, <1>4, <1>6, Logged, PromiseTrashRestored, Seen DEF Target
  <2>2. Known("undo", call[c], seen[c], journal, carrier', pin)
    BY <1>2, <1>6 DEF Known, Belongs, KnownCopies, KnownTrash, Target
  <2>3. Somewhere(carrier')
    BY <1>3, <1>6, EventNames DEF Somewhere
  <2> QED BY <2>1, <2>2, <2>3
<1>7. CASE CrossVolume
  <2>1. carrier'[Target(c)] = "whole" /\ carrier'["payload"] = "none"
    BY <1>1, <1>2, <1>3, <1>4, <1>7, Logged, PutTypes, EventNames DEF Inv
  <2> QED BY <1>1, <1>4, <1>5, <1>6, <1>7, <2>1, PutLogs, EventNames
<1>8. CASE ~CrossVolume
  <2>1. carrier' = carrier /\ Quiet
    BY <1>1, <1>8 DEF files, Quiet
  <2> QED BY <1>1, <1>2, <1>4, <1>5, <1>6, <1>8, <2>1, QuietLogs
<1> QED BY <1>7, <1>8, OperationsAssumption

LEMMA TidyKeeps ==
    ASSUME Inv, Serial, NEW c \in Callers, Tidy(c) PROVE Inv' /\ Orderly
<1>1. /\ RemoveTrash /\ Elsewhere /\ Local /\ UNCHANGED log /\ pc[c] = "tidy" /\ Goto(c, "ok")
  BY DEF Tidy, At
<1>2. /\ call[c] = "restore_trash" /\ seen[c].previous \in Away /\ carrier[Target(c)] = "whole"
      /\ carrier["payload"] = "none" /\ journal.state = seen[c].previous
  BY <1>1, AtStep DEF Known, Belongs, KnownTrash, Target
<1>3. Target(c) \in {"hot", "archive"}
  BY <1>2, EventNames DEF Target
<1>4. carrier'[Target(c)] = "whole" /\ carrier'["payload"] = "none"
  BY <1>1, <1>2, <1>3, Seen, EventNames DEF RemoveTrash
<1>5. Known("ok", call[c], seen[c], journal, carrier', pin)
  BY <1>2, <1>4 DEF Known, Belongs, KnownCopies, KnownTrash, DoneIn, Target
<1> QED BY <1>1, <1>2, <1>3, <1>5, RemoveTrashGoes DEF Appending, Running

LEMMA UndoKeeps ==
    ASSUME Inv, Serial, NEW c \in Callers, Undo(c) PROVE Inv' /\ Orderly
<1>1. /\ UNCHANGED <<journal, locked, log, record, pin, call, seen, operation, faults, calls>>
      /\ Goto(c, "fail") /\ pc[c] = "undo"
  BY DEF Undo, Elsewhere, At
<1>2. /\ seen[c].previous \in Away
      /\ \/ carrier["payload"] = "whole" /\ carrier[Target(c)] = "none"
         \/ carrier[Target(c)] = "whole" /\ carrier["payload"] \in {"whole", "none"}
  BY <1>1, AtStep DEF Known, KnownTrash, Target
<1>3. Target(c) \in {"hot", "archive"} /\ Target(c) \in Places /\ Target(c) # "payload"
  BY <1>2, EventNames DEF Target
<1>4. ASSUME Somewhere(carrier'), carrier' \in [Places -> {"none", "whole", "part"}]
      PROVE  Inv'
  <2>1. Types'
    BY <1>1, <1>4 DEF Goto, Inv, Types, TypeOK
  <2>2. /\ Unpinned(journal, pin') /\ RecordOK(record') /\ Unlocked("fail", call'[c], locked')
        /\ "fail" \notin Appending
    BY <1>1 DEF Inv, Unlocked, Appending
  <2> QED BY <1>1, <1>4, <2>1, <2>2, FailKnows, StepsTo
<1>5. CASE carrier[Target(c)] = "none"
  <2>1. carrier' = carrier
    BY <1>5 DEF Undo, Present
  <2> QED BY <1>1, <1>4, <2>1, Seen, Stays DEF Inv
<1>6. CASE carrier[Target(c)] = "whole" /\ carrier["payload"] = "whole"
  <2>1. carrier' = [carrier EXCEPT ![Target(c)] = "none"]
    BY <1>3, <1>6, Seen DEF Undo, Present
  <2>2. carrier' \in [Places -> {"none", "whole", "part"}] /\ carrier'["payload"] = "whole"
    BY <1>3, <1>6, <2>1, Seen, EventNames
  <2>3. Somewhere(carrier')
    BY <2>2, EventNames DEF Somewhere
  <2> QED BY <1>1, <1>3, <1>4, <2>1, <2>2, <2>3, Puts DEF Inv
<1>7. CASE carrier[Target(c)] = "whole" /\ carrier["payload"] = "none"
  <2>1. carrier' = [carrier EXCEPT ![Target(c)] = "none", !["payload"] = "whole"]
    BY <1>3, <1>7, Seen DEF Undo, Present
  <2>2. carrier' \in [Places -> {"none", "whole", "part"}] /\ carrier'["payload"] = "whole"
    BY <1>3, <2>1, Seen, EventNames
  <2>3. Somewhere(carrier')
    BY <2>2, EventNames DEF Somewhere
  <2>4. {q \in Places : carrier'[q] = "whole"} =
          ({q \in Places : Whole(q)} \ {Target(c)}) \cup {"payload"}
    BY <1>3, <2>1, Seen, EventNames DEF Whole
  <2>5. Storage!Move(Target(c), "payload")
    BY <1>1, <1>3, <1>7, <2>4 DEF Storage!Move, Whole
  <2>6. Orderly
    BY <1>1, <1>3, <2>5, EventNames DEF Orderly, Kept, Storage!Next
  <2> QED BY <1>4, <2>2, <2>3, <2>6
<1> QED BY <1>2, <1>5, <1>6, <1>7

-----------------------------------------------------------------------------
(* set_keep *)
LEMMA KeepKeeps ==
    ASSUME Inv, Serial, NEW c \in Callers, Keep(c) PROVE Inv' /\ Orderly
<1>1. Quiet /\ Look(c) /\ UNCHANGED log /\ pc[c] \in {"keep", "unkeep"} /\ Goto(c, "keeping")
  BY DEF Keep, Step, At
<1>2. seen'[c] = journal /\ call[c] \in {"keep", "unkeep"}
  BY <1>1, AtStep DEF Look, Known, Belongs, Inv, Types, TypeOK
<1>3. Known("keeping", call[c], seen'[c], journal, carrier, pin) /\ "keeping" \notin Appending
  BY <1>2 DEF Known, Belongs, KnownCopies, KnownTrash, Appending
<1> QED BY <1>1, <1>3, QuietGoes

LEMMA KeepingKeeps ==
    ASSUME Inv, Serial, NEW c \in Callers, Keeping(c) PROVE Inv' /\ Orderly
<1>1. /\ UNCHANGED <<journal, locked, carrier, record, call, seen, operation, faults, calls>>
      /\ pc[c] = "keeping" /\ pin' = (call[c] = "keep") /\ seen[c].pending = "none"
      /\ seen'[c] = seen[c]
  BY DEF Keeping, Step, At, Elsewhere, Ready
<1>2. call[c] \in {"keep", "unkeep"} /\ seen[c] = journal /\ call[c] \in Running
  BY <1>1, AtStep DEF Known, Belongs, Running
<1>3. Announced(c, "keep_changed", seen[c].state, seen[c].state, Place(seen[c].state), "ok", "fail")
  BY EventNames, Seen DEF Announced, Keeping
<1>4. Promise(log'[c], call[c], seen[c], journal, carrier, pin')
  <2>1. /\ log'[c] \in Logs /\ log'[c].type = "keep_changed" /\ log'[c].from = log'[c].to
        /\ log'[c].then = "ok" /\ log'[c].else = "fail" /\ (log'[c].keep <=> call[c] = "keep")
    BY <1>3, Logged
  <2>2. journal.pending = "none" /\ (pin' <=> call[c] = "keep")
    BY <1>1, <1>2
  <2> QED BY <1>2, <2>1, <2>2, PromiseKeep, Seen
<1>5. Types'
  <2>1. pin' \in BOOLEAN
    BY <1>1
  <2> QED BY <1>1, <1>3, <2>1, Logged DEF Inv, Types, TypeOK
<1>6. Somewhere(carrier') /\ Unpinned(journal, pin') /\ RecordOK(record')
  BY <1>1, <1>2 DEF Inv, Unpinned
<1> QED BY <1>1, <1>2, <1>3, <1>4, <1>5, <1>6, Announces, FailKnows, Stays

-----------------------------------------------------------------------------
(* Every step of a caller that is alone. *)
LEMMA NextInv == ASSUME Inv, Serial, [Next]_vars PROVE Inv' /\ Orderly
<1>1. ASSUME NEW c \in Callers, NEW o \in Operations, Call(c, o) PROVE Inv' /\ Orderly
  BY <1>1, CallKeeps
<1>2. ASSUME NEW c \in Callers, Operate(c) PROVE Inv' /\ Orderly
  <2>1. CASE Return(c) \/ Expect(c) \/ Discover(c) \/ Discovered(c) \/ Check(c) \/ Fail(c)
    BY <2>1, ReturnKeeps, ExpectKeeps, DiscoverKeeps, DiscoveredKeeps, CheckKeeps, FailKeeps
  <2>2. CASE \/ Archive(c) \/ Bundle(c) \/ Existing(c) \/ Build(c) \/ BundlePublished(c)
             \/ Cleanup(c) \/ RemoveHot(c)
    BY <2>2, ArchiveKeeps, BundleKeeps, ExistingKeeps, BuildKeeps, BundlePublishedKeeps,
       CleanupKeeps, RemoveHotKeeps
  <2>3. CASE \/ RestoreHot(c) \/ Extract(c) \/ Drop(c) \/ RestoreFailed(c) \/ Resume(c)
             \/ Retract(c)
    BY <2>3, RestoreHotKeeps, ExtractKeeps, DropKeeps, RestoreFailedKeeps, ResumeKeeps,
       RetractKeeps
  <2>4. CASE \/ Trash(c) \/ Trashing(c) \/ Move(c) \/ Note(c) \/ Source(c) \/ Rollback(c)
             \/ Discard(c) \/ ResumeTrash(c)
    BY <2>4, TrashKeeps, TrashingKeeps, MoveKeeps, NoteKeeps, SourceKeeps, RollbackKeeps,
       DiscardKeeps, ResumeTrashKeeps
  <2>5. CASE \/ RestoreTrash(c) \/ Leave(c) \/ Arrive(c) \/ Tidy(c) \/ Undo(c)
             \/ Keep(c) \/ Keeping(c)
    BY <2>5, RestoreTrashKeeps, LeaveKeeps, ArriveKeeps, TidyKeeps, UndoKeeps, KeepKeeps,
       KeepingKeeps
  <2> QED BY <1>2, <2>1, <2>2, <2>3, <2>4, <2>5 DEF Operate
<1>3. ASSUME NEW c \in Callers, Record(c) PROVE Inv' /\ Orderly
  BY <1>3, RecordKeeps
<1>4. ASSUME NEW c \in Callers, Raise(c) \/ (\E p \in Places : Break(c, p)) \/ Crash(c)
      PROVE  Inv' /\ Orderly
  BY <1>4, RaiseKeeps, BreakKeeps, CrashKeeps
<1>5. CASE UNCHANGED vars
  <2>1. UNCHANGED <<journal, locked, pc, log, faults, carrier, record, pin, call, seen, operation,
                    calls>>
    BY <1>5 DEF vars, files, local
  <2>2. Types'
    BY <2>1 DEF Inv, Types, TypeOK
  <2>3. Inv'
    BY <2>1, <2>2 DEF Inv
  <2> QED BY <2>1, <2>3, Stays
<1> QED BY <1>1, <1>2, <1>3, <1>4, <1>5 DEF Next

(***************************************************************************)
(* Archive, restore, trash, restore from trash and keep answer honestly,   *)
(* for one operation after the other, however many fail, are retried or    *)
(* are killed half way: an answer is given only when the journal shows the *)
(* new state and the evidence is complete in its new place and not in the  *)
(* old.                                                                    *)
(***************************************************************************)
THEOREM AnswersHonest == ASSUME Serial PROVE Spec => []HonestAnswers
<1>1. Inv => HonestAnswers
  <2> SUFFICES ASSUME Inv, NEW c \in Callers, pc[c] = "ok" PROVE Done(c)
    BY DEF HonestAnswers, At
  <2>1. DoneIn(call[c], seen[c], journal, carrier, pin) /\ Unlocked("ok", call[c], locked)
    BY AtStep DEF Known, Inv
  <2>2. CASE call[c] \in {"archive", "restore_hot", "trash"}
    BY <2>1, <2>2 DEF Done, DoneIn, Whole, Present
  <2>3. CASE call[c] = "restore_trash"
    BY <2>1, <2>3 DEF Done, DoneIn, Whole, Present, Target
  <2>4. CASE call[c] \in {"keep", "unkeep"}
    BY <2>1, <2>4 DEF Done, DoneIn
  <2>5. CASE call[c] \notin Running
    BY <2>1, <2>5 DEF Done, Unlocked, Running
  <2> QED BY <2>2, <2>3, <2>4, <2>5 DEF Running
<1>2. Inv /\ [Next]_vars => Inv'
  BY NextInv
<1> QED BY <1>1, <1>2, InitInv, PTL DEF Spec

(* No sequence of operations on a run, with its failures and kills, ever    *)
(* leaves it without a complete copy of its evidence.                       *)
THEOREM EvidenceStaysWhole == ASSUME Serial PROVE Spec => []Evidence
<1>1. Inv => Evidence
  BY DEF Inv, Somewhere, Evidence, Whole
<1>2. Inv /\ [Next]_vars => Inv'
  BY NextInv
<1> QED BY <1>1, <1>2, InitInv, PTL DEF Spec

(* A run that its journal or its pin keeps is never trashed, whatever was   *)
(* interrupted before.                                                      *)
THEOREM KeptRunsStay == ASSUME Serial PROVE Spec => KeptStays
<1>1. Inv /\ [Next]_vars => Inv' /\ Kept
  BY NextInv DEF Orderly
<1> QED BY <1>1, InitInv, PTL DEF Spec, KeptStays, Kept

(* The operations of one process implement RunStorage: the journal moves    *)
(* only along the life cycle, and only to a state whose complete evidence   *)
(* is in its place.                                                         *)
THEOREM RunStorageImplemented == ASSUME Serial PROVE Spec => ImplementsRunStorage
<1>1. Init => Storage!Init
  <2> SUFFICES ASSUME Init PROVE Storage!Init
    OBVIOUS
  <2>1. {p \in Places : Whole(p)} = {"hot"}
    BY EventNames DEF Init, Whole
  <2> QED BY <2>1 DEF Init, NoHead, Storage!Init
<1>2. Inv /\ [Next]_vars => Inv' /\ [Storage!Next]_(Storage!vars)
  BY NextInv DEF Orderly
<1> QED BY <1>1, <1>2, InitInv, PTL DEF Spec, ImplementsRunStorage, Storage!Spec

-----------------------------------------------------------------------------
(***************************************************************************)
(* Several processes, whose operations interleave at every step.  The       *)
(* journal keeps two of them apart although its lock is held only for an    *)
(* event: an operation that destroys evidence has a started event in the    *)
(* journal, which nobody else may end unless it leads to the trash, where   *)
(* no operation starts any more.  So at most one caller is in the steps of  *)
(* a trash, at most one in the cleanup of an archive, and never both.       *)
(* Nobody removes the lock of a run by hand here: an owner whose lock is    *)
(* taken away inside its append could write after another, and the model    *)
(* takes the read of the head and the write of an event as one step.        *)
(***************************************************************************)
Concurrent ==
    /\ Operations \cap {"restore_hot", "restore_trash", "recover_lock"} = {}
    /\ CrossVolume => "part" \notin Faults

RestoreSteps == {"restore_hot", "extract", "extracted", "drop", "resume", "resume_drop", "retract",
                 "unrestore", "restore_trash", "leave", "arrive", "tidy", "undo"}
TrashSteps == {"enter", "move", "note", "source", "rollback", "discard", "untrash"}
CleanupSteps == {"compare", "remove_hot", "uncleaned"}
Unwritten == {"expect", "acquire", "write"}

(* Between trash_started and trashed or trash_failed. *)
Trashes(at, e) ==
    \/ at \in TrashSteps
    \/ at = "release" /\ e.type = "trash_started"
    \/ at \in Unwritten /\ e.type = "trash_failed"

(* Between hot_cleanup_started and its completion or failure. *)
Cleans(at, e) ==
    \/ at \in CleanupSteps
    \/ at = "release" /\ e.type = "hot_cleanup_started"
    \/ at \in Unwritten /\ e.type \in {"hot_cleanup_completed", "hot_cleanup_failed"}

(* Evidence that is in its place, or was moved to the trash and not back. *)
Safe(k, p) ==
    \/ k[p] = "whole"
    \/ ~CrossVolume /\ k[p] = "none" /\ k["payload"] = "whole"

(* What the journal says of the carriers while no trash is under way. *)
Held(j, k) ==
    j.pending # "trash_started" =>
        /\ j.state \in {"none", "hot", "archiving"} => Safe(k, "hot")
        /\ j.state = "archived_duplicate" => Safe(k, "hot") \/ k["archive"] = "whole"
        /\ j.state = "archived" => Safe(k, "archive")

(* An event that some operation announces, with s the head it looked at. *)
Fits(e, s) ==
    /\ {"type", "from", "to", "then", "else"} \subseteq DOMAIN e
    /\ e.type \in Kinds \ {"archive_restore_started", "archive_restore_completed",
                           "archive_restore_failed", "trash_restored"}
    /\ e.then \in {"discovered", "existing", "build", "cleanup", "compare", "enter", "ok", "fail"}
    /\ e.else = "fail"
    /\ e.then = "enter" => e.type = "trash_started"
    /\ e.then = "compare" => e.type = "hot_cleanup_started"
    /\ e.type = "keep_changed" => e.from = e.to
    /\ e.type \in {"trash_started", "trash_failed"} =>
         e.from = s.state /\ e.to = s.state /\ s.state \in Away

(* What a caller in the steps of a trash, or of a cleanup, may rely on. *)
InTrash(at, s, j, k) ==
    /\ j.pending = "trash_started" \/ j.state = "trash"
    /\ s.state \in Away /\ Safe(k, Place(s.state))
    /\ at \in {"move", "source", "discard"} => k[Place(s.state)] = "whole"
    /\ at \in {"note", "source"} => k["payload"] = "whole"
    /\ at = "source" => CrossVolume

InCleanup(at, e, j, k) ==
    /\ j.pending = "hot_cleanup_started"
    /\ at = "remove_hot" => k["archive"] = "whole"
    /\ at \in Unwritten /\ e.type = "hot_cleanup_completed" => k["archive"] = "whole"

Fine(at, e, s, j, k) ==
    /\ at \notin RestoreSteps
    /\ at \in Appending => Fits(e, s)
    /\ Trashes(at, e) => InTrash(at, s, j, k)
    /\ Cleans(at, e) => InCleanup(at, e, j, k)

ProcessInv ==
    /\ DOMAIN pc = Callers /\ DOMAIN log = Callers /\ DOMAIN seen = Callers
    /\ carrier \in [Places -> {"none", "whole", "part"}]
    /\ Somewhere(carrier) /\ Held(journal, carrier)
    /\ journal.pending = "hot_cleanup_started" => journal.state = "archived_duplicate"
    /\ \A c \in Callers : Fine(pc[c], log[c], seen[c], journal, carrier)
    /\ \A c, d \in Callers :
         /\ Trashes(pc[c], log[c]) /\ Trashes(pc[d], log[d]) => c = d
         /\ Cleans(pc[c], log[c]) /\ Cleans(pc[d], log[d]) => c = d

-----------------------------------------------------------------------------
(* What a step of c leaves of the other callers. *)
Others(c) ==
    /\ DOMAIN pc' = Callers /\ DOMAIN log' = Callers /\ DOMAIN seen' = Callers
    /\ \A d \in Callers \ {c} : pc'[d] = pc[d] /\ log'[d] = log[d] /\ seen'[d] = seen[d]

Sections == TrashSteps \cup CleanupSteps

LEMMA ProcessInit == Init => ProcessInv
<1> SUFFICES ASSUME Init PROVE ProcessInv
  OBVIOUS
<1>1. Somewhere(carrier) /\ Held(journal, carrier)
  BY DEF Init, Somewhere, Held, Safe, NoHead, Places
<1>2. \A c \in Callers : pc[c] = "idle"
  BY DEF Init
<1>3. \A c \in Callers : ~Trashes(pc[c], log[c]) /\ ~Cleans(pc[c], log[c])
  BY <1>2 DEF Trashes, Cleans, TrashSteps, CleanupSteps, Unwritten
<1>4. \A c \in Callers : Fine(pc[c], log[c], seen[c], journal, carrier)
  BY <1>2, <1>3 DEF Fine, RestoreSteps, Appending
<1> QED BY <1>1, <1>3, <1>4 DEF Init, ProcessInv, NoHead

(* A step is fine when it is for its caller and for each of the others. *)
LEMMA ProcessStep ==
    ASSUME ProcessInv, NEW c \in Callers, Others(c),
           carrier' \in [Places -> {"none", "whole", "part"}],
           Somewhere(carrier'), Held(journal', carrier'),
           journal'.pending = "hot_cleanup_started" => journal'.state = "archived_duplicate",
           Fine(pc'[c], log'[c], seen'[c], journal', carrier'),
           \A d \in Callers \ {c} : Fine(pc[d], log[d], seen[d], journal', carrier'),
           \A d \in Callers \ {c} :
              /\ ~(Trashes(pc'[c], log'[c]) /\ Trashes(pc[d], log[d]))
              /\ ~(Cleans(pc'[c], log'[c]) /\ Cleans(pc[d], log[d]))
    PROVE  ProcessInv'
<1>1. \A d \in Callers : Fine(pc'[d], log'[d], seen'[d], journal', carrier')
  BY DEF Others
<1>2. ASSUME NEW d \in Callers, NEW e \in Callers
      PROVE  /\ Trashes(pc'[d], log'[d]) /\ Trashes(pc'[e], log'[e]) => d = e
             /\ Cleans(pc'[d], log'[d]) /\ Cleans(pc'[e], log'[e]) => d = e
  <2>1. CASE d = c
    BY <2>1 DEF Others
  <2>2. CASE e = c
    BY <2>2 DEF Others
  <2>3. CASE d # c /\ e # c
    BY <2>3 DEF Others, ProcessInv
  <2> QED BY <2>1, <2>2, <2>3
<1> QED BY <1>1, <1>2 DEF ProcessInv, Others

(* A step that changes nothing but its caller, and enters no section. *)
LEMMA OwnStep ==
    ASSUME ProcessInv, NEW c \in Callers, Others(c), journal' = journal, carrier' = carrier,
           Fine(pc'[c], log'[c], seen'[c], journal, carrier),
           Trashes(pc'[c], log'[c]) => Trashes(pc[c], log[c]),
           Cleans(pc'[c], log'[c]) => Cleans(pc[c], log[c])
    PROVE  ProcessInv'
BY ProcessStep DEF ProcessInv

(* Where neither trash nor cleanup is, nothing has to be relied on. *)
LEMMA Outside ==
    ASSUME NEW at, at \notin RestoreSteps \cup Appending \cup Sections, NEW e, NEW s, NEW j, NEW k
    PROVE  Fine(at, e, s, j, k) /\ ~Trashes(at, e) /\ ~Cleans(at, e)
BY DEF Fine, Trashes, Cleans, Appending, Unwritten, Sections

LEMMA Leaves ==
    ASSUME ProcessInv, NEW c \in Callers, Others(c), journal' = journal, carrier' = carrier,
           pc'[c] \notin RestoreSteps \cup Appending \cup Sections
    PROVE  ProcessInv'
BY OwnStep, Outside

(* A caller goes on to a step, with or without a look at the journal. *)
LEMMA GoesOut ==
    ASSUME ProcessInv, NEW c \in Callers, NEW at, Goto(c, at), UNCHANGED <<log, carrier, journal>>,
           Local \/ Look(c), at \notin RestoreSteps \cup Appending \cup Sections
    PROVE  ProcessInv'
<1>1. Others(c) /\ pc'[c] = at
  BY DEF Others, Goto, Local, Look, ProcessInv
<1> QED BY <1>1, Leaves

(* A caller goes on within its section. *)
LEMMA GoesWithin ==
    ASSUME ProcessInv, NEW c \in Callers, NEW at, Goto(c, at),
           UNCHANGED <<log, seen, carrier, journal>>,
           \/ at \in TrashSteps /\ pc[c] \in TrashSteps /\ InTrash(at, seen[c], journal, carrier)
           \/ /\ at \in CleanupSteps /\ pc[c] \in CleanupSteps
              /\ InCleanup(at, log[c], journal, carrier)
    PROVE  ProcessInv'
<1>1. Others(c) /\ pc'[c] = at /\ log'[c] = log[c] /\ seen'[c] = seen[c]
  BY DEF Others, Goto, ProcessInv
<1>2. /\ at \in Sections /\ at \notin RestoreSteps \cup Appending
      /\ at \in TrashSteps <=> at \notin CleanupSteps
      /\ pc[c] \in TrashSteps <=> pc[c] \notin CleanupSteps
  BY DEF TrashSteps, CleanupSteps, RestoreSteps, Appending, Sections
<1>3. /\ Trashes(at, log[c]) <=> at \in TrashSteps
      /\ Cleans(at, log[c]) <=> at \in CleanupSteps
  BY <1>2 DEF Trashes, Cleans, Unwritten, Appending
<1>4. Fine(at, log[c], seen[c], journal, carrier)
  BY <1>2, <1>3 DEF Fine
<1>5. /\ Trashes(at, log[c]) => Trashes(pc[c], log[c])
      /\ Cleans(at, log[c]) => Cleans(pc[c], log[c])
  BY <1>2, <1>3 DEF Trashes, Cleans
<1> QED BY <1>1, <1>4, <1>5, OwnStep

(* A caller announces an event; that of a failure only from its section. *)
LEMMA Announcing ==
    ASSUME ProcessInv, NEW c \in Callers, NEW type, NEW from, NEW to, NEW named, NEW then,
           Log(c, type, from, to, named, then, "fail"), UNCHANGED <<carrier, journal>>,
           Local \/ Look(c), Fits(log'[c], seen'[c]), type # "hot_cleanup_completed",
           type = "trash_failed" => pc[c] = "untrash" /\ Local,
           type = "hot_cleanup_failed" => pc[c] = "uncleaned"
    PROVE  ProcessInv'
<1>1. /\ Others(c) /\ pc'[c] = "expect" /\ log'[c].type = type
      /\ Local => seen'[c] = seen[c]
  BY DEF Others, Log, Goto, Local, Look, ProcessInv
<1>2. Fine(pc[c], log[c], seen[c], journal, carrier)
  BY DEF ProcessInv
<1>3. /\ Trashes("expect", log'[c]) = (type = "trash_failed")
      /\ Cleans("expect", log'[c]) = (type = "hot_cleanup_failed")
  BY <1>1 DEF Trashes, Cleans, TrashSteps, CleanupSteps, Unwritten
<1>4. ASSUME type = "trash_failed" PROVE InTrash("expect", seen'[c], journal, carrier)
  BY <1>1, <1>2, <1>4 DEF Fine, Trashes, TrashSteps, InTrash
<1>5. ASSUME type = "hot_cleanup_failed" PROVE InCleanup("expect", log'[c], journal, carrier)
  BY <1>1, <1>2, <1>5 DEF Fine, Cleans, CleanupSteps, InCleanup
<1>6. Fine("expect", log'[c], seen'[c], journal, carrier)
  BY <1>3, <1>4, <1>5 DEF Fine, RestoreSteps
<1> QED BY <1>1, <1>3, <1>6, OwnStep DEF Trashes, Cleans, TrashSteps, CleanupSteps

-----------------------------------------------------------------------------
(* The steps that leave the carriers and the journal. *)
LEMMA Here ==
    ASSUME ProcessInv, NEW c \in Callers
    PROVE  /\ Fine(pc[c], log[c], seen[c], journal, carrier) /\ pc[c] \notin RestoreSteps
           /\ pc[c] \in TrashSteps => InTrash(pc[c], seen[c], journal, carrier)
           /\ pc[c] \in CleanupSteps => InCleanup(pc[c], log[c], journal, carrier)
           /\ pc[c] \in Appending => Fits(log[c], seen[c])
BY DEF ProcessInv, Fine, Trashes, Cleans

(* A caller begins, ends, or is killed. *)
LEMMA BetweenCalls ==
    ASSUME ProcessInv, Concurrent, NEW c \in Callers,
           (\E o \in Operations : Call(c, o)) \/ Return(c) \/ Crash(c)
    PROVE  ProcessInv'
<1>1. ASSUME NEW o \in Operations, Call(c, o) PROVE ProcessInv'
  <2>1. o \notin RestoreSteps \cup Appending \cup Sections
    BY OperationsAssumption
       DEF Concurrent, Calls, RestoreSteps, Appending, Sections, TrashSteps, CleanupSteps
  <2> QED BY <1>1, <2>1, GoesOut DEF Call, files, Local
<1>2. ASSUME Return(c) \/ Crash(c) PROVE ProcessInv'
  <2>1. Ended(c) /\ UNCHANGED <<journal, carrier>>
    BY <1>2 DEF Return, Crash, files
  <2>2. Others(c) /\ pc'[c] = "idle"
    BY <2>1 DEF Ended, Goto, Others, ProcessInv
  <2>3. "idle" \notin RestoreSteps \cup Appending \cup Sections
    BY DEF RestoreSteps, Appending, Sections, TrashSteps, CleanupSteps
  <2> QED BY <2>1, <2>2, <2>3, Leaves
<1> QED BY <1>1, <1>2

(* An append that goes on keeps its event, one that is refused fails. *)
LEMMA AppendGoesOn ==
    ASSUME ProcessInv, NEW c \in Callers, pc[c] \in Unwritten, NEW at \in Unwritten, Goto(c, at),
           UNCHANGED <<seen, carrier, journal>>,
           log' = log \/ \E n : log' = [log EXCEPT ![c].expects = n]
    PROVE  ProcessInv'
<1>1. Others(c) /\ pc'[c] = at /\ seen'[c] = seen[c]
  BY DEF Others, Goto, ProcessInv
<1>2. Fits(log[c], seen[c])
  BY Here DEF Unwritten, Appending
<1>3. /\ {"type", "from", "to", "then", "else"} \subseteq DOMAIN log'[c]
      /\ log'[c].type = log[c].type /\ log'[c].from = log[c].from /\ log'[c].to = log[c].to
      /\ log'[c].then = log[c].then /\ log'[c].else = log[c].else
  BY <1>2 DEF Fits, ProcessInv
<1>4. Fits(log'[c], seen[c])
  BY <1>2, <1>3 DEF Fits
<1>5. /\ \A x \in Unwritten : /\ Trashes(x, log[c]) <=> log[c].type = "trash_failed"
                              /\ Cleans(x, log[c]) <=> log[c].type \in {"hot_cleanup_completed", "hot_cleanup_failed"}
                              /\ Trashes(x, log'[c]) <=> Trashes(x, log[c])
                              /\ Cleans(x, log'[c]) <=> Cleans(x, log[c])
  BY <1>3 DEF Trashes, Cleans, TrashSteps, CleanupSteps, Unwritten
<1>6. Fine(pc[c], log[c], seen[c], journal, carrier)
  BY Here
<1>7. Trashes(at, log'[c]) => InTrash(at, seen[c], journal, carrier)
  BY <1>5, <1>6 DEF Fine, InTrash, Unwritten
<1>8. Cleans(at, log'[c]) => InCleanup(at, log'[c], journal, carrier)
  BY <1>3, <1>5, <1>6 DEF Fine, InCleanup, Unwritten
<1>9. Fine(at, log'[c], seen[c], journal, carrier)
  BY <1>4, <1>7, <1>8 DEF Fine, RestoreSteps, Unwritten
<1> QED BY <1>1, <1>5, <1>9, OwnStep

LEMMA AppendRefused ==
    ASSUME ProcessInv, NEW c \in Callers, pc[c] \in Appending, NotAppended(c),
           UNCHANGED <<seen, carrier, journal>>
    PROVE  ProcessInv'
<1>1. pc'[c] = "fail" /\ Others(c)
  BY Here DEF NotAppended, Goto, Others, ProcessInv, Fits
<1> QED BY <1>1, Leaves DEF RestoreSteps, Appending, Sections, TrashSteps, CleanupSteps

(* The event is in the journal: its caller enters the section it announced. *)
LEMMA AppendReturns ==
    ASSUME ProcessInv, NEW c \in Callers, Release(c), UNCHANGED <<seen, carrier>>
    PROVE  ProcessInv'
<1>1. /\ pc[c] = "release" /\ Others(c) /\ pc'[c] = log[c].then /\ seen'[c] = seen[c]
      /\ journal' = journal
  BY DEF Release, At, Appended, Goto, Others, ProcessInv
<1>2. Fits(log[c], seen[c]) /\ Fine("release", log[c], seen[c], journal, carrier)
  BY <1>1, Here DEF Appending
<1>3. CASE log[c].then = "enter"
  <2>1. Trashes("release", log[c]) /\ InTrash("release", seen[c], journal, carrier)
    BY <1>2, <1>3 DEF Fits, Trashes, Fine
  <2>2. /\ Trashes("enter", log'[c]) /\ ~Cleans("enter", log'[c])
        /\ InTrash("enter", seen[c], journal, carrier)
    BY <2>1 DEF InTrash, Trashes, TrashSteps, Cleans, CleanupSteps, Unwritten
  <2>3. Fine("enter", log'[c], seen[c], journal, carrier)
    BY <2>2 DEF Fine, RestoreSteps, Appending
  <2> QED BY <1>1, <1>3, <2>1, <2>2, <2>3, OwnStep
<1>4. CASE log[c].then = "compare"
  <2>1. Cleans("release", log[c]) /\ InCleanup("release", log[c], journal, carrier)
    BY <1>2, <1>4 DEF Fits, Cleans, Fine
  <2>2. /\ Cleans("compare", log'[c]) /\ ~Trashes("compare", log'[c])
        /\ InCleanup("compare", log'[c], journal, carrier)
    BY <2>1 DEF InCleanup, Trashes, TrashSteps, Cleans, CleanupSteps, Unwritten
  <2>3. Fine("compare", log'[c], seen[c], journal, carrier)
    BY <2>2 DEF Fine, RestoreSteps, Appending
  <2> QED BY <1>1, <1>4, <2>1, <2>2, <2>3, OwnStep
<1>5. CASE log[c].then \notin {"enter", "compare"}
  BY <1>1, <1>2, <1>5, Leaves
     DEF Fits, RestoreSteps, Appending, Sections, TrashSteps, CleanupSteps
<1> QED BY <1>3, <1>4, <1>5

LEMMA QuietRecords ==
    ASSUME ProcessInv, NEW c \in Callers, UNCHANGED <<carrier, seen>>,
           \/ Acquire(c) \/ Busy(c) \/ AcquireError(c) \/ NotWritten(c) \/ ReleaseError(c)
           \/ Release(c) \/ RecoverLock(c) \/ Unlink(c)
    PROVE  ProcessInv'
<1>1. CASE Acquire(c)
  BY <1>1, AppendGoesOn DEF Acquire, At, Unwritten
<1>2. CASE Busy(c) \/ AcquireError(c) \/ NotWritten(c) \/ ReleaseError(c)
  BY <1>2, AppendRefused DEF Busy, AcquireError, NotWritten, ReleaseError, At, Appending
<1>3. CASE Release(c)
  BY <1>3, AppendReturns
<1>4. CASE RecoverLock(c) \/ Unlink(c)
  <2>1. PICK at \in {"unlink", "fail", "ok"} : Goto(c, at)
    BY <1>4 DEF RecoverLock, Unlink
  <2>2. Others(c) /\ pc'[c] = at /\ journal' = journal
    BY <1>4, <2>1 DEF RecoverLock, Unlink, Others, Goto, ProcessInv
  <2> QED BY <2>1, <2>2, Leaves DEF RestoreSteps, Appending, Sections, TrashSteps, CleanupSteps
<1> QED BY <1>1, <1>2, <1>3, <1>4

LEMMA ExpectFine ==
    ASSUME ProcessInv, NEW c \in Callers, Expect(c) PROVE ProcessInv'
<1>1. pc[c] = "expect" /\ UNCHANGED <<journal, carrier, seen>>
  BY DEF Expect, At, local, files
<1>2. CASE Goto(c, "acquire") /\ log' = [log EXCEPT ![c].expects = journal.revision]
  BY <1>1, <1>2, AppendGoesOn DEF Unwritten
<1>3. CASE NotAppended(c)
  BY <1>1, <1>3, AppendRefused DEF Appending
<1> QED BY <1>2, <1>3 DEF Expect

(* Announcing, for an event of which no more than its form is to be shown. *)
LEMMA AnnouncesFine ==
    ASSUME ProcessInv, NEW c \in Callers, NEW type, NEW from, NEW to, NEW named, NEW then,
           Log(c, type, from, to, named, then, "fail"), UNCHANGED <<carrier, journal>>,
           Local \/ Look(c),
           type \in {"hot_discovered", "keep_changed", "archive_started", "archive_verified",
                     "archive_failed", "hot_cleanup_started", "hot_cleanup_failed",
                     "trash_started", "trashed", "trash_failed"},
           then \in {"discovered", "existing", "build", "cleanup", "compare", "enter", "ok", "fail"},
           then = "enter" => type = "trash_started",
           then = "compare" => type = "hot_cleanup_started",
           type = "keep_changed" => from = to,
           type \in {"trash_started", "trash_failed"} =>
              from = seen[c].state /\ to = seen[c].state /\ seen[c].state \in Away /\ Local,
           type = "trash_failed" => pc[c] = "untrash",
           type = "hot_cleanup_failed" => pc[c] = "uncleaned"
    PROVE  ProcessInv'
<1>1. log'[c] = [type |-> type, from |-> from, to |-> to, keep |-> call[c] = "keep",
                 named |-> named, expects |-> 0, then |-> then, else |-> "fail"]
  BY DEF Log, ProcessInv
<1>2. /\ {"type", "from", "to", "then", "else"} \subseteq DOMAIN log'[c]
      /\ log'[c].type = type /\ log'[c].from = from /\ log'[c].to = to
      /\ log'[c].then = then /\ log'[c].else = "fail"
  BY <1>1
<1>3. Local => seen'[c] = seen[c]
  BY DEF Local
<1>4. Fits(log'[c], seen'[c])
  BY <1>2, <1>3, EventNames DEF Fits
<1> QED BY <1>4, Announcing

(* The steps of an archive before and between its removals. *)
LEMMA ArchiveSteps ==
    ASSUME ProcessInv, NEW c \in Callers,
           \/ Discover(c) \/ Discovered(c) \/ Archive(c) \/ Bundle(c) \/ Existing(c)
           \/ BundlePublished(c) \/ Cleanup(c)
    PROVE  ProcessInv'
<1> USE DEF RestoreSteps, Appending, Sections, TrashSteps, CleanupSteps
<1>1. CASE Discover(c)
  BY <1>1, AnnouncesFine DEF Discover, files
<1>2. CASE Discovered(c)
  <2>1. PICK at \in {"bundle", "trashing", "keeping"} : Goto(c, at)
    BY <1>2 DEF Discovered
  <2> QED BY <1>2, <2>1, GoesOut DEF Discovered, files
<1>3. CASE Archive(c)
  BY <1>3, GoesOut DEF Archive, Quiet, Elsewhere, files
<1>4. CASE Bundle(c)
  <2>1. CASE Goto(c, "existing") /\ UNCHANGED log
    BY <1>4, <2>1, GoesOut DEF Bundle, Quiet, Elsewhere, files
  <2>2. ASSUME NEW then \in {"existing", "build"},
               Log(c, "archive_started", "hot", "archiving", "hot", then, "fail")
        PROVE  ProcessInv'
    BY <1>4, <2>2, AnnouncesFine DEF Bundle, Quiet, Elsewhere, files
  <2> QED BY <1>4, <2>1, <2>2 DEF Bundle
<1>5. CASE Existing(c)
  <2>1. CASE Goto(c, "cleanup") /\ UNCHANGED log
    BY <1>5, <2>1, GoesOut DEF Existing, Quiet, Elsewhere, files
  <2>2. CASE Verified(c)
    BY <1>5, <2>2, AnnouncesFine DEF Existing, Verified, Quiet, Elsewhere, files
  <2> QED BY <1>5, <2>1, <2>2 DEF Existing
<1>6. CASE BundlePublished(c)
  BY <1>6, AnnouncesFine DEF BundlePublished, Verified, Quiet, Elsewhere, files
<1>7. CASE Cleanup(c)
  <2>1. CASE Goto(c, "ok") /\ UNCHANGED log
    BY <1>7, <2>1, GoesOut DEF Cleanup, Quiet, Elsewhere, files
  <2>2. CASE Log(c, "hot_cleanup_started", "archived_duplicate", "archived_duplicate", "hot",
                 "compare", "fail")
    BY <1>7, <2>2, AnnouncesFine DEF Cleanup, Quiet, Elsewhere, files
  <2> QED BY <1>7, <2>1, <2>2 DEF Cleanup
<1> QED BY <1>1, <1>2, <1>3, <1>4, <1>5, <1>6, <1>7

(* The steps of a trash, and of a keep, that leave the carriers. *)
LEMMA TrashAndKeepSteps ==
    ASSUME ProcessInv, NEW c \in Callers,
           Trash(c) \/ Trashing(c) \/ Note(c) \/ ResumeTrash(c) \/ Keep(c) \/ Keeping(c)
    PROVE  ProcessInv'
<1> USE DEF RestoreSteps, Appending, Sections, TrashSteps, CleanupSteps
<1>1. CASE Trash(c)
  <2>1. PICK at \in {"resume_trash", "trashing"} : Goto(c, at)
    BY <1>1 DEF Trash
  <2> QED BY <1>1, <2>1, GoesOut DEF Trash, Quiet, Elsewhere, files
<1>2. CASE Trashing(c)
  <2>1. seen[c].state \in Away
    BY <1>2 DEF Trashing, Step, At, Ready, Away
  <2> QED BY <1>2, <2>1, AnnouncesFine DEF Trashing, Quiet, Elsewhere, files
<1>3. CASE Note(c)
  <2>1. /\ pc[c] = "note" /\ UNCHANGED <<journal, seen, operation, carrier>>
        /\ carrier["payload"] = "whole"
    BY <1>3 DEF Note, Step, At, Elsewhere, Ready, Whole
  <2>2. InTrash("note", seen[c], journal, carrier)
    BY <2>1, Here
  <2>3. CASE CrossVolume /\ Goto(c, "source") /\ UNCHANGED log
    <3>1. InTrash("source", seen[c], journal, carrier)
      BY <2>1, <2>2, <2>3 DEF InTrash, Safe
    <3> QED BY <2>1, <2>3, <3>1, GoesWithin
  <2>4. CASE Trashed(c, "none")
    BY <2>1, <2>4, AnnouncesFine DEF Trashed, Local
  <2> QED BY <1>3, <2>3, <2>4 DEF Note
<1>4. CASE ResumeTrash(c)
  BY <1>4, AnnouncesFine DEF ResumeTrash, Trashed, Quiet, Elsewhere, files
<1>5. CASE Keep(c)
  BY <1>5, GoesOut DEF Keep, Quiet, Elsewhere, files
<1>6. CASE Keeping(c)
  BY <1>6, AnnouncesFine DEF Keeping, Elsewhere, Local
<1> QED BY <1>1, <1>2, <1>3, <1>4, <1>5, <1>6

(* A check before a removal or a move finds what the next step relies on. *)
LEMMA ChecksFine ==
    ASSUME ProcessInv, NEW c \in Callers, Check(c) PROVE ProcessInv'
<1>1. /\ pc[c] \in {"compare", "enter"} /\ Ready(c) /\ Goto(c, CheckedBefore[pc[c]])
      /\ UNCHANGED <<log, seen, carrier, journal>>
  BY Here DEF Check, CheckedBefore, RestoreSteps, Quiet, Elsewhere, Local, files
<1>2. CASE pc[c] = "compare"
  <2>1. InCleanup("remove_hot", log[c], journal, carrier)
    BY <1>1, <1>2, Here DEF Ready, At, Whole, CleanupSteps, InCleanup, Unwritten
  <2>2. Goto(c, "remove_hot")
    BY <1>1, <1>2 DEF CheckedBefore
  <2> QED BY <1>1, <1>2, <2>1, <2>2, GoesWithin DEF CleanupSteps
<1>3. CASE pc[c] = "enter"
  <2>1. InTrash("move", seen[c], journal, carrier)
    BY <1>1, <1>3, Here DEF Ready, At, Whole, Home, TrashSteps, InTrash
  <2>2. Goto(c, "move")
    BY <1>1, <1>3 DEF CheckedBefore
  <2> QED BY <1>1, <1>3, <2>1, <2>2, GoesWithin DEF TrashSteps
<1> QED BY <1>1, <1>2, <1>3

(* The handlers announce a failure. *)
LEMMA FailsFine ==
    ASSUME ProcessInv, NEW c \in Callers, Fail(c) PROVE ProcessInv'
<1>1. UNCHANGED <<carrier, journal, seen>> /\ Local
  BY DEF Fail, Quiet, Elsewhere, files, Local
<1>2. CASE At(c, "unarchive") /\ LogFailure(c, "archive_failed", "archiving", "hot", "hot")
  BY <1>1, <1>2, AnnouncesFine DEF LogFailure
<1>3. CASE At(c, "uncleaned") /\ LogFailure(c, "hot_cleanup_failed", "archived_duplicate",
                                            "archived_duplicate", "archive")
  BY <1>1, <1>3, AnnouncesFine DEF LogFailure, At
<1>4. ASSUME At(c, "untrash"), NEW named,
             LogFailure(c, "trash_failed", seen[c].state, seen[c].state, named)
      PROVE  ProcessInv'
  <2>1. seen[c].state \in Away
    BY <1>4, Here DEF At, TrashSteps, InTrash
  <2> QED BY <1>1, <1>4, <2>1, AnnouncesFine DEF LogFailure, At
<1> QED BY <1>2, <1>3, <1>4 DEF Fail

(* An error leads to a handler of the same section. *)
LEMMA RaisesFine ==
    ASSUME ProcessInv, NEW c \in Callers, Raise(c) PROVE ProcessInv'
<1> USE DEF RestoreSteps, Appending, Sections, TrashSteps, CleanupSteps
<1>1. /\ Goto(c, Handler(c)) /\ UNCHANGED <<journal, log, seen, operation, carrier>>
      /\ pc[c] \notin Inert
  BY DEF Raise, local, files
<1>2. CASE pc[c] \in TrashSteps
  <2>1. PICK at \in {"rollback", "untrash"} : Goto(c, at)
    BY <1>1, <1>2 DEF Handler, Inert
  <2>2. InTrash(at, seen[c], journal, carrier)
    BY <1>2, <2>1, Here DEF InTrash
  <2> QED BY <1>1, <1>2, <2>1, <2>2, GoesWithin
<1>3. CASE pc[c] \in CleanupSteps
  <2>1. Goto(c, "uncleaned")
    BY <1>1, <1>3 DEF Handler, Inert
  <2>2. InCleanup("uncleaned", log[c], journal, carrier)
    BY <1>3, Here DEF InCleanup, Unwritten
  <2> QED BY <1>1, <1>3, <2>1, <2>2, GoesWithin
<1>4. CASE pc[c] \notin Sections
  <2>1. PICK at \in {"unarchive", "fail"} : Goto(c, at)
    BY <1>1, <1>4, Here DEF Handler, Inert
  <2> QED BY <1>1, <2>1, GoesOut DEF Local
<1> QED BY <1>2, <1>3, <1>4

-----------------------------------------------------------------------------
(* In the steps of a trash nobody else is in a trash or a cleanup, so no    *)
(* other caller relies on the carriers, nor does the journal.               *)
LEMMA TrashAlone ==
    ASSUME ProcessInv, NEW c \in Callers, pc[c] \in TrashSteps, Others(c), journal' = journal,
           carrier' \in [Places -> {"none", "whole", "part"}], Somewhere(carrier'),
           seen'[c] = seen[c],
           \/ /\ pc'[c] \in TrashSteps /\ InTrash(pc'[c], seen[c], journal, carrier')
           \/ /\ pc'[c] = "expect" /\ log'[c].type = "trashed" /\ Fits(log'[c], seen[c])
    PROVE  ProcessInv'
<1>1. /\ Trashes(pc[c], log[c]) /\ InTrash(pc[c], seen[c], journal, carrier)
      /\ journal.pending # "hot_cleanup_started"
  BY Here DEF Trashes, InTrash, ProcessInv
<1>2. ASSUME NEW d \in Callers \ {c}
      PROVE  /\ ~Trashes(pc[d], log[d]) /\ ~Cleans(pc[d], log[d])
             /\ Fine(pc[d], log[d], seen[d], journal, carrier')
  BY <1>1 DEF ProcessInv, Fine, InCleanup
<1>3. Held(journal, carrier')
  BY <1>1 DEF Held, InTrash
<1>4. Fine(pc'[c], log'[c], seen'[c], journal, carrier')
  BY DEF Fine, Trashes, Cleans, TrashSteps, CleanupSteps, RestoreSteps, Appending, Unwritten
<1> QED BY <1>2, <1>3, <1>4, ProcessStep DEF ProcessInv

(* The carrier a trash takes away is never the payload. *)
LEMMA HomeElsewhere ==
    ASSUME NEW s, s \in Away
    PROVE  Place(s) \in {"hot", "archive"}
BY DEF Place, Away

LEMMA MoveFine ==
    ASSUME ProcessInv, NEW c \in Callers, Move(c) PROVE ProcessInv'
<1> DEFINE home == Place(seen[c].state)
<1>1. /\ pc[c] = "move" /\ Transfer(home, "payload") /\ Goto(c, "note")
      /\ UNCHANGED <<journal, log, seen>>
  BY DEF Move, Step, At, Home, Elsewhere, Local
<1>2. InTrash("move", seen[c], journal, carrier) /\ home \in {"hot", "archive"}
  BY <1>1, Here, HomeElsewhere DEF TrashSteps, InTrash
<1> HIDE DEF home
<1>3. /\ carrier' = [carrier EXCEPT !["payload"] = carrier[home],
                                    ![home] = IF CrossVolume THEN carrier[home] ELSE "none"]
      /\ carrier[home] = "whole" /\ carrier \in [Places -> {"none", "whole", "part"}]
  BY <1>1, <1>2 DEF Transfer, InTrash, home, ProcessInv
<1>4. /\ carrier' \in [Places -> {"none", "whole", "part"}] /\ carrier'["payload"] = "whole"
      /\ carrier'[home] = IF CrossVolume THEN "whole" ELSE "none"
  BY <1>2, <1>3 DEF Places
<1>5. InTrash("note", seen[c], journal, carrier')
  BY <1>2, <1>4, OperationsAssumption DEF InTrash, Safe, home
<1>6. Somewhere(carrier') /\ Others(c) /\ pc'[c] = "note"
  BY <1>1, <1>4 DEF Somewhere, Places, Others, Goto, ProcessInv
<1> QED BY <1>1, <1>4, <1>5, <1>6, TrashAlone DEF TrashSteps

LEMMA SourceFine ==
    ASSUME ProcessInv, NEW c \in Callers, Source(c) PROVE ProcessInv'
<1> DEFINE home == Place(seen[c].state)
<1>1. /\ pc[c] = "source" /\ Put(home, "none") /\ Trashed(c, "none")
      /\ UNCHANGED <<journal, seen>>
  BY DEF Source, Step, At, Home, Elsewhere, Local
<1>2. InTrash("source", seen[c], journal, carrier) /\ home \in {"hot", "archive"}
  BY <1>1, Here, HomeElsewhere DEF TrashSteps, InTrash
<1>3. /\ carrier' \in [Places -> {"none", "whole", "part"}] /\ carrier'["payload"] = "whole"
  BY <1>1, <1>2 DEF Put, InTrash, Places, ProcessInv
<1>4. /\ Others(c) /\ pc'[c] = "expect"
      /\ log'[c] = [type |-> "trashed", from |-> seen[c].state, to |-> "trash",
                    keep |-> call[c] = "keep", named |-> "none", expects |-> 0,
                    then |-> "ok", else |-> "fail"]
  BY <1>1 DEF Trashed, Log, Others, Goto, ProcessInv
<1>5. Fits(log'[c], seen[c]) /\ log'[c].type = "trashed"
  BY <1>4, EventNames DEF Fits
<1> QED BY <1>1, <1>3, <1>4, <1>5, TrashAlone DEF TrashSteps, Somewhere, Places

LEMMA RollbackFine ==
    ASSUME ProcessInv, NEW c \in Callers, Rollback(c) PROVE ProcessInv'
<1> DEFINE home == Place(seen[c].state)
<1>1. pc[c] = "rollback" /\ UNCHANGED <<journal, log, seen>>
  BY DEF Rollback, At, Elsewhere, Local
<1>2. InTrash("rollback", seen[c], journal, carrier) /\ home \in {"hot", "archive"}
  BY <1>1, Here, HomeElsewhere DEF TrashSteps, InTrash
<1>3. CASE Present("payload") /\ ~Present(home) /\ ~CrossVolume
  <2>1. Transfer("payload", home) /\ Goto(c, "discard")
    BY <1>3 DEF Rollback, Home
  <2>2. carrier["payload"] = "whole" /\ home \in {"hot", "archive"}
    BY <1>2, <1>3 DEF InTrash, Safe, Present
  <2> HIDE DEF home
  <2>3. /\ carrier' = [carrier EXCEPT ![home] = carrier["payload"], !["payload"] = "none"]
        /\ carrier \in [Places -> {"none", "whole", "part"}]
    BY <1>3, <2>1 DEF Transfer, ProcessInv
  <2>4. carrier' \in [Places -> {"none", "whole", "part"}] /\ carrier'[home] = "whole"
    BY <2>2, <2>3 DEF Places
  <2>5. InTrash("discard", seen[c], journal, carrier')
    BY <1>2, <2>4 DEF InTrash, Safe, home
  <2>6. Somewhere(carrier') /\ Others(c) /\ pc'[c] = "discard"
    BY <2>1, <2>2, <2>4, <1>1 DEF Somewhere, Places, Others, Goto, ProcessInv
  <2> QED BY <1>1, <2>4, <2>5, <2>6, TrashAlone DEF TrashSteps
<1>4. CASE Present(home) /\ Goto(c, "discard") /\ UNCHANGED files
  <2>1. InTrash("discard", seen[c], journal, carrier)
    BY <1>2, <1>4 DEF InTrash, Safe, Present
  <2> QED BY <1>1, <1>4, <2>1, GoesWithin DEF files, TrashSteps
<1>5. CASE Goto(c, "untrash") /\ UNCHANGED files
  <2>1. InTrash("untrash", seen[c], journal, carrier)
    BY <1>2 DEF InTrash
  <2> QED BY <1>1, <1>5, <2>1, GoesWithin DEF files, TrashSteps
<1> QED BY <1>3, <1>4, <1>5 DEF Rollback, Home

(* The trash directory is removed, whole or in part, when its evidence is in place. *)
LEMMA DiscardFine ==
    ASSUME ProcessInv, NEW c \in Callers, pc[c] = "discard", NEW w \in {"none", "part"},
           carrier' = [carrier EXCEPT !["payload"] = w], Goto(c, "untrash"),
           UNCHANGED <<journal, log, seen>>
    PROVE  ProcessInv'
<1> DEFINE home == Place(seen[c].state)
<1>1. InTrash("discard", seen[c], journal, carrier) /\ home \in {"hot", "archive"}
  BY Here, HomeElsewhere DEF TrashSteps, InTrash
<1> HIDE DEF home
<1>2. carrier' \in [Places -> {"none", "whole", "part"}] /\ carrier'[home] = "whole"
  BY <1>1 DEF InTrash, home, Places, ProcessInv
<1>3. InTrash("untrash", seen[c], journal, carrier')
  BY <1>1, <1>2 DEF InTrash, Safe, home
<1>4. Somewhere(carrier') /\ Others(c) /\ pc'[c] = "untrash"
  BY <1>1, <1>2 DEF Somewhere, Places, Others, Goto, ProcessInv
<1> QED BY <1>2, <1>3, <1>4, TrashAlone DEF TrashSteps

(* The hot directory is removed, whole or in part: the archive is there. *)
LEMMA HotRemovalFine ==
    ASSUME ProcessInv, NEW c \in Callers, pc[c] = "remove_hot", NEW w \in {"none", "part"},
           carrier' = [carrier EXCEPT !["hot"] = w], Others(c), journal' = journal,
           \/ pc'[c] = "uncleaned"
           \/ pc'[c] = "expect" /\ log'[c].type = "hot_cleanup_completed" /\ Fits(log'[c], seen'[c])
    PROVE  ProcessInv'
<1>1. Cleans(pc[c], log[c]) /\ InCleanup("remove_hot", log[c], journal, carrier)
  BY Here DEF Cleans, CleanupSteps
<1>2. /\ carrier' \in [Places -> {"none", "whole", "part"}] /\ carrier'["archive"] = "whole"
      /\ journal.state = "archived_duplicate" /\ journal.pending = "hot_cleanup_started"
  BY <1>1 DEF InCleanup, Places, ProcessInv
<1>3. Somewhere(carrier') /\ Held(journal, carrier')
  BY <1>2 DEF Somewhere, Held, Places
<1>4. ASSUME NEW d \in Callers \ {c}
      PROVE  /\ ~Trashes(pc[d], log[d]) /\ ~Cleans(pc[d], log[d])
             /\ Fine(pc[d], log[d], seen[d], journal, carrier')
  BY <1>1, <1>2 DEF ProcessInv, Fine, InTrash
<1>5. Fine(pc'[c], log'[c], seen'[c], journal, carrier')
  <2>1. ~Trashes(pc'[c], log'[c]) /\ pc'[c] \notin RestoreSteps
    BY DEF Trashes, TrashSteps, Unwritten, RestoreSteps
  <2>2. InCleanup(pc'[c], log'[c], journal, carrier')
    BY <1>2 DEF InCleanup
  <2> QED BY <2>1, <2>2 DEF Fine, Appending
<1> QED BY <1>2, <1>3, <1>4, <1>5, ProcessStep DEF ProcessInv

LEMMA RemoveHotFine ==
    ASSUME ProcessInv, NEW c \in Callers, RemoveHot(c) PROVE ProcessInv'
<1>1. /\ pc[c] = "remove_hot" /\ Put("hot", "none") /\ UNCHANGED <<journal, seen>>
      /\ Log(c, "hot_cleanup_completed", "archived_duplicate", "archived", "archive", "ok", "fail")
  BY DEF RemoveHot, Step, At, Elsewhere, Local
<1>2. /\ Others(c) /\ pc'[c] = "expect"
      /\ log'[c] = [type |-> "hot_cleanup_completed", from |-> "archived_duplicate",
                    to |-> "archived", keep |-> call[c] = "keep", named |-> "archive",
                    expects |-> 0, then |-> "ok", else |-> "fail"]
  BY <1>1 DEF Log, Others, Goto, ProcessInv
<1>3. Fits(log'[c], seen'[c]) /\ log'[c].type = "hot_cleanup_completed"
  BY <1>2, EventNames DEF Fits
<1> QED BY <1>1, <1>2, <1>3, HotRemovalFine DEF Put

(* A bundle that is built only adds to what there is. *)
LEMMA BuildFine ==
    ASSUME ProcessInv, NEW c \in Callers, Build(c) PROVE ProcessInv'
<1>1. /\ pc[c] = "build" /\ carrier["archive"] = "none" /\ Goto(c, "published")
      /\ carrier' = [carrier EXCEPT !["archive"] = "whole"] /\ UNCHANGED <<journal, log, seen>>
  BY DEF Build, Step, At, Ready, Present, Put, Elsewhere, Local
<1>2. /\ carrier' \in [Places -> {"none", "whole", "part"}] /\ carrier'["archive"] = "whole"
      /\ carrier'["hot"] = carrier["hot"] /\ carrier'["payload"] = carrier["payload"]
  BY <1>1 DEF Places, ProcessInv
<1>3. \A p \in {"hot", "archive"} :
         /\ carrier[p] = "whole" => carrier'[p] = "whole"
         /\ Safe(carrier, p) => Safe(carrier', p)
  BY <1>2 DEF Safe
<1>4. Somewhere(carrier') /\ Held(journal, carrier')
  BY <1>2, <1>3 DEF Somewhere, Held, Places, ProcessInv
<1>5. ASSUME NEW d \in Callers \ {c} PROVE Fine(pc[d], log[d], seen[d], journal, carrier')
  <2>1. Fine(pc[d], log[d], seen[d], journal, carrier)
    BY Here
  <2>2. ASSUME InTrash(pc[d], seen[d], journal, carrier)
        PROVE  InTrash(pc[d], seen[d], journal, carrier')
    BY <1>2, <1>3, <2>2, HomeElsewhere DEF InTrash
  <2>3. ASSUME InCleanup(pc[d], log[d], journal, carrier)
        PROVE  InCleanup(pc[d], log[d], journal, carrier')
    BY <1>2, <2>3 DEF InCleanup
  <2> QED BY <2>1, <2>2, <2>3 DEF Fine
<1>6. "published" \notin RestoreSteps \cup Appending \cup Sections
  BY DEF RestoreSteps, Appending, Sections, TrashSteps, CleanupSteps
<1>7. /\ Fine("published", log'[c], seen'[c], journal, carrier')
      /\ ~Trashes("published", log'[c]) /\ ~Cleans("published", log'[c])
  BY <1>6, Outside
<1>8. Others(c) /\ pc'[c] = "published" /\ journal' = journal
  BY <1>1 DEF Others, Goto, ProcessInv
<1> QED BY <1>2, <1>4, <1>5, <1>7, <1>8, ProcessStep DEF ProcessInv

LEMMA BreakFine ==
    ASSUME ProcessInv, Concurrent, NEW c \in Callers, NEW p \in Places, Break(c, p)
    PROVE  ProcessInv'
<1>1. /\ UNCHANGED <<journal, log, seen>> /\ carrier' = [carrier EXCEPT ![p] = "part"]
      /\ Goto(c, Handler(c)) /\ ~CrossVolume
  BY DEF Break, Fault, Concurrent, local
<1>2. pc[c] \notin RestoreSteps
  BY Here
<1>3. pc[c] # "source"
  BY <1>1, Here DEF TrashSteps, InTrash
<1>4. CASE pc[c] = "remove_hot" /\ p = "hot"
  <2>1. Goto(c, "uncleaned")
    BY <1>1, <1>4 DEF Handler
  <2>2. Others(c) /\ pc'[c] = "uncleaned"
    BY <1>1, <2>1 DEF Others, Goto, ProcessInv
  <2> QED BY <1>1, <1>4, <2>2, HotRemovalFine
<1>5. CASE pc[c] = "discard" /\ p = "payload"
  <2>1. Goto(c, "untrash")
    BY <1>1, <1>5 DEF Handler
  <2> QED BY <1>1, <1>5, <2>1, DiscardFine
<1> QED BY <1>2, <1>3, <1>4, <1>5 DEF Break, At, RestoreSteps

-----------------------------------------------------------------------------
(* What the transition table makes of the events of these operations. *)
LEMMA EventEffects ==
    ASSUME NEW j, NEW e, NEW s, NEW w, Fits(e, s), Applies(j, e, w)
    PROVE  /\ Apply(j, e).state = e.to /\ e.from = j.state
           /\ e.type \in {"hot_discovered", "keep_changed"} => Apply(j, e).pending = j.pending
           /\ e.type \in {"archive_started", "hot_cleanup_started", "trash_started"} =>
                j.pending = "none" /\ Apply(j, e).pending = e.type
           /\ e.type \in {"archive_verified", "archive_failed"} => j.pending = "archive_started"
           /\ e.type \in {"hot_cleanup_completed", "hot_cleanup_failed"} =>
                j.pending = "hot_cleanup_started"
           /\ e.type \in {"trashed", "trash_failed"} => j.pending = "trash_started"
           /\ e.type \in {"archive_verified", "archive_failed", "hot_cleanup_completed",
                          "hot_cleanup_failed", "trashed", "trash_failed"} =>
                Apply(j, e).pending = "none"
           /\ e.type \in {"hot_discovered", "keep_changed", "archive_started", "archive_verified",
                          "archive_failed", "hot_cleanup_started", "hot_cleanup_completed",
                          "hot_cleanup_failed", "trash_started", "trashed", "trash_failed"}
<1>1. e.type \in {"hot_discovered", "keep_changed", "archive_started", "archive_verified",
                  "archive_failed", "hot_cleanup_started", "hot_cleanup_completed",
                  "hot_cleanup_failed", "trash_started", "trashed", "trash_failed"}
  BY EventNames DEF Fits
<1>2. Starts \cap DOMAIN Completes = {}
  BY DEF Starts, Completes
<1>3. /\ e.type \in Starts => j.pending = "none" /\ Apply(j, e).pending = e.type
      /\ e.type \in DOMAIN Completes =>
           j.pending = Completes[e.type] /\ Apply(j, e).pending = "none"
  BY <1>2 DEF Applies, Apply
<1>4. e.type \notin Starts \cup DOMAIN Completes => Apply(j, e).pending = j.pending
  BY DEF Apply
<1>5. Apply(j, e).state = e.to /\ e.from = j.state
  BY DEF Applies, Apply
<1> QED BY <1>1, <1>3, <1>4, <1>5 DEF Starts, Completes

LEMMA EventStates ==
    ASSUME NEW e, NEW j, NEW w, Applies(j, e, w)
    PROVE  /\ e.type = "hot_discovered" => e.from = "none" /\ e.to = "hot"
           /\ e.type = "archive_started" => e.from = "hot" /\ e.to = "archiving"
           /\ e.type = "archive_verified" => e.from = "archiving" /\ e.to = "archived_duplicate"
           /\ e.type = "archive_failed" => e.from = "archiving" /\ e.to = "hot"
           /\ e.type \in {"hot_cleanup_started", "hot_cleanup_failed"} =>
                e.from = "archived_duplicate" /\ e.to = "archived_duplicate"
           /\ e.type = "hot_cleanup_completed" =>
                e.from = "archived_duplicate" /\ e.to = "archived"
           /\ e.type = "trashed" => e.from \in Placed /\ e.to = "trash"
BY DEF Applies, Transitions

(* An event that enters the journal leaves all that the others rely on.     *)
LEMMA WriteFine ==
    ASSUME ProcessInv, NEW c \in Callers, Write(c), UNCHANGED <<carrier, seen>>
    PROVE  ProcessInv'
<1> DEFINE e == log[c]
           s == seen[c]
           jn == Apply(journal, e)
<1>1. /\ pc[c] = "write" /\ pc'[c] = "release" /\ log' = log /\ journal' = jn
      /\ Applies(journal, e, operation[c]) /\ Others(c)
  BY DEF Write, At, Agreed, Goto, Others, ProcessInv
<1>2. Fits(e, s) /\ Fine("write", e, s, journal, carrier)
  BY <1>1, Here DEF Appending
<1>3. Held(journal, carrier) /\ (journal.pending = "hot_cleanup_started" => journal.state = "archived_duplicate")
  BY DEF ProcessInv
<1> HIDE DEF e, s, jn
<1>4. /\ jn.state = e.to /\ e.from = journal.state
      /\ e.type \in {"hot_discovered", "keep_changed"} => jn.pending = journal.pending
      /\ e.type \in {"archive_started", "hot_cleanup_started", "trash_started"} =>
           journal.pending = "none" /\ jn.pending = e.type
      /\ e.type \in {"archive_verified", "archive_failed"} => journal.pending = "archive_started"
      /\ e.type \in {"hot_cleanup_completed", "hot_cleanup_failed"} =>
           journal.pending = "hot_cleanup_started"
      /\ e.type \in {"trashed", "trash_failed"} => journal.pending = "trash_started"
      /\ e.type \in {"archive_verified", "archive_failed", "hot_cleanup_completed",
                     "hot_cleanup_failed", "trashed", "trash_failed"} => jn.pending = "none"
      /\ e.type \in {"hot_discovered", "keep_changed", "archive_started", "archive_verified",
                     "archive_failed", "hot_cleanup_started", "hot_cleanup_completed",
                     "hot_cleanup_failed", "trash_started", "trashed", "trash_failed"}
  BY <1>1, <1>2, EventEffects DEF jn
<1>5. /\ e.type = "hot_discovered" => e.from = "none" /\ e.to = "hot"
      /\ e.type = "archive_started" => e.from = "hot" /\ e.to = "archiving"
      /\ e.type = "archive_verified" => e.from = "archiving" /\ e.to = "archived_duplicate"
      /\ e.type = "archive_failed" => e.from = "archiving" /\ e.to = "hot"
      /\ e.type \in {"hot_cleanup_started", "hot_cleanup_failed"} =>
           e.from = "archived_duplicate" /\ e.to = "archived_duplicate"
      /\ e.type = "hot_cleanup_completed" => e.from = "archived_duplicate" /\ e.to = "archived"
      /\ e.type = "trashed" => e.from \in Placed /\ e.to = "trash"
      /\ e.type = "keep_changed" => e.from = e.to
      /\ e.type \in {"trash_started", "trash_failed"} =>
           e.from = s.state /\ e.to = s.state /\ s.state \in Away
  BY <1>1, <1>2, EventStates DEF Fits
<1>6. /\ e.type = "trash_failed" => Trashes("write", e) /\ InTrash("write", s, journal, carrier)
      /\ e.type \in {"hot_cleanup_completed", "hot_cleanup_failed"} => Cleans("write", e)
      /\ e.type = "hot_cleanup_completed" => carrier["archive"] = "whole"
  BY <1>2 DEF Fine, Trashes, Cleans, InCleanup, Unwritten
<1>7. s.state \in Away => Place(s.state) = IF s.state = "hot" THEN "hot" ELSE "archive"
  BY DEF Place, Away
<1>8. Held(jn, carrier)
  <2>1. CASE e.type = "trash_failed"
    BY <1>4, <1>5, <1>6, <1>7, <2>1 DEF Held, InTrash, Away
  <2>2. CASE e.type = "hot_cleanup_completed"
    BY <1>4, <1>5, <1>6, <2>2 DEF Held, Safe
  <2>3. CASE e.type \in {"trash_started", "trashed"}
    BY <1>4, <1>5, <2>3 DEF Held
  <2>4. CASE e.type \notin {"trash_failed", "hot_cleanup_completed", "trash_started", "trashed"}
    BY <1>3, <1>4, <1>5, <2>4 DEF Held
  <2> QED BY <2>1, <2>2, <2>3, <2>4
<1>9. jn.pending = "hot_cleanup_started" => jn.state = "archived_duplicate"
  BY <1>3, <1>4, <1>5
<1>10. /\ Trashes("release", e) <=> e.type = "trash_started"
       /\ Cleans("release", e) <=> e.type = "hot_cleanup_started"
  BY DEF Trashes, Cleans, TrashSteps, CleanupSteps, Unwritten
<1>11. Fine("release", e, s, jn, carrier)
  <2>1. e.type = "trash_started" => InTrash("release", s, jn, carrier)
    BY <1>3, <1>4, <1>5, <1>7 DEF InTrash, Held, Away
  <2>2. e.type = "hot_cleanup_started" => InCleanup("release", e, jn, carrier)
    BY <1>4 DEF InCleanup, Unwritten
  <2> QED BY <1>2, <1>10, <2>1, <2>2 DEF Fine, RestoreSteps
<1>12. ASSUME NEW d \in Callers \ {c}
       PROVE  /\ Fine(pc[d], log[d], seen[d], jn, carrier)
              /\ ~(Trashes("release", e) /\ Trashes(pc[d], log[d]))
              /\ ~(Cleans("release", e) /\ Cleans(pc[d], log[d]))
  <2>1. Fine(pc[d], log[d], seen[d], journal, carrier)
    BY Here
  <2>2. /\ Trashes(pc[d], log[d]) => e.type # "trash_failed"
        /\ Cleans(pc[d], log[d]) => e.type \notin {"hot_cleanup_completed", "hot_cleanup_failed"}
    BY <1>1, <1>6 DEF ProcessInv, e
  <2>3. ASSUME Trashes(pc[d], log[d])
        PROVE  InTrash(pc[d], seen[d], jn, carrier) /\ e.type # "trash_started"
    <3>1. InTrash(pc[d], seen[d], journal, carrier)
      BY <2>1, <2>3 DEF Fine
    <3>2. (jn.pending = "trash_started" \/ jn.state = "trash") /\ e.type # "trash_started"
      BY <1>4, <1>5, <2>2, <2>3, <3>1 DEF InTrash, Away
    <3> QED BY <3>1, <3>2 DEF InTrash
  <2>4. ASSUME Cleans(pc[d], log[d])
        PROVE  InCleanup(pc[d], log[d], jn, carrier) /\ e.type # "hot_cleanup_started"
    <3>1. InCleanup(pc[d], log[d], journal, carrier)
      BY <2>1, <2>4 DEF Fine
    <3>2. jn.pending = "hot_cleanup_started" /\ e.type # "hot_cleanup_started"
      BY <1>4, <2>2, <2>4, <3>1 DEF InCleanup
    <3> QED BY <3>1, <3>2 DEF InCleanup
  <2> QED BY <1>10, <2>1, <2>3, <2>4 DEF Fine
<1>13. Fine(pc'[c], log'[c], seen'[c], journal', carrier')
  BY <1>1, <1>11 DEF e, s
<1> QED BY <1>1, <1>8, <1>9, <1>12, <1>13, ProcessStep DEF ProcessInv, e

LEMMA ProcessNext ==
    ASSUME ProcessInv, Concurrent, [Next]_vars PROVE ProcessInv'
<1>1. ASSUME NEW c \in Callers, Operate(c) PROVE ProcessInv'
  <2>1. CASE Discover(c) \/ Discovered(c) \/ Archive(c) \/ Bundle(c) \/ Existing(c)
             \/ BundlePublished(c) \/ Cleanup(c)
    BY <2>1, ArchiveSteps
  <2>2. CASE Trash(c) \/ Trashing(c) \/ Note(c) \/ ResumeTrash(c) \/ Keep(c) \/ Keeping(c)
    BY <2>2, TrashAndKeepSteps
  <2>3. CASE Return(c) \/ Expect(c) \/ Check(c) \/ Fail(c)
    BY <2>3, BetweenCalls, ExpectFine, ChecksFine, FailsFine
  <2>4. CASE Build(c) \/ RemoveHot(c) \/ Move(c) \/ Source(c) \/ Rollback(c)
    BY <2>4, BuildFine, RemoveHotFine, MoveFine, SourceFine, RollbackFine
  <2>5. CASE Discard(c)
    BY <2>5, DiscardFine DEF Discard, At, RemoveTrash, Elsewhere, Local
  <2>6. CASE RestoreHot(c) \/ Extract(c) \/ Drop(c) \/ RestoreFailed(c) \/ Resume(c) \/ Retract(c)
             \/ RestoreTrash(c) \/ Leave(c) \/ Arrive(c) \/ Tidy(c) \/ Undo(c)
    BY <2>6, Here DEF RestoreHot, Extract, Drop, RestoreFailed, Resume, Retract, RestoreTrash,
                      Leave, Arrive, Tidy, Undo, Step, At, RestoreSteps
  <2> QED BY <1>1, <2>1, <2>2, <2>3, <2>4, <2>5, <2>6 DEF Operate
<1>2. ASSUME NEW c \in Callers, Record(c) PROVE ProcessInv'
  BY <1>2, QuietRecords, WriteFine DEF Record, AppendEvent, files
<1>3. ASSUME NEW c \in Callers,
             \/ \E o \in Operations : Call(c, o)
             \/ Raise(c) \/ (\E p \in Places : Break(c, p)) \/ Crash(c)
      PROVE  ProcessInv'
  BY <1>3, BetweenCalls, RaisesFine, BreakFine
<1>4. CASE UNCHANGED vars
  BY <1>4 DEF vars, local, files, ProcessInv
<1> QED BY <1>1, <1>2, <1>3, <1>4 DEF Next

(* Processes that archive, trash, keep and unkeep one run at once never     *)
(* destroy the last complete copy of its evidence, although the lock of the *)
(* run is held for each event only, and whatever fails and is killed.       *)
THEOREM EvidenceUnderProcesses == ASSUME Concurrent PROVE Spec => []Evidence
<1>1. ProcessInv => Evidence
  BY DEF ProcessInv, Somewhere, Evidence, Whole
<1>2. ProcessInv /\ [Next]_vars => ProcessInv'
  BY ProcessNext
<1> QED BY <1>1, <1>2, ProcessInit, PTL DEF Spec

=============================================================================
