-------------------------- MODULE ClipboardProofs --------------------------
(* Theorems about Clipboard, for every configuration of the channel, every    *)
(* size of the files and every number of transfers.                           *)
EXTENDS Clipboard, TLAPS, SequenceTheorems, WellFoundedInduction

----------------------------------------------------------------------------
(* The fields of the records: an assignment to one leaves the others.         *)
IsRange(d) == d \in
    [sid : {d.sid}, file : {d.file}, vid : {d.vid}, own : {d.own},
     verdict : {d.verdict}, off : {d.off}, first : {d.first}, req : {d.req},
     size : {d.size}, tfl : {d.tfl}, sig : {d.sig}]

(* A transfer of locked_data. *)
IsLocked(r) == r \in [lock : {r.lock}, st : {r.st}, d : {r.d}] /\ IsRange(r.d)

IsContext(x) ==
    /\ x \in
         [st : {x.st}, clen : {x.clen}, cpos : {x.cpos}, resp : {x.resp},
          owed : {x.owed}, cut : {x.cut}, fmt : {x.fmt}, flist : {x.flist},
          files : {x.files}, lock : {x.lock}, lid : {x.lid}, slot : {x.slot},
          locks : {x.locks}, sizes : {x.sizes}, ranges : {x.ranges},
          asked : {x.asked}]
    /\ \A r \in x.ranges : IsLocked(r)

IsService(v) == v \in
    [svc : {v.svc}, res : {v.res}, tfl : {v.tfl}, files : {v.files},
     texts : {v.texts}]

IsSeen(s) == s \in
    [assertion : {s.assertion}, file : {s.file}, text : {s.text},
     keep : {s.keep}]

IsWork(w) ==
    /\ w \in [c : {w.c}, x : {w.x}, d : {w.d}, v : {w.v}, s : {w.s},
              thrown : {w.thrown}]
    /\ IsContext(w.x) /\ IsRange(w.d) /\ IsService(w.v) /\ IsSeen(w.s)

(* What no helper changes, but the ones that pass data on. *)
Spares(w, u) ==
    /\ IsWork(u)
    /\ u.c = w.c /\ u.s.file = w.s.file /\ u.v.res = w.v.res

(* A helper that leaves the transfer in its state, with its number. *)
Keeps(w, u) ==
    /\ Spares(w, u)
    /\ u.x.st = w.x.st /\ u.d.own = w.d.own /\ u.d.verdict = w.d.verdict
    /\ u.d.vid \in {w.d.vid, 0}

LEMMA KeepsItself ==
  ASSUME NEW w, IsWork(w)
  PROVE  Keeps(w, w)
BY DEF Keeps, Spares

LEMMA KeepsInTurn ==
  ASSUME NEW w, NEW u, NEW t, Keeps(w, u), Keeps(u, t)
  PROVE  Keeps(w, t)
BY DEF Keeps, Spares

LEMMA AssertedKeeps ==
  ASSUME NEW w, IsWork(w), NEW p
  PROVE  Keeps(w, Asserted(w, p)) /\ Asserted(w, p).d = w.d
         /\ Asserted(w, p).v = w.v /\ Asserted(w, p).x = w.x
         /\ Asserted(w, p).thrown = w.thrown
<1> DEFINE s == [w.s EXCEPT !.assertion = @ \/ ~p]
<1>1. IsSeen(s) /\ s.file = w.s.file
  BY DEF IsWork, IsSeen
<1>2. Asserted(w, p) = [w EXCEPT !.s = s]
  BY DEF Asserted
<1> HIDE DEF s
<1> QED BY <1>1, <1>2 DEF Keeps, Spares, IsWork

LEMMA ThrowKeeps ==
  ASSUME NEW w, IsWork(w)
  PROVE  Keeps(w, Throw(w))
BY DEF Throw, Keeps, Spares, IsWork

LEMMA SetStateEffect ==
  ASSUME NEW w, IsWork(w), NEW from, NEW to
  PROVE  LET u == SetState(w, from, to)
         IN  Spares(w, u) /\ u.x.st = to /\ u.d = w.d
<1> DEFINE a == Asserted(w, w.x.st \in from)
           x == [a.x EXCEPT !.st = to]
<1>1. Keeps(w, a) /\ a.d = w.d
  BY AssertedKeeps
<1>2. SetState(w, from, to) = [a EXCEPT !.x = x]
  BY DEF SetState
<1> HIDE DEF a
<1>3. IsContext(x) /\ x.st = to
  BY <1>1 DEF Keeps, Spares, IsWork, IsContext
<1> HIDE DEF x
<1> QED BY <1>1, <1>2, <1>3 DEF Keeps, Spares, IsWork

LEMMA SigEffect ==
  ASSUME NEW w, IsWork(w)
  PROVE  Keeps(w, SigBroken(w)) /\ Keeps(w, SigFinal(w))
         /\ SigBroken(w).d.vid = w.d.vid /\ SigFinal(w).d.vid = w.d.vid
<1>1. ASSUME NEW g
      PROVE  LET a == Asserted(w, w.d.sig = "Update")
                 u == [a EXCEPT !.d.sig = g]
             IN  Keeps(w, u) /\ u.d.vid = w.d.vid
  <2> DEFINE a == Asserted(w, w.d.sig = "Update")
             d == [a.d EXCEPT !.sig = g]
  <2>1. Keeps(w, a) /\ a.d = w.d
    BY AssertedKeeps
  <2> HIDE DEF a
  <2>2. /\ IsRange(d) /\ d.own = w.d.own /\ d.verdict = w.d.verdict
        /\ d.vid = w.d.vid
    BY <2>1 DEF IsWork, IsRange
  <2>3. [a EXCEPT !.d.sig = g] = [a EXCEPT !.d = d]
    OBVIOUS
  <2> HIDE DEF d
  <2>4. LET u == [a EXCEPT !.d = d] IN Keeps(w, u) /\ u.d.vid = w.d.vid
    BY <2>1, <2>2 DEF Keeps, Spares, IsWork
  <2> QED BY <2>3, <2>4 DEF a
<1> QED BY <1>1 DEF SigBroken, SigFinal

LEMMA InitEmptyEffect ==
  ASSUME NEW w, IsWork(w)
  PROVE  Spares(w, InitEmpty(w)) /\ InitEmpty(w).x.st = "Empty"
<1> DEFINE a == Asserted(w, w.d.tfl = 0)
           x == [a.x EXCEPT !.st = "Empty", !.clen = 0, !.cpos = 0, !.resp = 0]
           d == [NoRange EXCEPT !.tfl = w.d.tfl,
                   !.own = IF VerifiesText(w.c) THEN w.d.own ELSE 0,
                   !.size = IF w.x.owed THEN w.d.size ELSE 0]
<1>1. Keeps(w, a)
  BY AssertedKeeps
<1>2. InitEmpty(w) = [a EXCEPT !.x = x, !.d = d]
  BY DEF InitEmpty
<1> HIDE DEF a
<1>3. IsContext(x) /\ x.st = "Empty"
  BY <1>1 DEF Keeps, Spares, IsWork, IsContext
<1>4. IsRange(d)
  BY DEF NoRange, IsRange
<1> HIDE DEF x, d
<1> QED BY <1>1, <1>2, <1>3, <1>4 DEF Keeps, Spares, IsWork

(* The service and the identifier of the transfer change. *)
LEMMA ServiceKeeps ==
  ASSUME NEW w, IsWork(w), NEW v, IsService(v), v.res = w.v.res,
         NEW d, IsRange(d), d.own = w.d.own, d.verdict = w.d.verdict,
         d.vid \in {w.d.vid, 0}
  PROVE  LET u == [w EXCEPT !.v = v, !.d = d]
         IN  Keeps(w, u) /\ u.v = v /\ u.d = d
BY DEF Keeps, Spares, IsWork

LEMMA SendEofKeeps ==
  ASSUME NEW w, IsWork(w)
  PROVE  Keeps(w, SendEof(w)) /\ SendEof(w).d = w.d
<1> DEFINE a == Asserted(w, w.v.svc[w.d.vid] = "open")
           v == [a.v EXCEPT !.svc[w.d.vid] = "eof"]
<1>1. Keeps(w, a) /\ a.d = w.d /\ a.v = w.v
  BY AssertedKeeps
<1>2. SendEof(w) = [a EXCEPT !.v = v]
  BY DEF SendEof
<1> HIDE DEF a
<1>3. IsService(v) /\ v.res = w.v.res
  BY <1>1 DEF IsWork, IsService
<1> HIDE DEF v
<1> QED BY <1>1, <1>2, <1>3 DEF Keeps, Spares, IsWork

LEMMA SendAbortKeeps ==
  ASSUME NEW w, IsWork(w)
  PROVE  Keeps(w, SendAbort(w))
<1> DEFINE a == Asserted(w, w.v.svc[w.d.vid] \in {"open", "eof"})
           v == [a.v EXCEPT !.svc[w.d.vid] = "abort"]
           d == [a.d EXCEPT !.vid = 0]
<1>1. Keeps(w, a) /\ a.d = w.d /\ a.v = w.v
  BY AssertedKeeps
<1>2. SendAbort(w) = [a EXCEPT !.v = v, !.d = d]
  BY DEF SendAbort
<1> HIDE DEF a
<1>3. IsService(v) /\ v.res = w.v.res
  BY <1>1 DEF IsWork, IsService
<1>4. /\ IsRange(d) /\ d.own = w.d.own /\ d.verdict = w.d.verdict
      /\ d.vid = 0
  BY <1>1 DEF IsWork, IsRange
<1> HIDE DEF v, d
<1> QED BY <1>1, <1>2, <1>3, <1>4 DEF Keeps, Spares, IsWork

LEMMA CloseTflKeeps ==
  ASSUME NEW w, IsWork(w)
  PROVE  Keeps(w, close_file_rng_tfl(w))
<1> DEFINE a == Asserted(w, KeepTfl(w) => HasDigest(w.d))
           v == [a.v EXCEPT !.tfl[w.d.tfl] =
                   IF KeepTfl(w) THEN "stored" ELSE "cancelled"]
           d == [a.d EXCEPT !.tfl = 0]
<1>1. Keeps(w, a) /\ a.d = w.d /\ a.v = w.v
  BY AssertedKeeps
<1>2. close_file_rng_tfl(w) =
        IF w.d.tfl = 0 THEN w ELSE [a EXCEPT !.v = v, !.d = d]
  BY DEF close_file_rng_tfl
<1> HIDE DEF a
<1>3. IsService(v) /\ v.res = w.v.res
  BY <1>1 DEF IsWork, IsService
<1>4. /\ IsRange(d) /\ d.own = w.d.own /\ d.verdict = w.d.verdict
      /\ d.vid = w.d.vid
  BY <1>1 DEF IsWork, IsRange
<1> HIDE DEF v, d
<1>5. Keeps(w, [a EXCEPT !.v = v, !.d = d])
  BY <1>1, <1>3, <1>4 DEF Keeps, Spares, IsWork
<1> QED BY <1>2, <1>5, KeepsItself

LEMMA PushValidatorKeeps ==
  ASSUME NEW w, IsWork(w), NEW tfl
  PROVE  Keeps(w, PushValidator(w, tfl))
<1> DEFINE e == Asserted(SendEof(w), HasDigest(w.d))
           v == [e.v EXCEPT !.files = @ \cup {[id |-> w.d.vid, tfl |-> tfl]}]
           d == [e.d EXCEPT !.vid = 0, !.tfl = IF tfl = @ THEN 0 ELSE @]
<1>1. Keeps(w, e) /\ e.d = w.d
  <2>1. Keeps(w, SendEof(w)) /\ SendEof(w).d = w.d
    BY SendEofKeeps
  <2>2. IsWork(SendEof(w))
    BY <2>1 DEF Keeps, Spares
  <2>3. Keeps(SendEof(w), e) /\ e.d = SendEof(w).d
    BY <2>2, AssertedKeeps
  <2> HIDE DEF e
  <2> QED BY <2>1, <2>3, KeepsInTurn
<1>2. PushValidator(w, tfl) = [e EXCEPT !.v = v, !.d = d]
  BY DEF PushValidator
<1> HIDE DEF e
<1>3. IsService(v) /\ v.res = w.v.res
  BY <1>1 DEF Keeps, Spares, IsWork, IsService
<1>4. /\ IsRange(d) /\ d.own = w.d.own /\ d.verdict = w.d.verdict
      /\ d.vid = 0
  BY <1>1 DEF IsWork, IsRange
<1> HIDE DEF v, d
<1> QED BY <1>1, <1>2, <1>3, <1>4 DEF Keeps, Spares, IsWork

----------------------------------------------------------------------------
(* The ends of a transfer. *)
LEMMA CloseRangeKeeps ==
  ASSUME NEW w, IsWork(w)
  PROVE  Keeps(w, close_file_rng(w))
BY CloseTflKeeps, PushValidatorKeeps DEF close_file_rng

LEMMA BrokenKeeps ==
  ASSUME NEW w, IsWork(w)
  PROVE  Keeps(w, broken_file_transfer(w))
<1> DEFINE b == close_file_rng_tfl(SigBroken(w))
<1>1. Keeps(w, SigBroken(w)) /\ IsWork(SigBroken(w))
  BY SigEffect DEF Keeps, Spares
<1>2. Keeps(SigBroken(w), b) /\ IsWork(b)
  BY <1>1, CloseTflKeeps DEF Keeps, Spares
<1>3. broken_file_transfer(w) = IF b.d.vid # 0 THEN PushValidator(b, 0) ELSE b
  BY DEF broken_file_transfer
<1> HIDE DEF b
<1>4. Keeps(w, b) /\ Keeps(b, PushValidator(b, 0))
  BY <1>1, <1>2, KeepsInTurn, PushValidatorKeeps
<1> QED BY <1>3, <1>4, KeepsInTurn

LEMMA LogKeeps ==
  ASSUME NEW w, IsWork(w)
  PROVE  Keeps(w, log_file_info(w))
BY SigEffect, KeepsItself DEF log_file_info

LEMMA StopValidationKeeps ==
  ASSUME NEW w, IsWork(w)
  PROVE  Keeps(w, stop_validation_before_transfer(w))
<1> DEFINE l == log_file_info(w)
           a == IF l.d.vid # 0 THEN SendAbort(l) ELSE l
<1>1. Keeps(w, l) /\ IsWork(l)
  BY LogKeeps DEF Keeps, Spares
<1>2. stop_validation_before_transfer(w) = close_file_rng_tfl(a)
  BY DEF stop_validation_before_transfer
<1> HIDE DEF l
<1>3. Keeps(l, a) /\ IsWork(a)
  BY <1>1, SendAbortKeeps, KeepsItself DEF Keeps, Spares
<1> HIDE DEF a
<1>4. Keeps(a, close_file_rng_tfl(a))
  BY <1>3, CloseTflKeeps
<1> QED BY <1>1, <1>2, <1>3, <1>4, KeepsInTurn

LEMMA StopValidKeeps ==
  ASSUME NEW w, IsWork(w)
  PROVE  Keeps(w, stop_valid_transfer(w))
<1> DEFINE a == Asserted(w, w.d.vid = 0)
           b == IF HasDigest(a.d) THEN a ELSE SigBroken(a)
<1>1. Keeps(w, a) /\ IsWork(a)
  BY AssertedKeeps DEF Keeps, Spares
<1>2. stop_valid_transfer(w) = close_file_rng_tfl(b)
  BY DEF stop_valid_transfer
<1> HIDE DEF a
<1>3. Keeps(a, b) /\ IsWork(b)
  BY <1>1, SigEffect, KeepsItself DEF Keeps, Spares
<1> HIDE DEF b
<1>4. Keeps(b, close_file_rng_tfl(b))
  BY <1>3, CloseTflKeeps
<1> QED BY <1>1, <1>2, <1>3, <1>4, KeepsInTurn

LEMMA StopWaitKeeps ==
  ASSUME NEW w, IsWork(w)
  PROVE  Keeps(w, stop_wait_validation(w))
<1> DEFINE a == Asserted(w, w.d.vid # 0)
           b == SendAbort(a)
<1>1. Keeps(w, a) /\ IsWork(a)
  BY AssertedKeeps DEF Keeps, Spares
<1>2. stop_wait_validation(w) = stop_valid_transfer(b)
  BY DEF stop_wait_validation
<1> HIDE DEF a
<1>3. Keeps(a, b) /\ IsWork(b)
  BY <1>1, SendAbortKeeps DEF Keeps, Spares
<1> HIDE DEF b
<1>4. Keeps(b, stop_valid_transfer(b))
  BY <1>3, StopValidKeeps
<1> QED BY <1>1, <1>2, <1>3, <1>4, KeepsInTurn

LEMMA FinalizeTextKeeps ==
  ASSUME NEW w, IsWork(w)
  PROVE  Keeps(w, finalize_text_transfer(w))
<1> DEFINE e == SendEof(w)
           v == [e.v EXCEPT !.texts = @ \cup {w.d.vid}]
<1>1. Keeps(w, e)
  BY SendEofKeeps
<1>2. finalize_text_transfer(w) =
        IF w.d.vid = 0 THEN w ELSE [e EXCEPT !.v = v]
  BY DEF finalize_text_transfer
<1> HIDE DEF e
<1>3. IsService(v) /\ v.res = w.v.res
  BY <1>1 DEF Keeps, Spares, IsWork, IsService
<1> HIDE DEF v
<1>4. Keeps(w, [e EXCEPT !.v = v])
  BY <1>1, <1>3 DEF Keeps, Spares, IsWork
<1> QED BY <1>2, <1>4, KeepsItself

(* A helper that only writes fields of the context but its state. *)
LEMMA ContextKeeps ==
  ASSUME NEW w, IsWork(w), NEW x, IsContext(x), x.st = w.x.st
  PROVE  LET u == [w EXCEPT !.x = x]
         IN  Keeps(w, u) /\ u.x = x /\ u.d = w.d
BY DEF Keeps, Spares, IsWork

LEMMA ZeroDataKeeps ==
  ASSUME NEW w, IsWork(w)
  PROVE  Keeps(w, ZeroData(w)) /\ ZeroData(w).d = w.d
<1> DEFINE x == [w.x EXCEPT !.owed = FALSE, !.cut = FALSE]
<1>1. IsContext(x) /\ x.st = w.x.st
  BY DEF IsWork, IsContext
<1>2. ZeroData(w) = [w EXCEPT !.x = x]
  BY DEF ZeroData
<1> HIDE DEF x
<1> QED BY <1>1, <1>2, ContextKeeps

LEMMA AskedKeeps ==
  ASSUME NEW w, IsWork(w), NEW sid, NEW range, NEW len
  PROVE  Keeps(w, Asked(w, sid, range, len))
<1> DEFINE x == [w.x EXCEPT !.asked =
                   @ \cup {[sid |-> sid, range |-> range, len |-> len]}]
<1>1. IsContext(x) /\ x.st = w.x.st
  BY DEF IsWork, IsContext
<1>2. Asked(w, sid, range, len) = [w EXCEPT !.x = x]
  BY DEF Asked
<1> HIDE DEF x
<1> QED BY <1>1, <1>2, ContextKeeps

LEMMA HeaderKeeps ==
  ASSUME NEW w, IsWork(w), NEW len
  PROVE  Keeps(w, Header(w, len))
<1> DEFINE x == [w.x EXCEPT !.resp = len, !.owed = TRUE]
<1>1. IsContext(x) /\ x.st = w.x.st
  BY DEF IsWork, IsContext
<1>2. Header(w, len) = [w EXCEPT !.x = x]
  BY DEF Header
<1> HIDE DEF x
<1> QED BY <1>1, <1>2, ContextKeeps

LEMMA BreakRangesKeeps ==
  ASSUME NEW w, IsWork(w), NEW rs
  PROVE  Keeps(w, BreakRanges(w, rs)) /\ BreakRanges(w, rs).d = w.d
<1> DEFINE Broken(r) == broken_file_transfer([w EXCEPT !.d = r.d])
           Service(n) == {r \in rs : r.d.vid = n}
           Records(n) == {r \in rs : r.d.tfl = n}
           s == [w.s EXCEPT !.assertion =
                   @ \/ \E r \in rs : Broken(r).s.assertion]
           v == [w.v EXCEPT
                  !.svc = [n \in Ids |-> IF Service(n) = {} THEN @[n]
                             ELSE Broken(CHOOSE r \in Service(n) : TRUE).v.svc[n]],
                  !.tfl = [n \in Ids |-> IF Records(n) = {} THEN @[n]
                             ELSE Broken(CHOOSE r \in Records(n) : TRUE).v.tfl[n]],
                  !.files = @ \cup UNION {Broken(r).v.files : r \in rs}]
           x == [w.x EXCEPT !.ranges = @ \ rs]
<1>1. BreakRanges(w, rs) = [w EXCEPT !.s = s, !.v = v, !.x = x]
  BY ZenonT(60) DEF BreakRanges
<1> HIDE DEF Broken, Service, Records
<1>2. IsSeen(s) /\ s.file = w.s.file
  BY DEF IsWork, IsSeen
<1>3. IsService(v) /\ v.res = w.v.res
  BY DEF IsWork, IsService
<1>4. IsContext(x) /\ x.st = w.x.st
  BY DEF IsWork, IsContext
<1> HIDE DEF s, v, x
<1> QED BY ZenonT(60), <1>1, <1>2, <1>3, <1>4 DEF Keeps, Spares, IsWork

----------------------------------------------------------------------------
(* The states whose data goes on to the other side, and those whose data      *)
(* waits for its verdict.                                                     *)
Passing == {"Range", "SyncRange", "RequestedSyncRange",
            "WaitingContinuationRange"}
Waiting == {"GetRange", "WaitingFileValidator"}

Accepted(d, v) == d.own \in Ids /\ v.res[d.own] = "accept"

(* With verification before the transfer, a transfer that passes its data on
   is accepted, and so is one that will at the end of the response; one that
   waits only has its own identifier to wait on. *)
FileSafe(c, st, d, v) ==
    Verifies(c) =>
      /\ st \in Passing => Accepted(d, v)
      /\ st = "GetRange" /\ d.verdict = "Success" => Accepted(d, v)
      /\ st \in Waiting => d.vid \in {0, d.own}

(* A handler of context c, with the answers of the service that it knows. *)
Safe(c, res, w) ==
    /\ IsWork(w) /\ w.c = c /\ w.v.res = res
    /\ w.s.file = FALSE
    /\ FileSafe(c, w.x.st, w.d, w.v)

LEMMA SafeIsWork ==
  ASSUME NEW c, NEW res, NEW w, Safe(c, res, w)
  PROVE  IsWork(w)
BY DEF Safe

LEMMA KeepsSafe ==
  ASSUME NEW c, NEW res, NEW w, NEW u, Safe(c, res, w), Keeps(w, u)
  PROVE  Safe(c, res, u)
BY DEF Safe, Keeps, Spares, FileSafe, Accepted, Passing, Waiting

LEMMA IdleSafe ==
  ASSUME NEW c, NEW res, NEW w, NEW u, Safe(c, res, w), Spares(w, u),
         u.x.st \notin Passing \cup Waiting
  PROVE  Safe(c, res, u)
BY DEF Safe, Spares, FileSafe, Passing, Waiting

LEMMA InitEmptySafe ==
  ASSUME NEW c, NEW res, NEW w, Safe(c, res, w)
  PROVE  Safe(c, res, InitEmpty(w)) /\ InitEmpty(w).x.st = "Empty"
<1>1. IsWork(w)
  BY DEF Safe
<1>2. Spares(w, InitEmpty(w)) /\ InitEmpty(w).x.st = "Empty"
  BY <1>1, InitEmptyEffect
<1>3. InitEmpty(w).x.st \notin Passing \cup Waiting
  BY <1>2 DEF Passing, Waiting
<1> QED BY <1>2, <1>3, IdleSafe

LEMMA EmptiedSafe ==
  ASSUME NEW c, NEW res, NEW w, NEW u, Safe(c, res, w), Keeps(w, u)
  PROVE  Safe(c, res, InitEmpty(u)) /\ InitEmpty(u).x.st = "Empty"
BY KeepsSafe, InitEmptySafe

LEMMA StopNolockSafe ==
  ASSUME NEW c, NEW res, NEW w, Safe(c, res, w)
  PROVE  Safe(c, res, stop_nolock_data(w)) /\ stop_nolock_data(w).x.st = "Empty"
<1> DEFINE u ==
      CASE w.x.st \in {"WaitingContinuationRange", "Range"} ->
             broken_file_transfer(w)
        [] w.x.st = "GetRange" ->
             stop_validation_before_transfer(ZeroData(w))
        [] w.x.st = "WaitingFileValidator" ->
             stop_wait_validation(ZeroData(w))
        [] w.x.st \in {"RequestedSyncRange", "SyncRange"} ->
             stop_valid_transfer(w)
        [] w.x.st = "Text" -> finalize_text_transfer(w)
        [] w.x.st \in {"WaitingTextValidator", "TextAccumulate"} ->
             SendAbort(w)
        [] OTHER -> w
<1>1. IsWork(w)
  BY DEF Safe
<1>2. Keeps(w, ZeroData(w)) /\ IsWork(ZeroData(w))
  BY <1>1, ZeroDataKeeps DEF Keeps, Spares
<1>3. /\ Keeps(w, stop_validation_before_transfer(ZeroData(w)))
      /\ Keeps(w, stop_wait_validation(ZeroData(w)))
  BY <1>2, StopValidationKeeps, StopWaitKeeps, KeepsInTurn
<1>4. /\ Keeps(w, broken_file_transfer(w)) /\ Keeps(w, stop_valid_transfer(w))
      /\ Keeps(w, finalize_text_transfer(w)) /\ Keeps(w, SendAbort(w))
      /\ Keeps(w, w)
  BY <1>1, BrokenKeeps, StopValidKeeps, FinalizeTextKeeps, SendAbortKeeps,
     KeepsItself
<1>5. Keeps(w, u)
  BY <1>3, <1>4
<1>6. stop_nolock_data(w) = InitEmpty(u)
  BY DEF stop_nolock_data
<1> HIDE DEF u
<1> QED BY <1>5, <1>6, EmptiedSafe

LEMMA ResetNolockSafe ==
  ASSUME NEW c, NEW res, NEW w, Safe(c, res, w)
  PROVE  Safe(c, res, reset_nolock_data(w))
<1>1. IsWork(w)
  BY DEF Safe
<1>2. /\ Keeps(w, stop_wait_validation(w)) /\ Keeps(w, stop_valid_transfer(w))
      /\ Keeps(w, broken_file_transfer(w)) /\ Keeps(w, SendAbort(w))
      /\ Keeps(w, w) /\ Keeps(w, Throw(w))
  BY <1>1, StopWaitKeeps, StopValidKeeps, BrokenKeeps, SendAbortKeeps,
     KeepsItself, ThrowKeeps
<1>3. /\ Safe(c, res, InitEmpty(stop_wait_validation(w)))
      /\ Safe(c, res, InitEmpty(stop_valid_transfer(w)))
      /\ Safe(c, res, InitEmpty(broken_file_transfer(w)))
      /\ Safe(c, res, InitEmpty(SendAbort(w))) /\ Safe(c, res, InitEmpty(w))
      /\ Safe(c, res, Throw(w))
  BY <1>2, EmptiedSafe, KeepsSafe
<1> QED BY <1>3 DEF reset_nolock_data

----------------------------------------------------------------------------
(* Data may go on to the other side. *)
Cleared(w) == Verifies(w.c) => Accepted(w.d, w.v)

LEMMA PassingCleared ==
  ASSUME NEW c, NEW res, NEW w, Safe(c, res, w), w.x.st \in Passing
  PROVE  Cleared(w)
BY DEF Safe, FileSafe, Cleared

LEMMA KeepsCleared ==
  ASSUME NEW w, NEW u, Cleared(w), Keeps(w, u)
  PROVE  Cleared(u)
BY DEF Cleared, Keeps, Spares, Accepted

LEMMA PassFileKeeps ==
  ASSUME NEW c, NEW res, NEW w, Safe(c, res, w), Cleared(w)
  PROVE  Keeps(w, PassFile(w)) /\ PassFile(w).d = w.d /\ PassFile(w).x = w.x
<1> DEFINE s == [w.s EXCEPT !.file =
                   @ \/ (Verifies(w.c) /\ w.v.res[w.d.own] # "accept")]
<1>1. IsSeen(s)
  BY DEF Safe, IsWork, IsSeen
<1>2. w.s.file = FALSE /\ ~(Verifies(w.c) /\ w.v.res[w.d.own] # "accept")
  BY DEF Safe, Cleared, Accepted
<1>3. s.file = FALSE
  BY <1>2 DEF Safe, IsWork, IsSeen
<1>4. PassFile(w) = [w EXCEPT !.s = s]
  BY DEF PassFile
<1> HIDE DEF s
<1> QED BY <1>1, <1>2, <1>3, <1>4 DEF Safe, Keeps, Spares, IsWork

LEMMA PassTextKeeps ==
  ASSUME NEW w, IsWork(w)
  PROVE  Keeps(w, PassText(w))
<1> DEFINE s == [w.s EXCEPT !.text =
                   @ \/ (VerifiesText(w.c) /\ w.v.res[w.d.own] # "accept")]
<1>1. IsSeen(s) /\ s.file = w.s.file
  BY DEF IsWork, IsSeen
<1>2. PassText(w) = [w EXCEPT !.s = s]
  BY DEF PassText
<1> HIDE DEF s
<1> QED BY <1>1, <1>2 DEF Keeps, Spares, IsWork

LEMMA ToIdle ==
  ASSUME NEW c, NEW res, NEW w, Safe(c, res, w), NEW from, NEW to,
         to \notin Passing \cup Waiting
  PROVE  Safe(c, res, SetState(w, from, to))
<1>1. Spares(w, SetState(w, from, to)) /\ SetState(w, from, to).x.st = to
  BY SetStateEffect DEF Safe
<1> QED BY <1>1, IdleSafe

LEMMA ToPassing ==
  ASSUME NEW c, NEW res, NEW w, Safe(c, res, w), Cleared(w), NEW from,
         NEW to \in Passing
  PROVE  Safe(c, res, SetState(w, from, to))
<1> DEFINE u == SetState(w, from, to)
<1>1. Spares(w, u) /\ u.x.st = to /\ u.d = w.d
  BY SetStateEffect DEF Safe
<1> HIDE DEF u
<1>2. u.x.st \notin Waiting /\ u.x.st # "GetRange"
  BY <1>1 DEF Passing, Waiting
<1>3. Verifies(u.c) => Accepted(u.d, u.v)
  BY <1>1 DEF Cleared, Spares, Accepted
<1>4. Safe(c, res, u)
  BY <1>1, <1>2, <1>3 DEF Safe, Spares, FileSafe
<1> QED BY <1>4 DEF u

LEMMA ToWaiting ==
  ASSUME NEW c, NEW res, NEW w, Safe(c, res, w), w.x.st = "GetRange", NEW from
  PROVE  Safe(c, res, SetState(w, from, "WaitingFileValidator"))
<1> DEFINE u == SetState(w, from, "WaitingFileValidator")
<1>1. Spares(w, u) /\ u.x.st = "WaitingFileValidator" /\ u.d = w.d
  BY SetStateEffect DEF Safe
<1> HIDE DEF u
<1>2. Safe(c, res, u)
  BY <1>1 DEF Safe, Spares, FileSafe, Passing, Waiting
<1> QED BY <1>2 DEF u

(* A helper that writes fields of the transfer but those that name it. *)
SameTransfer(d, e) ==
    IsRange(e) /\ e.own = d.own /\ e.vid = d.vid /\ e.verdict = d.verdict

LEMMA RangeKeeps ==
  ASSUME NEW w, IsWork(w), NEW e, SameTransfer(w.d, e)
  PROVE  LET u == [w EXCEPT !.d = e]
         IN  Keeps(w, u) /\ u.d = e /\ u.x = w.x /\ u.v = w.v
BY DEF SameTransfer, Keeps, Spares, IsWork

----------------------------------------------------------------------------
(* Requests for a file. *)
LEMMA InitContentsSafe ==
  ASSUME NEW c, NEW res, NEW w, Safe(c, res, w), NEW q
  PROVE  Safe(c, res, init_contents(w, q))
<1>1. ASSUME NEW st \in {"Size", "RequestedRange"}, NEW first, NEW size
      PROVE  LET s == SetState(w, {"Empty"}, st)
             IN  /\ Safe(c, res, [s EXCEPT !.d.sid = q.sid, !.d.file = q.file])
                 /\ Safe(c, res, [s EXCEPT !.d.sid = q.sid, !.d.file = q.file,
                                   !.d.first = first, !.d.size = size])
  <2> DEFINE s == SetState(w, {"Empty"}, st)
             d == [s.d EXCEPT !.sid = q.sid, !.file = q.file]
             e == [s.d EXCEPT !.sid = q.sid, !.file = q.file, !.first = first,
                              !.size = size]
  <2>1. Safe(c, res, s)
    BY ToIdle DEF Passing, Waiting
  <2> HIDE DEF s
  <2>2. SameTransfer(s.d, d) /\ SameTransfer(s.d, e)
    BY <2>1 DEF Safe, IsWork, IsRange, SameTransfer
  <2>3. /\ [s EXCEPT !.d.sid = q.sid, !.d.file = q.file] = [s EXCEPT !.d = d]
        /\ [s EXCEPT !.d.sid = q.sid, !.d.file = q.file, !.d.first = first,
                     !.d.size = size] = [s EXCEPT !.d = e]
    BY <2>1 DEF Safe, IsWork, IsRange
  <2> HIDE DEF d, e
  <2>4. Keeps(s, [s EXCEPT !.d = d]) /\ Keeps(s, [s EXCEPT !.d = e])
    BY <2>1, <2>2, RangeKeeps DEF Safe
  <2>5. Safe(c, res, [s EXCEPT !.d = d]) /\ Safe(c, res, [s EXCEPT !.d = e])
    BY <2>1, <2>4, KeepsSafe
  <2> QED BY <2>3, <2>5 DEF s
<1>2. ASSUME NEW u, Safe(c, res, u), NEW sid, NEW range, NEW len
      PROVE  Safe(c, res, Asked(u, sid, range, len))
  BY <1>2, AskedKeeps, KeepsSafe DEF Safe
<1>3. Safe(c, res, init_contents_size(w, q))
  BY <1>1, <1>2 DEF init_contents_size
<1>4. Safe(c, res, init_contents_range(w, q))
  BY <1>1, <1>2 DEF init_contents_range
<1> QED BY <1>3, <1>4 DEF init_contents

LEMMA UpdateContinuationKeeps ==
  ASSUME NEW w, IsWork(w), NEW q
  PROVE  Keeps(w, update_continuation_range(w, q))
<1> DEFINE d == [w.d EXCEPT !.sid = q.sid,
                            !.req = MinOf(w.d.size - w.d.off, q.len)]
           u == [w EXCEPT !.d = d]
<1>1. SameTransfer(w.d, d)
  BY DEF IsWork, IsRange, SameTransfer
<1>2. update_continuation_range(w, q) = Asked(u, q.sid, TRUE, q.len)
  BY DEF update_continuation_range, IsWork, IsRange
<1> HIDE DEF d
<1>3. Keeps(w, u) /\ IsWork(u)
  BY <1>1, RangeKeeps DEF Keeps, Spares
<1> HIDE DEF u
<1> QED BY <1>2, <1>3, AskedKeeps, KeepsInTurn

LEMMA SyncRequestSafe ==
  ASSUME NEW c, NEW res, NEW w, Safe(c, res, w), w.x.st = "SyncRange", NEW q
  PROVE  Safe(c, res, SyncRequest(w, q))
<1> DEFINE a == Asserted(w, w.d.off = w.x.clen /\ w.d.off >= w.x.cpos)
           stop == InitEmpty(stop_valid_transfer(a))
           len == MinOf(w.x.clen - q.pos, q.len)
           known == w.x.clen - q.pos
           passed == [PassFile(a) EXCEPT !.x.cpos = q.pos + len]
           goOn == SetState(update_continuation_range(a, q), {"SyncRange"},
                            "Range")
           asks == [Asked(a, w.d.sid, TRUE, q.len - known) EXCEPT
                      !.x.cpos = q.pos, !.d.sid = q.sid,
                      !.d.req = q.len - known, !.d.first = q.len]
           more == SetState(asks, {"SyncRange"}, "RequestedSyncRange")
<1>1. Keeps(w, a) /\ Safe(c, res, a) /\ Cleared(a) /\ IsWork(a)
  <2>1. Keeps(w, a)
    BY AssertedKeeps DEF Safe
  <2>2. Cleared(w)
    BY PassingCleared DEF Passing
  <2> HIDE DEF a
  <2> QED BY <2>1, <2>2, KeepsSafe, KeepsCleared, SafeIsWork
<1>2. SyncRequest(w, q) =
        IF ~q.range \/ q.file # w.d.file THEN init_contents(stop, q)
        ELSE IF q.pos > w.x.cpos THEN stop
        ELSE IF HasDigest(w.d) \/ q.pos + q.len < w.x.clen
        THEN IF len > ReadMax THEN Throw(a) ELSE passed
        ELSE IF q.pos = w.x.clen THEN goOn ELSE more
  BY DEF SyncRequest
<1> HIDE DEF a
<1>3. Safe(c, res, stop)
  BY <1>1, StopValidKeeps, EmptiedSafe
<1> HIDE DEF stop
<1>4. Safe(c, res, init_contents(stop, q))
  BY <1>3, InitContentsSafe
<1>5. Safe(c, res, Throw(a))
  BY <1>1, ThrowKeeps, KeepsSafe
<1>6. Safe(c, res, passed)
  <2> DEFINE p == PassFile(a)
             x == [p.x EXCEPT !.cpos = q.pos + len]
  <2>1. Keeps(a, p) /\ Safe(c, res, p) /\ IsWork(p)
    BY <1>1, PassFileKeeps, KeepsSafe, SafeIsWork
  <2>2. passed = [p EXCEPT !.x = x]
    OBVIOUS
  <2> HIDE DEF p
  <2>3. IsContext(x) /\ x.st = p.x.st
    BY <2>1 DEF IsWork, IsContext
  <2> HIDE DEF x
  <2>4. Keeps(p, [p EXCEPT !.x = x])
    BY <2>1, <2>3, ContextKeeps
  <2> HIDE DEF passed
  <2> QED BY <2>1, <2>2, <2>4, KeepsSafe
<1>7. Safe(c, res, goOn)
  <2>1. Keeps(a, update_continuation_range(a, q))
    BY <1>1, UpdateContinuationKeeps
  <2>2. /\ Safe(c, res, update_continuation_range(a, q))
        /\ Cleared(update_continuation_range(a, q))
    BY <1>1, <2>1, KeepsSafe, KeepsCleared
  <2> QED BY <2>2, ToPassing DEF Passing
<1>8. Safe(c, res, more)
  <2> DEFINE b == Asked(a, w.d.sid, TRUE, q.len - known)
             x == [b.x EXCEPT !.cpos = q.pos]
             d == [b.d EXCEPT !.sid = q.sid, !.req = q.len - known,
                              !.first = q.len]
  <2>1. Keeps(a, b)
    <3> HIDE DEF known
    <3> QED BY <1>1, AskedKeeps
  <2>2. asks = [b EXCEPT !.x.cpos = q.pos, !.d.sid = q.sid,
                         !.d.req = q.len - known, !.d.first = q.len]
    OBVIOUS
  <2> HIDE DEF b, known
  <2>3. Safe(c, res, b) /\ Cleared(b) /\ IsWork(b)
    BY <1>1, <2>1, KeepsSafe, KeepsCleared, SafeIsWork
  <2>4. asks = [b EXCEPT !.x = x, !.d = d]
    BY <2>2, <2>3 DEF IsWork, IsContext, IsRange
  <2>5. IsContext(x) /\ x.st = b.x.st
    BY <2>3 DEF IsWork, IsContext
  <2>6. SameTransfer(b.d, d)
    BY <2>3 DEF IsWork, IsRange, SameTransfer
  <2> HIDE DEF x, d, asks
  <2>7. Keeps(b, asks)
    BY <2>3, <2>4, <2>5, <2>6 DEF SameTransfer, Keeps, Spares, IsWork
  <2>8. Safe(c, res, asks) /\ Cleared(asks)
    BY <2>3, <2>7, KeepsSafe, KeepsCleared
  <2> QED BY <2>8, ToPassing DEF Passing
<1> HIDE DEF passed, goOn, more
<1> QED BY <1>2, <1>3, <1>4, <1>5, <1>6, <1>7, <1>8

LEMMA NoLockRequestSafe ==
  ASSUME NEW c, NEW res, NEW w, Safe(c, res, w), NEW q
  PROVE  Safe(c, res, NoLockRequest(w, q))
<1>1. IsWork(w)
  BY DEF Safe
<1>2. w.x.st = "SyncRange" => Safe(c, res, SyncRequest(w, q))
  BY SyncRequestSafe
<1>3. ASSUME w.x.st = "WaitingContinuationRange"
      PROVE  Safe(c, res, ContinuationRequest(w, q))
  <2>1. Keeps(w, update_continuation_range(w, q)) /\ Cleared(w)
    BY <1>1, <1>3, UpdateContinuationKeeps, PassingCleared DEF Passing
  <2>2. /\ Safe(c, res, update_continuation_range(w, q))
        /\ Cleared(update_continuation_range(w, q))
    BY <2>1, KeepsSafe, KeepsCleared
  <2>3. Safe(c, res, SetState(update_continuation_range(w, q),
                      {"WaitingContinuationRange"}, "Range"))
    BY <2>2, ToPassing DEF Passing
  <2>4. Safe(c, res, InitEmpty(broken_file_transfer(w)))
    BY <1>1, BrokenKeeps, EmptiedSafe
  <2> QED BY <2>3, <2>4, InitContentsSafe DEF ContinuationRequest
<1>4. Safe(c, res, init_contents(InitEmpty(stop_wait_validation(w)), q))
  BY <1>1, StopWaitKeeps, EmptiedSafe, InitContentsSafe
<1>5. Safe(c, res, init_contents(w, q)) /\ Safe(c, res, Throw(w))
  BY <1>1, InitContentsSafe, ThrowKeeps, KeepsSafe
<1> QED BY <1>2, <1>3, <1>4, <1>5 DEF NoLockRequest

LEMMA LockedRequestSafe ==
  ASSUME NEW c, NEW res, NEW w, Safe(c, res, w), NEW q
  PROVE  Safe(c, res, LockedRequest(w, q))
<1>1. IsWork(w)
  BY DEF Safe
<1>2. ASSUME NEW x, IsContext(x), x.st = w.x.st
      PROVE  Safe(c, res, [w EXCEPT !.x = x])
  BY <1>1, <1>2, ContextKeeps, KeepsSafe
<1> DEFINE x == w.x
           files == x.locks[FirstLock(x.locks, q.lock)].files
           goOn == {r \in x.ranges : /\ r.lock = q.lock /\ r.st = "WaitingRequest"
                                     /\ r.d.file = q.file /\ r.d.off = q.pos}
           r == CHOOSE r \in goOn : TRUE
           u == update_continuation_range([w EXCEPT !.d = r.d], q)
           more == [u EXCEPT !.d = w.d,
                      !.x.ranges = (@ \ {r}) \cup
                          {[r EXCEPT !.d = u.d, !.st = "WaitingResponse"]}]
           slot == [w EXCEPT !.x.slot = [lock |-> q.lock, sid |-> q.sid,
                                         file |-> q.file, len |-> q.len,
                                         size |-> files[q.file]]]
           size == [w EXCEPT !.x.sizes = @ \cup
                        {[lock |-> q.lock, sid |-> q.sid, file |-> q.file]}]
<1>3. LockedRequest(w, q) =
        IF ~HasLock(x.locks, q.lock) THEN w
        ELSE IF UsesStream(x, q.sid) THEN Throw(w)
        ELSE IF q.range /\ goOn # {} THEN more
        ELSE IF q.file \notin DOMAIN files THEN w
        ELSE IF q.range THEN Asked(slot, q.sid, TRUE, q.len)
        ELSE Asked(size, q.sid, FALSE, 0)
  BY DEF LockedRequest
<1>4. Safe(c, res, Throw(w))
  BY <1>1, ThrowKeeps, KeepsSafe
<1>5. Safe(c, res, slot)
  <2> DEFINE y == [w.x EXCEPT !.slot = [lock |-> q.lock, sid |-> q.sid,
                                        file |-> q.file, len |-> q.len,
                                        size |-> files[q.file]]]
  <2>1. IsContext(y) /\ y.st = w.x.st
    BY <1>1 DEF IsWork, IsContext
  <2>2. slot = [w EXCEPT !.x = y]
    OBVIOUS
  <2> HIDE DEF y, slot
  <2> QED BY <1>2, <2>1, <2>2
<1>6. Safe(c, res, size)
  <2> DEFINE y == [w.x EXCEPT !.sizes = @ \cup
                        {[lock |-> q.lock, sid |-> q.sid, file |-> q.file]}]
  <2>1. IsContext(y) /\ y.st = w.x.st
    BY <1>1 DEF IsWork, IsContext
  <2>2. size = [w EXCEPT !.x = y]
    OBVIOUS
  <2> HIDE DEF y, size
  <2> QED BY <1>2, <2>1, <2>2
<1>7. ASSUME goOn # {}
      PROVE  Safe(c, res, more)
  <2> DEFINE k == [w EXCEPT !.d = r.d]
             y == [w.x EXCEPT !.asked = @ \cup
                      {[sid |-> q.sid, range |-> TRUE, len |-> q.len]}]
             e == [r EXCEPT !.d = u.d, !.st = "WaitingResponse"]
             z == [y EXCEPT !.ranges = (@ \ {r}) \cup {e}]
  <2>1. r \in w.x.ranges
    BY <1>7
  <2> HIDE DEF r
  <2>2. IsLocked(r) /\ IsWork(k)
    BY <1>1, <2>1 DEF IsWork, IsContext, IsLocked
  <2>3. IsWork(u)
    <3>1. Keeps(k, update_continuation_range(k, q))
      BY <2>2, UpdateContinuationKeeps
    <3> QED BY <3>1 DEF Keeps, Spares
  <2>4. u.x = y /\ u.c = w.c /\ u.v = w.v /\ u.s = w.s
    BY <1>1 DEF update_continuation_range, Asked, IsWork
  <2>5. more = [u EXCEPT !.d = w.d, !.x = z]
    BY <2>4
  <2> HIDE DEF u
  <2>6. IsLocked(e)
    BY <2>2, <2>3 DEF IsWork, IsLocked
  <2>7. IsContext(y) /\ y.st = w.x.st
    BY <1>1 DEF IsWork, IsContext
  <2> HIDE DEF y, e
  <2>8. IsContext(z) /\ z.st = w.x.st
    BY <2>6, <2>7 DEF IsContext
  <2> HIDE DEF z, more
  <2>9. Keeps(w, more)
    BY <1>1, <2>3, <2>4, <2>5, <2>8 DEF Keeps, Spares, IsWork
  <2> QED BY <2>9, KeepsSafe
<1> HIDE DEF x, files, goOn, r, u, more, slot, size
<1>8. /\ Safe(c, res, Asked(slot, q.sid, TRUE, q.len))
      /\ Safe(c, res, Asked(size, q.sid, FALSE, 0))
  BY <1>5, <1>6, AskedKeeps, KeepsSafe, SafeIsWork
<1> QED BY <1>3, <1>4, <1>7, <1>8

----------------------------------------------------------------------------
(* Responses. *)
LEMMA UpdateRangeKeeps ==
  ASSUME NEW w, IsWork(w), NEW n
  PROVE  Keeps(w, update_file_range_data(w, n))
<1> DEFINE a == Asserted(w, w.d.vid # 0 => w.v.svc[w.d.vid] = "open")
           k == MinOf(n, w.d.req)
           d == [a.d EXCEPT !.off = @ + k, !.req = @ - k]
<1>1. Keeps(w, a) /\ IsWork(a)
  BY AssertedKeeps DEF Keeps, Spares
<1>2. update_file_range_data(w, n) = [a EXCEPT !.d.off = @ + k, !.d.req = @ - k]
  BY DEF update_file_range_data
<1> HIDE DEF a, k
<1>3. SameTransfer(a.d, d)
  BY <1>1 DEF IsWork, IsRange, SameTransfer
<1>4. [a EXCEPT !.d.off = @ + k, !.d.req = @ - k] = [a EXCEPT !.d = d]
  BY <1>1 DEF IsWork, IsRange
<1> HIDE DEF d
<1>5. Keeps(a, [a EXCEPT !.d = d])
  BY <1>1, <1>3, RangeKeeps
<1> QED BY <1>1, <1>2, <1>4, <1>5, KeepsInTurn

LEMMA AccumulateKeeps ==
  ASSUME NEW w, IsWork(w), NEW n
  PROVE  Keeps(w, Accumulate(w, n))
<1> DEFINE u == update_file_range_data(w, n)
           a == Asserted(u, w.x.cpos = 0)
           x == [a.x EXCEPT !.clen = @ + MinOf(n, w.d.req)]
<1>1. Keeps(w, u) /\ IsWork(u)
  BY UpdateRangeKeeps DEF Keeps, Spares
<1>2. Accumulate(w, n) = [a EXCEPT !.x = x]
  BY DEF Accumulate
<1> HIDE DEF u
<1>3. Keeps(u, a) /\ IsWork(a)
  BY <1>1, AssertedKeeps DEF Keeps, Spares
<1> HIDE DEF a
<1>4. IsContext(x) /\ x.st = a.x.st
  BY <1>3 DEF IsWork, IsContext
<1> HIDE DEF x
<1>5. Keeps(a, [a EXCEPT !.x = x])
  BY <1>3, <1>4, ContextKeeps
<1> QED BY <1>1, <1>2, <1>3, <1>5, KeepsInTurn

LEMMA SetFinalizeKeeps ==
  ASSUME NEW w, IsWork(w)
  PROVE  Keeps(w, set_finalize_file_transfer(w))
<1> DEFINE d == [w.d EXCEPT !.size = MinOf(@, w.d.off)]
           u == [w EXCEPT !.d = d]
<1>1. SameTransfer(w.d, d)
  BY DEF IsWork, IsRange, SameTransfer
<1>2. set_finalize_file_transfer(w) = IF Complete(w.d) THEN SigFinal(u) ELSE w
  BY DEF set_finalize_file_transfer
<1> HIDE DEF d
<1>3. Keeps(w, u) /\ IsWork(u)
  BY <1>1, RangeKeeps DEF Keeps, Spares
<1> HIDE DEF u
<1>4. Keeps(u, SigFinal(u))
  BY <1>3, SigEffect
<1> QED BY <1>2, <1>3, <1>4, KeepsInTurn, KeepsItself

LEMMA SendRequestSafe ==
  ASSUME NEW c, NEW res, NEW w, Safe(c, res, w)
  PROVE  Safe(c, res, send_file_contents_request(w))
<1> DEFINE b == Asked(w, w.d.sid, TRUE, w.d.first)
           d == [b.d EXCEPT !.req = w.d.first]
<1>1. IsWork(w)
  BY DEF Safe
<1>2. Safe(c, res, InitEmpty(stop_validation_before_transfer(w)))
  BY <1>1, StopValidationKeeps, EmptiedSafe
<1>3. Safe(c, res, b) /\ IsWork(b)
  <2>1. Keeps(w, b)
    BY <1>1, AskedKeeps
  <2> HIDE DEF b
  <2> QED BY <2>1, KeepsSafe DEF Keeps, Spares
<1>4. send_file_contents_request(w) =
        IF w.d.size > MaxFile THEN InitEmpty(stop_validation_before_transfer(w))
        ELSE [b EXCEPT !.d = d]
  BY DEF send_file_contents_request
<1> HIDE DEF b
<1>5. SameTransfer(b.d, d)
  BY <1>3 DEF IsWork, IsRange, SameTransfer
<1> HIDE DEF d
<1>6. Safe(c, res, [b EXCEPT !.d = d])
  BY <1>3, <1>5, RangeKeeps, KeepsSafe
<1> QED BY <1>2, <1>4, <1>6

LEMMA ResponseDataKeeps ==
  ASSUME NEW c, NEW res, NEW w, Safe(c, res, w), Cleared(w)
  PROVE  Keeps(w, filecontents_response_data(w))
<1> DEFINE a == Asserted(w, w.x.cpos = 0 /\ w.x.resp <= w.x.clen)
           p == PassFile(a)
           x == [p.x EXCEPT !.cpos = w.x.resp, !.owed = FALSE, !.cut = FALSE]
<1>1. Keeps(w, a)
  BY AssertedKeeps DEF Safe
<1>2. filecontents_response_data(w) =
        [p EXCEPT !.x.cpos = w.x.resp, !.x.owed = FALSE, !.x.cut = FALSE]
  BY DEF filecontents_response_data
<1> HIDE DEF a
<1>3. Keeps(a, p) /\ IsWork(p)
  BY <1>1, PassFileKeeps, KeepsSafe, KeepsCleared DEF Keeps, Spares
<1> HIDE DEF p
<1>4. IsContext(x) /\ x.st = p.x.st
  BY <1>3 DEF IsWork, IsContext
<1>5. filecontents_response_data(w) = [p EXCEPT !.x = x]
  BY <1>2, <1>3 DEF IsWork, IsContext
<1> HIDE DEF x
<1>6. Keeps(p, [p EXCEPT !.x = x])
  BY <1>3, <1>4, ContextKeeps
<1> QED BY <1>1, <1>3, <1>5, <1>6, KeepsInTurn

(* A transfer begins: it has no verdict and no identifier but its own. *)
LEMMA NewTransferEffect ==
  ASSUME NEW w, IsWork(w), NEW d, IsRange(d)
  PROVE  LET u == NewTransfer(w, d)
         IN  /\ Spares(w, u) /\ u.x = w.x
             /\ u.d.verdict = "Wait" /\ u.d.vid \in {0, u.d.own}
<1> DEFINE n == NewId(w.v)
           target == w.c \in opt.target
           e == [d EXCEPT !.vid = IF target THEN n ELSE 0, !.own = n,
                          !.off = 0, !.req = MinOf(d.first, d.size),
                          !.tfl = IF opt.fdx THEN n ELSE 0,
                          !.sig = "Update", !.verdict = "Wait"]
           v == [w.v EXCEPT !.svc[n] = IF target THEN "open" ELSE "none",
                            !.tfl[n] = IF opt.fdx THEN "open" ELSE "none"]
<1>1. NewTransfer(w, d) =
        [w EXCEPT !.d = e, !.v.svc[n] = IF target THEN "open" ELSE "none",
                  !.v.tfl[n] = IF opt.fdx THEN "open" ELSE "none"]
  BY DEF NewTransfer
<1> HIDE DEF n, target
<1>2. IsRange(e) /\ e.verdict = "Wait" /\ e.vid \in {0, e.own}
  BY DEF IsRange
<1>3. IsService(v) /\ v.res = w.v.res
  BY DEF IsWork, IsService
<1>4. NewTransfer(w, d) = [w EXCEPT !.d = e, !.v = v]
  BY <1>1 DEF IsWork, IsService
<1> HIDE DEF e, v
<1> QED BY <1>2, <1>3, <1>4 DEF Spares, IsWork

LEMMA RequestedRangeTo ==
  ASSUME NEW w, IsWork(w), NEW st
  PROVE  LET g == requested_range_to(w, st)
         IN  /\ Spares(w, g) /\ g.x.st = st
             /\ g.d.verdict = "Wait" /\ g.d.vid \in {0, g.d.own}
<1> DEFINE x == [w.x EXCEPT !.clen = 0, !.cpos = 0]
           u == [w EXCEPT !.x = x]
           t == NewTransfer(u, w.d)
           g == SetState(t, {"RequestedRange"}, st)
<1>1. IsContext(x) /\ x.st = w.x.st
  BY DEF IsWork, IsContext
<1>2. requested_range_to(w, st) = g
  BY DEF requested_range_to, IsWork, IsContext
<1> HIDE DEF x
<1>3. Keeps(w, u) /\ IsWork(u) /\ IsRange(w.d)
  BY <1>1, ContextKeeps DEF Keeps, Spares, IsWork
<1> HIDE DEF u
<1>4. Spares(u, t) /\ t.d.verdict = "Wait" /\ t.d.vid \in {0, t.d.own}
  BY <1>3, NewTransferEffect
<1> HIDE DEF t
<1>5. Spares(t, g) /\ g.x.st = st /\ g.d = t.d
  BY <1>4, SetStateEffect DEF Spares
<1> HIDE DEF g
<1> QED BY <1>2, <1>3, <1>4, <1>5 DEF Keeps, Spares

----------------------------------------------------------------------------
LEMMA FirstVerifiedSafe ==
  ASSUME NEW c, NEW res, NEW w, Safe(c, res, w), NEW n, NEW last, NEW total
  PROVE  Safe(c, res, FirstVerified(w, n, last, total))
<1> DEFINE g == requested_range_to(w, "GetRange")
           a == Accumulate(g, n)
           f == set_finalize_file_transfer(a)
           m == send_file_contents_request(a)
           t == SetState(SendEof(f), {"GetRange"}, "WaitingFileValidator")
<1>1. Safe(c, res, g) /\ g.x.st = "GetRange" /\ IsWork(g)
  <2>1. /\ Spares(w, g) /\ g.x.st = "GetRange"
        /\ g.d.verdict = "Wait" /\ g.d.vid \in {0, g.d.own}
    BY RequestedRangeTo DEF Safe
  <2> HIDE DEF g
  <2> QED BY <2>1 DEF Safe, Spares, FileSafe, Passing, Waiting
<1>2. FirstVerified(w, n, last, total) =
        IF ~last THEN Header(a, MinOf(total, g.d.req))
        ELSE IF Complete(a.d) THEN Header(t, a.x.clen)
        ELSE IF m.x.st = "Empty" THEN m ELSE Header(m, a.x.clen)
  BY DEF FirstVerified
<1> HIDE DEF g
<1>3. Keeps(g, a)
  BY <1>1, AccumulateKeeps
<1> HIDE DEF a
<1>4. Safe(c, res, a) /\ a.x.st = "GetRange" /\ IsWork(a)
  BY <1>1, <1>3, KeepsSafe DEF Keeps, Spares
<1>5. Safe(c, res, m)
  BY <1>4, SendRequestSafe
<1>6. Safe(c, res, t)
  <2>1. Keeps(a, f)
    BY <1>4, SetFinalizeKeeps
  <2> HIDE DEF f
  <2>2. Keeps(f, SendEof(f))
    BY <2>1, SendEofKeeps DEF Keeps, Spares
  <2>3. Keeps(a, SendEof(f))
    BY <2>1, <2>2, KeepsInTurn
  <2>4. Safe(c, res, SendEof(f)) /\ SendEof(f).x.st = "GetRange"
    BY <1>4, <2>3, KeepsSafe DEF Keeps
  <2> QED BY <2>4, ToWaiting
<1> HIDE DEF m, t
<1>7. ASSUME NEW u, Safe(c, res, u), NEW len
      PROVE  Safe(c, res, Header(u, len))
  <2>1. Keeps(u, Header(u, len))
    BY <1>7, HeaderKeeps DEF Safe
  <2> QED BY <1>7, <2>1, KeepsSafe
<1> QED BY <1>2, <1>4, <1>5, <1>6, <1>7

LEMMA RangeChunkSafe ==
  ASSUME NEW c, NEW res, NEW w, Safe(c, res, w), Cleared(w), NEW n, NEW last
  PROVE  Safe(c, res, RangeChunk(w, n, last))
<1> DEFINE k == update_file_range_data(w, n)
           u == PassFile(k)
           z == InitEmpty(close_file_rng(set_finalize_file_transfer(u)))
           t == SetState(u, {"Range"}, "WaitingContinuationRange")
<1>1. RangeChunk(w, n, last) =
        IF ~last THEN u ELSE IF Complete(u.d) THEN z ELSE t
  BY DEF RangeChunk
<1>2. Safe(c, res, k) /\ Cleared(k)
  <2>1. Keeps(w, k)
    BY UpdateRangeKeeps DEF Safe
  <2> HIDE DEF k
  <2> QED BY <2>1, KeepsSafe, KeepsCleared
<1> HIDE DEF k
<1>3. Safe(c, res, u) /\ Cleared(u) /\ IsWork(u)
  <2>1. Keeps(k, u)
    BY <1>2, PassFileKeeps
  <2> HIDE DEF u
  <2> QED BY <1>2, <2>1, KeepsSafe, KeepsCleared DEF Keeps, Spares
<1> HIDE DEF u
<1>4. Safe(c, res, t)
  BY <1>3, ToPassing DEF Passing
<1>5. Safe(c, res, z)
  <2> DEFINE f == set_finalize_file_transfer(u)
  <2>1. Keeps(u, f)
    BY <1>3, SetFinalizeKeeps
  <2> HIDE DEF f
  <2>2. Keeps(f, close_file_rng(f))
    BY <2>1, CloseRangeKeeps DEF Keeps, Spares
  <2>3. Safe(c, res, InitEmpty(close_file_rng(f)))
    BY <1>3, <2>1, <2>2, KeepsInTurn, EmptiedSafe
  <2> QED BY <2>3 DEF f
<1> QED BY <1>1, <1>3, <1>4, <1>5

LEMMA SyncChunkSafe ==
  ASSUME NEW c, NEW res, NEW w, Safe(c, res, w), Cleared(w), NEW n, NEW last
  PROVE  Safe(c, res, SyncChunk(w, n, last))
<1> DEFINE k == update_file_range_data(w, n)
           u == PassFile(k)
           known == w.d.first - w.d.req
           y == [u EXCEPT !.x.cpos = @ + known, !.d.first = 0]
           r == IF w.d.first = 0 THEN u
                ELSE IF w.x.cpos + known > w.x.clen \/ known > ReadMax
                THEN Throw(u) ELSE y
           z == InitEmpty(close_file_rng_tfl(set_finalize_file_transfer(r)))
           t == SetState(r, {"RequestedSyncRange"}, "WaitingContinuationRange")
<1>1. SyncChunk(w, n, last) =
        IF r.thrown \/ ~last THEN r ELSE IF Complete(r.d) THEN z ELSE t
  BY DEF SyncChunk
<1>2. Safe(c, res, k) /\ Cleared(k)
  <2>1. Keeps(w, k)
    BY UpdateRangeKeeps DEF Safe
  <2> HIDE DEF k
  <2> QED BY <2>1, KeepsSafe, KeepsCleared
<1> HIDE DEF k
<1>3. Safe(c, res, u) /\ Cleared(u) /\ IsWork(u)
  <2>1. Keeps(k, u)
    BY <1>2, PassFileKeeps
  <2> HIDE DEF u
  <2> QED BY <1>2, <2>1, KeepsSafe, KeepsCleared DEF Keeps, Spares
<1> HIDE DEF u, known
<1>4. Keeps(u, y)
  <2> DEFINE x == [u.x EXCEPT !.cpos = @ + known]
             d == [u.d EXCEPT !.first = 0]
  <2>1. IsContext(x) /\ x.st = u.x.st
    BY <1>3 DEF IsWork, IsContext
  <2>2. SameTransfer(u.d, d)
    BY <1>3 DEF IsWork, IsRange, SameTransfer
  <2>3. y = [u EXCEPT !.x = x, !.d = d]
    OBVIOUS
  <2> HIDE DEF x, d, y
  <2> QED BY <1>3, <2>1, <2>2, <2>3 DEF SameTransfer, Keeps, Spares, IsWork
<1>5. Safe(c, res, r) /\ Cleared(r) /\ IsWork(r)
  <2>1. Keeps(u, u) /\ Keeps(u, Throw(u)) /\ Keeps(u, y)
    BY <1>3, <1>4, KeepsItself, ThrowKeeps
  <2> HIDE DEF y
  <2>2. Keeps(u, r)
    BY <2>1
  <2> HIDE DEF r
  <2> QED BY <1>3, <2>2, KeepsSafe, KeepsCleared DEF Keeps, Spares
<1> HIDE DEF r
<1>6. Safe(c, res, t)
  BY <1>5, ToPassing DEF Passing
<1>7. Safe(c, res, z)
  <2> DEFINE f == set_finalize_file_transfer(r)
  <2>1. Keeps(r, f)
    BY <1>5, SetFinalizeKeeps
  <2> HIDE DEF f
  <2>2. Keeps(f, close_file_rng_tfl(f))
    BY <2>1, CloseTflKeeps DEF Keeps, Spares
  <2>3. Safe(c, res, InitEmpty(close_file_rng_tfl(f)))
    BY <1>5, <2>1, <2>2, KeepsInTurn, EmptiedSafe
  <2> QED BY <2>3 DEF f
<1> QED BY <1>1, <1>5, <1>6, <1>7

LEMMA GetChunkSafe ==
  ASSUME NEW c, NEW res, NEW w, Safe(c, res, w), w.x.st = "GetRange",
         NEW n, NEW last
  PROVE  Safe(c, res, GetChunk(w, n, last))
<1> DEFINE a == Accumulate(w, n)
           f == set_finalize_file_transfer(a)
           closed == close_file_rng_tfl(f)
           b == IF Complete(a.d) THEN closed ELSE f
           no == InitEmpty(ZeroData(close_file_rng_tfl(log_file_info(f))))
           yes == SetState(filecontents_response_data(b), {"GetRange"},
                           "SyncRange")
           wait == SetState(SendEof(f), {"GetRange"}, "WaitingFileValidator")
<1>1. GetChunk(w, n, last) =
        IF ~last THEN a
        ELSE CASE a.d.verdict = "Failure" -> no
               [] a.d.verdict = "Success" -> yes
               [] OTHER -> IF Complete(a.d) THEN wait
                           ELSE send_file_contents_request(a)
  BY DEF GetChunk, EarlyVerdict
<1>2. Keeps(w, a)
  BY AccumulateKeeps DEF Safe
<1> HIDE DEF a
<1>3. Safe(c, res, a) /\ a.x.st = "GetRange" /\ IsWork(a)
  BY <1>2, KeepsSafe DEF Keeps, Spares
<1>4. Keeps(a, f) /\ IsWork(f)
  BY <1>3, SetFinalizeKeeps DEF Keeps, Spares
<1> HIDE DEF f
<1>5. Safe(c, res, no)
  <2> DEFINE l == log_file_info(f)
             h == close_file_rng_tfl(l)
  <2>1. Keeps(f, l) /\ IsWork(l)
    BY <1>4, LogKeeps DEF Keeps, Spares
  <2> HIDE DEF l
  <2>2. Keeps(l, h) /\ IsWork(h)
    BY <2>1, CloseTflKeeps DEF Keeps, Spares
  <2> HIDE DEF h
  <2>3. Keeps(h, ZeroData(h))
    BY <2>2, ZeroDataKeeps
  <2>4. Keeps(a, ZeroData(h))
    BY <1>4, <2>1, <2>2, <2>3, KeepsInTurn
  <2>5. Safe(c, res, InitEmpty(ZeroData(h)))
    BY <1>3, <2>4, EmptiedSafe
  <2> QED BY <2>5 DEF h, l
<1>6. ASSUME a.d.verdict = "Success"
      PROVE  Safe(c, res, yes)
  <2>1. Keeps(f, closed)
    BY <1>4, CloseTflKeeps
  <2>2. Keeps(a, closed)
    BY <1>4, <2>1, KeepsInTurn
  <2> HIDE DEF closed
  <2>3. Keeps(a, b)
    BY <1>4, <2>2
  <2> HIDE DEF b
  <2>4. Cleared(a)
    BY <1>3, <1>6 DEF Safe, FileSafe, Cleared
  <2>5. Safe(c, res, b) /\ Cleared(b)
    BY <1>3, <2>3, <2>4, KeepsSafe, KeepsCleared
  <2>6. Keeps(b, filecontents_response_data(b))
    BY <2>5, ResponseDataKeeps
  <2>7. /\ Safe(c, res, filecontents_response_data(b))
        /\ Cleared(filecontents_response_data(b))
    BY <2>5, <2>6, KeepsSafe, KeepsCleared
  <2> QED BY <2>7, ToPassing DEF Passing
<1>7. Safe(c, res, wait)
  <2>1. Keeps(f, SendEof(f))
    BY <1>4, SendEofKeeps
  <2>2. Keeps(a, SendEof(f))
    BY <1>4, <2>1, KeepsInTurn
  <2>3. Safe(c, res, SendEof(f)) /\ SendEof(f).x.st = "GetRange"
    BY <1>3, <2>2, KeepsSafe DEF Keeps
  <2> QED BY <2>3, ToWaiting
<1>8. Safe(c, res, send_file_contents_request(a))
  BY <1>3, SendRequestSafe
<1> HIDE DEF no, yes, wait
<1> QED BY <1>1, <1>3, <1>5, <1>6, <1>7, <1>8

----------------------------------------------------------------------------
LEMMA NoLockFailSafe ==
  ASSUME NEW c, NEW res, NEW w, Safe(c, res, w)
  PROVE  Safe(c, res, NoLockFail(w))
<1>1. IsWork(w)
  BY DEF Safe
<1>2. Safe(c, res, InitEmpty(w)) /\ Safe(c, res, Throw(w))
  BY <1>1, InitEmptySafe, ThrowKeeps, KeepsSafe
<1>3. /\ Safe(c, res, InitEmpty(broken_file_transfer(w)))
      /\ Safe(c, res, InitEmpty(stop_valid_transfer(w)))
  BY <1>1, BrokenKeeps, StopValidKeeps, EmptiedSafe
<1>4. Safe(c, res, InitEmpty(ZeroData(stop_validation_before_transfer(w))))
  <2> DEFINE t == stop_validation_before_transfer(w)
  <2>1. Keeps(w, t) /\ IsWork(t)
    BY <1>1, StopValidationKeeps DEF Keeps, Spares
  <2> HIDE DEF t
  <2>2. Keeps(w, ZeroData(t))
    BY <2>1, ZeroDataKeeps, KeepsInTurn
  <2>3. Safe(c, res, InitEmpty(ZeroData(t)))
    BY <2>2, EmptiedSafe
  <2> QED BY <2>3 DEF t
<1> QED BY <1>2, <1>3, <1>4 DEF NoLockFail

LEMMA NoLockResponseSafe ==
  ASSUME NEW c, NEW res, NEW w, Safe(c, res, w), NEW sid, NEW n, NEW last,
         NEW total
  PROVE  Safe(c, res, NoLockResponse(w, sid, n, last, total))
<1>1. IsWork(w)
  BY DEF Safe
<1>2. Safe(c, res, Throw(w))
  BY <1>1, ThrowKeeps, KeepsSafe
<1> DEFINE a == Asserted(w, w.d.file \in DOMAIN w.x.files)
           size == [a EXCEPT !.x.files[w.d.file] = total]
<1>3. Safe(c, res, InitEmpty(size))
  <2> DEFINE x == [a.x EXCEPT !.files[w.d.file] = total]
  <2>1. Keeps(w, a) /\ IsWork(a)
    BY <1>1, AssertedKeeps DEF Keeps, Spares
  <2> HIDE DEF a
  <2>2. IsContext(x) /\ x.st = a.x.st
    BY <2>1 DEF IsWork, IsContext
  <2>3. size = [a EXCEPT !.x = x]
    OBVIOUS
  <2> HIDE DEF x, size
  <2>4. Keeps(w, size)
    BY <2>1, <2>2, <2>3, ContextKeeps, KeepsInTurn
  <2> QED BY <2>4, EmptiedSafe
<1>4. Safe(c, res, FirstVerified(w, n, last, total))
  BY FirstVerifiedSafe
<1>5. ASSUME ~Verifies(w.c)
      PROVE  Safe(c, res, RangeChunk(requested_range_to(w, "Range"), n, last))
  <2> DEFINE g == requested_range_to(w, "Range")
  <2>1. Spares(w, g)
    BY <1>1, RequestedRangeTo
  <2> HIDE DEF g
  <2>2. Safe(c, res, g) /\ Cleared(g)
    BY <1>5, <2>1 DEF Safe, Spares, FileSafe, Cleared
  <2>3. Safe(c, res, RangeChunk(g, n, last))
    BY <2>2, RangeChunkSafe
  <2> QED BY <2>3 DEF g
<1>6. w.x.st = "Range" => Safe(c, res, RangeChunk(w, n, last))
  BY PassingCleared, RangeChunkSafe DEF Passing
<1>7. w.x.st = "RequestedSyncRange" => Safe(c, res, SyncChunk(w, n, last))
  BY PassingCleared, SyncChunkSafe DEF Passing
<1>8. w.x.st = "GetRange" => Safe(c, res, GetChunk(w, n, last))
  BY GetChunkSafe
<1> QED BY <1>2, <1>3, <1>4, <1>5, <1>6, <1>7, <1>8 DEF NoLockResponse

(* A locked transfer is never verified before its transfer. *)
LEMMA LockedChunkSafe ==
  ASSUME NEW c, NEW res, NEW w, Safe(c, res, w), ~Verifies(w.c),
         NEW r, IsLocked(r), NEW n, NEW last
  PROVE  Safe(c, res, LockedChunk(w, r, n, last))
<1> DEFINE i == [w EXCEPT !.d = r.d]
           k == update_file_range_data(i, n)
           u == PassFile(k)
           f == set_finalize_file_transfer(u)
           e == IF last /\ Complete(u.d) THEN close_file_rng(f) ELSE u
           left == IF ~last THEN {[r EXCEPT !.d = e.d]}
                   ELSE IF Complete(u.d) THEN {}
                   ELSE {[r EXCEPT !.d = e.d, !.st = "WaitingRequest"]}
           x == [e.x EXCEPT !.ranges = (@ \ {r}) \cup left]
<1>1. Safe(c, res, i) /\ Cleared(i) /\ IsWork(i) /\ i.x = w.x
      /\ i.c = w.c /\ i.v = w.v /\ i.s = w.s
  BY DEF Safe, IsWork, IsLocked, FileSafe, Cleared
<1>2. LockedChunk(w, r, n, last) = [e EXCEPT !.d = w.d, !.x = x]
  BY DEF LockedChunk
<1> HIDE DEF i
<1>3. Keeps(i, k)
  BY <1>1, UpdateRangeKeeps
<1> HIDE DEF k
<1>4. Safe(c, res, k) /\ Cleared(k)
  BY <1>1, <1>3, KeepsSafe, KeepsCleared
<1>5. Keeps(k, u) /\ IsWork(u)
  BY <1>4, PassFileKeeps DEF Keeps, Spares
<1> HIDE DEF u
<1>6. Keeps(u, f) /\ IsWork(f)
  BY <1>5, SetFinalizeKeeps DEF Keeps, Spares
<1> HIDE DEF f
<1>7. Keeps(u, close_file_rng(f))
  BY <1>6, CloseRangeKeeps, KeepsInTurn
<1>8. Keeps(u, e)
  BY <1>5, <1>7, KeepsItself
<1>9. Keeps(i, e) /\ IsWork(e)
  <2> HIDE DEF e
  <2> QED BY <1>3, <1>5, <1>8, KeepsInTurn DEF Keeps, Spares
<1> HIDE DEF e
<1>10. \A l \in left : IsLocked(l)
  BY <1>9 DEF IsWork, IsLocked
<1> HIDE DEF left
<1>11. IsContext(x) /\ x.st = e.x.st
  BY <1>9, <1>10 DEF IsWork, IsContext
<1> HIDE DEF x
<1> DEFINE t == [e EXCEPT !.d = w.d, !.x = x]
<1>12. Keeps(w, t)
  BY <1>1, <1>9, <1>11 DEF Safe, Keeps, Spares, IsWork
<1>13. Safe(c, res, t)
  <2> HIDE DEF t
  <2> QED BY <1>12, KeepsSafe
<1> QED BY <1>2, <1>13

LEMMA LockedResponseSafe ==
  ASSUME NEW c, NEW res, NEW w, Safe(c, res, w), ~Verifies(w.c),
         NEW sid, NEW ok, NEW n, NEW last, NEW total
  PROVE  Safe(c, res, LockedResponse(w, sid, ok, n, last, total))
<1> DEFINE x == w.x
           rs == {r \in x.ranges : r.d.sid = sid /\ r.st = "WaitingResponse"}
           zs == {z \in x.sizes : z.sid = sid}
           a == Asserted(w, ~Verifies(w.c))
           d == [NoRange EXCEPT !.sid = sid, !.file = x.slot.file,
                                !.first = x.slot.len, !.size = x.slot.size]
           new == NewTransfer(a, d)
           r == [lock |-> x.slot.lock, st |-> "WaitingResponse", d |-> new.d]
           begun == [new EXCEPT !.d = w.d, !.x.slot = NoSlot]
           gone == [a EXCEPT !.x.slot = NoSlot]
           s == CHOOSE r1 \in rs : TRUE
           z == CHOOSE z1 \in zs : TRUE
           known == Asserted(a, ok => HasLock(x.locks, z.lock))
           g == [known EXCEPT !.x.sizes = @ \ {z}]
           sized == [g EXCEPT !.x.locks[FirstLock(x.locks, z.lock)]
                                   .files[z.file] = total]
<1>1. LockedResponse(w, sid, ok, n, last, total) =
        IF x.slot.lock # 0 /\ x.slot.sid = sid
        THEN IF ok THEN LockedChunk(begun, r, n, last) ELSE gone
        ELSE IF rs # {}
        THEN IF ok THEN LockedChunk(a, s, n, last) ELSE BreakRanges(a, {s})
        ELSE IF zs # {}
        THEN IF ok /\ HasLock(x.locks, z.lock) THEN sized ELSE g
        ELSE Throw(a)
  BY DEF LockedResponse
<1>2. Keeps(w, a) /\ a.x = w.x /\ a.d = w.d
  BY AssertedKeeps DEF Safe
<1> HIDE DEF a
<1>3. Safe(c, res, a) /\ IsWork(a) /\ ~Verifies(a.c)
  BY <1>2, KeepsSafe DEF Keeps, Spares
<1>4. Safe(c, res, Throw(a)) /\ Safe(c, res, BreakRanges(a, {s}))
  BY <1>3, ThrowKeeps, BreakRangesKeeps, KeepsSafe
<1>5. rs # {} => Safe(c, res, LockedChunk(a, s, n, last))
  <2>1. rs # {} => IsLocked(s)
    BY <1>2, <1>3 DEF IsWork, IsContext
  <2> HIDE DEF s, rs
  <2> QED BY <1>3, <2>1, LockedChunkSafe
<1>6. Safe(c, res, gone)
  <2> DEFINE y == [a.x EXCEPT !.slot = NoSlot]
  <2>1. IsContext(y) /\ y.st = a.x.st
    BY <1>3 DEF IsWork, IsContext
  <2>2. gone = [a EXCEPT !.x = y]
    OBVIOUS
  <2> HIDE DEF y, gone
  <2> QED BY <1>3, <2>1, <2>2, ContextKeeps, KeepsSafe
<1>7. Safe(c, res, LockedChunk(begun, r, n, last))
  <2>1. IsRange(d)
    BY DEF NoRange, IsRange
  <2> HIDE DEF d
  <2>2. Spares(a, new) /\ new.x = a.x
    BY <1>3, <2>1, NewTransferEffect
  <2> HIDE DEF new
  <2>3. IsLocked(r)
    BY <2>2 DEF Spares, IsWork, IsLocked
  <2> HIDE DEF r
  <2> DEFINE y == [new.x EXCEPT !.slot = NoSlot]
  <2>4. IsContext(y) /\ y.st = a.x.st
    BY <1>3, <2>2 DEF IsWork, IsContext
  <2>5. begun = [new EXCEPT !.d = w.d, !.x = y]
    OBVIOUS
  <2> HIDE DEF begun, y
  <2>6. Keeps(a, begun)
    BY <1>2, <1>3, <2>2, <2>4, <2>5 DEF Keeps, Spares, IsWork
  <2>7. Safe(c, res, begun) /\ ~Verifies(begun.c)
    BY <1>3, <2>6, KeepsSafe DEF Keeps, Spares
  <2> QED BY <2>3, <2>7, LockedChunkSafe
<1>8. Safe(c, res, g) /\ IsWork(g)
  <2> HIDE DEF z, x
  <2> DEFINE y == [known.x EXCEPT !.sizes = @ \ {z}]
  <2>1. Keeps(a, known) /\ IsWork(known)
    BY <1>3, AssertedKeeps DEF Keeps, Spares
  <2> HIDE DEF known
  <2>2. IsContext(y) /\ y.st = known.x.st
    BY <2>1 DEF IsWork, IsContext
  <2>3. g = [known EXCEPT !.x = y]
    OBVIOUS
  <2> HIDE DEF y, g
  <2>4. Keeps(known, g)
    BY <2>1, <2>2, <2>3, ContextKeeps
  <2> QED BY <1>3, <2>1, <2>4, KeepsInTurn, KeepsSafe DEF Keeps, Spares
<1>9. Safe(c, res, sized)
  <2> HIDE DEF g, z, x
  <2> DEFINE y == [g.x EXCEPT !.locks[FirstLock(x.locks, z.lock)]
                                    .files[z.file] = total]
  <2>1. IsContext(y) /\ y.st = g.x.st
    BY <1>8 DEF IsWork, IsContext
  <2>2. sized = [g EXCEPT !.x = y]
    OBVIOUS
  <2> HIDE DEF y, sized
  <2> QED BY <1>8, <2>1, <2>2, ContextKeeps, KeepsSafe
<1> HIDE DEF x, rs, zs, new, r, begun, gone, s, z, g, sized
<1> QED BY <1>1, <1>4, <1>5, <1>6, <1>7, <1>8, <1>9

----------------------------------------------------------------------------
(* Announcements and formats. *)
LEMMA ResetClipSafe ==
  ASSUME NEW c, NEW res, NEW w, Safe(c, res, w), NEW lk
  PROVE  Safe(c, res, [reset_clip(w) EXCEPT !.x.lock = lk])
<1> DEFINE t == stop_nolock_data(w)
           b == BreakRanges(t, w.x.ranges)
           a == Asserted(b, b.x.st = "Empty")
           x == [a.x EXCEPT !.files = << >>, !.lock = "Disabled",
                            !.locks = << >>, !.sizes = {}, !.slot = NoSlot]
           y == [x EXCEPT !.lock = lk]
<1>1. Safe(c, res, t)
  BY StopNolockSafe
<1>2. [reset_clip(w) EXCEPT !.x.lock = lk] =
        [[a EXCEPT !.x.files = << >>, !.x.lock = "Disabled", !.x.locks = << >>,
                   !.x.sizes = {}, !.x.slot = NoSlot] EXCEPT !.x.lock = lk]
  BY DEF reset_clip
<1> HIDE DEF t
<1>3. Safe(c, res, b)
  BY <1>1, BreakRangesKeeps, KeepsSafe, SafeIsWork
<1> HIDE DEF b
<1>4. Safe(c, res, a) /\ IsWork(a)
  BY <1>3, AssertedKeeps, KeepsSafe, SafeIsWork
<1> HIDE DEF a
<1>5. [a EXCEPT !.x.files = << >>, !.x.lock = "Disabled", !.x.locks = << >>,
                !.x.sizes = {}, !.x.slot = NoSlot] = [a EXCEPT !.x = x]
  BY <1>4 DEF IsWork, IsContext
<1>6. [[a EXCEPT !.x = x] EXCEPT !.x.lock = lk] = [a EXCEPT !.x = y]
  BY <1>4 DEF IsWork
<1>7. IsContext(x) /\ x.st = a.x.st
  BY <1>4 DEF IsWork, IsContext
<1> HIDE DEF x
<1>8. IsContext(y) /\ y.st = a.x.st
  BY <1>7 DEF IsContext
<1> HIDE DEF y
<1>9. Safe(c, res, [a EXCEPT !.x = y])
  BY <1>4, <1>8, ContextKeeps, KeepsSafe
<1> QED BY <1>2, <1>5, <1>6, <1>9

LEMMA OpenTextSafe ==
  ASSUME NEW c, NEW res, NEW w, Safe(c, res, w), NEW big
  PROVE  Safe(c, res, OpenText(w, big))
<1> DEFINE n == NewId(w.v)
           v == [w.v EXCEPT !.svc[n] = "open"]
           d == [w.d EXCEPT !.vid = n, !.own = n]
           o == [w EXCEPT !.v = v, !.d = d]
<1>1. IsWork(w)
  BY SafeIsWork
<1>2. IsService(v) /\ v.res = w.v.res /\ IsRange(d)
  BY <1>1 DEF IsWork, IsService, IsRange
<1>3. [w EXCEPT !.v.svc[n] = "open", !.d.vid = n, !.d.own = n] = o
  BY <1>1 DEF IsWork, IsRange
<1>4. OpenText(w, big) =
        IF VerifiesText(w.c) /\ big THEN SetState(w, {"Empty"}, "RejectedText")
        ELSE IF VerifiesText(w.c) THEN SetState(o, {"Empty"}, "TextAccumulate")
        ELSE SetState(o, {"Empty"}, "Text")
  BY <1>3 DEF OpenText
<1> HIDE DEF v, d, n
<1>5. Spares(w, o)
  BY <1>1, <1>2 DEF Spares, IsWork
<1> HIDE DEF o
<1>6. ASSUME NEW st \in {"TextAccumulate", "Text"}
      PROVE  Safe(c, res, SetState(o, {"Empty"}, st))
  <2> DEFINE u == SetState(o, {"Empty"}, st)
  <2>1. Spares(o, u) /\ u.x.st = st
    BY <1>5, SetStateEffect DEF Spares
  <2> HIDE DEF u
  <2>2. Spares(w, u) /\ u.x.st \notin Passing \cup Waiting
    BY <1>5, <2>1 DEF Spares, Passing, Waiting
  <2>3. Safe(c, res, u)
    BY <2>2, IdleSafe
  <2> QED BY <2>3 DEF u
<1>7. Safe(c, res, SetState(w, {"Empty"}, "RejectedText"))
  BY ToIdle DEF Passing, Waiting
<1> QED BY <1>4, <1>6, <1>7

LEMMA TextChunkSafe ==
  ASSUME NEW c, NEW res, NEW w, Safe(c, res, w), NEW first, NEW last, NEW big
  PROVE  Safe(c, res, TextChunk(w, first, last, big))
<1> DEFINE r == IF first THEN reset_nolock_data(w) ELSE w
           o == IF first THEN OpenText(r, big) ELSE r
<1>1. Safe(c, res, r)
  BY ResetNolockSafe
<1>2. TextChunk(w, first, last, big) =
        IF r.thrown THEN r
        ELSE CASE o.x.st = "Text" ->
                    IF last THEN InitEmpty(finalize_text_transfer(o)) ELSE o
               [] o.x.st = "TextAccumulate" ->
                    IF last THEN SetState(SendEof(o), {"TextAccumulate"},
                                          "WaitingTextValidator") ELSE o
               [] o.x.st = "RejectedText" -> IF last THEN InitEmpty(o) ELSE o
               [] o.x.st = "Empty" -> PassText(o)
               [] OTHER -> Asserted(o, FALSE)
  BY DEF TextChunk
<1> HIDE DEF r
<1>3. Safe(c, res, o) /\ IsWork(o)
  BY <1>1, OpenTextSafe, SafeIsWork
<1> HIDE DEF o
<1>4. Safe(c, res, InitEmpty(finalize_text_transfer(o))) /\ Safe(c, res, InitEmpty(o))
  BY <1>3, FinalizeTextKeeps, KeepsItself, EmptiedSafe
<1>5. Safe(c, res, PassText(o)) /\ Safe(c, res, Asserted(o, FALSE))
      /\ Safe(c, res, SendEof(o))
  BY <1>3, PassTextKeeps, AssertedKeeps, SendEofKeeps, KeepsSafe
<1>6. Safe(c, res, SetState(SendEof(o), {"TextAccumulate"},
                            "WaitingTextValidator"))
  BY <1>5, ToIdle DEF Passing, Waiting
<1> QED BY <1>1, <1>2, <1>3, <1>4, <1>5, <1>6

LEMMA FileListChunkSafe ==
  ASSUME NEW c, NEW res, NEW w, Safe(c, res, w), NEW first, NEW last, NEW files
  PROVE  Safe(c, res, FileListChunk(w, first, last, files))
<1> DEFINE r == IF first THEN reset_nolock_data(w) ELSE w
           f == [r EXCEPT !.x.files = files]
           x == [r.x EXCEPT !.files = files]
           l == [f EXCEPT
                   !.x.locks = Append(@, [lock |-> f.x.lid, files |-> files]),
                   !.x.files = << >>, !.x.lock = "LockIsUsed"]
           y == [f.x EXCEPT
                   !.locks = Append(@, [lock |-> f.x.lid, files |-> files]),
                   !.files = << >>, !.lock = "LockIsUsed"]
<1>1. Safe(c, res, r) /\ IsWork(r)
  BY ResetNolockSafe, SafeIsWork
<1>2. FileListChunk(w, first, last, files) =
        IF r.thrown THEN r ELSE IF last /\ f.x.lock = "HasLock" THEN l ELSE f
  BY DEF FileListChunk
<1> HIDE DEF r
<1>3. f = [r EXCEPT !.x = x]
  OBVIOUS
<1>4. IsContext(x) /\ x.st = r.x.st
  BY <1>1 DEF IsWork, IsContext
<1> HIDE DEF f, x
<1>5. Safe(c, res, f) /\ IsWork(f)
  BY <1>1, <1>3, <1>4, ContextKeeps, KeepsSafe, SafeIsWork
<1>6. l = [f EXCEPT !.x = y]
  BY <1>5 DEF IsWork, IsContext
<1>7. IsContext(y) /\ y.st = f.x.st
  BY <1>5 DEF IsWork, IsContext
<1> HIDE DEF l, y
<1>8. Safe(c, res, l)
  BY <1>5, <1>6, <1>7, ContextKeeps, KeepsSafe
<1> QED BY <1>1, <1>2, <1>5, <1>8

LEMMA DataChunkSafe ==
  ASSUME NEW c, NEW res, NEW w, Safe(c, res, w),
         NEW first, NEW last, NEW files, NEW big
  PROVE  Safe(c, res, DataChunk(w, first, last, files, big))
BY TextChunkSafe, FileListChunkSafe DEF DataChunk

----------------------------------------------------------------------------
(* The verdict on transfer n reaches a context. *)
LEMMA VerdictSafe ==
  ASSUME NEW c, NEW res, NEW w, Safe(c, res, w), NEW n \in Ids,
         NEW ok \in BOOLEAN, ok => res[n] = "accept"
  PROVE  Safe(c, res, process_clip(w, n, ok))
<1> DEFINE st == w.x.st
           u == dlp_update_file_rng(w, ok)
           f == close_file_rng_tfl(u)
           Unnamed(r) == IF r.d.vid = n THEN [r EXCEPT !.d.vid = 0] ELSE r
           x == [w.x EXCEPT !.ranges = {Unnamed(r) : r \in @}]
           t == [w EXCEPT !.x.ranges = {Unnamed(r) : r \in @}]
<1>1. IsWork(w) /\ n # 0
  BY SafeIsWork, SizesAssumption DEF Ids
<1>2. process_clip(w, n, ok) =
        CASE st = "TextAccumulate" ->
               IF ok THEN ReleaseText(w) ELSE RejectText(w)
          [] st = "WaitingTextValidator" ->
               IF ok THEN ReleaseText(w) ELSE InitEmpty(w)
          [] st = "Text" /\ w.d.vid = n -> InitEmpty(w)
          [] st \in {"GetRange", "Range", "WaitingContinuationRange"}
                 /\ w.d.vid = n -> u
          [] st = "WaitingFileValidator" /\ w.d.vid = n ->
               IF ok THEN SetState(filecontents_response_data(f),
                                   {"WaitingFileValidator"}, "SyncRange")
               ELSE InitEmpty(ZeroData(f))
          [] OTHER -> t
  BY DEF process_clip
<1>3. Safe(c, res, InitEmpty(w)) /\ Safe(c, res, RejectText(w))
  BY InitEmptySafe, ToIdle DEF RejectText, Passing, Waiting
<1>4. Safe(c, res, ReleaseText(w))
  <2> DEFINE y == [w.x EXCEPT !.clen = 0]
             k == [w EXCEPT !.x = y]
  <2>1. IsContext(y) /\ y.st = w.x.st
    BY <1>1 DEF IsWork, IsContext
  <2>2. ReleaseText(w) = InitEmpty(PassText(k))
    BY DEF ReleaseText
  <2> HIDE DEF y
  <2>3. Keeps(w, k) /\ IsWork(k)
    BY <1>1, <2>1, ContextKeeps DEF Keeps, Spares
  <2> HIDE DEF k
  <2>4. Keeps(w, PassText(k))
    BY <2>3, PassTextKeeps, KeepsInTurn
  <2> QED BY <2>2, <2>4, EmptiedSafe
<1>5. ASSUME st \in Passing \cup Waiting, w.d.vid = n
      PROVE  Safe(c, res, u) /\ u.x.st = st /\ IsWork(u) /\ (ok => Cleared(u))
  <2> DEFINE d == [w.d EXCEPT !.vid = 0,
                              !.verdict = IF ok THEN "Success" ELSE "Failure"]
  <2>1. u = [w EXCEPT !.d = d]
    BY <1>1 DEF dlp_update_file_rng, IsWork, IsRange
  <2>2. /\ IsRange(d) /\ d.own = w.d.own /\ d.vid = 0
        /\ d.verdict = "Success" => ok
    BY <1>1 DEF IsWork, IsRange
  <2> HIDE DEF d, u
  <2>3. /\ IsWork(u) /\ u.d = d /\ u.x = w.x /\ u.c = w.c /\ u.v = w.v
        /\ u.s = w.s
    BY <1>1, <2>1, <2>2 DEF IsWork
  <2>4. Verifies(c) /\ ok => Accepted(d, w.v)
    BY <1>1, <1>5, <2>2 DEF Safe, FileSafe, Passing, Waiting, Accepted
  <2>5. Verifies(c) /\ st \in Passing => Accepted(d, w.v)
    BY <2>2 DEF Safe, FileSafe, Accepted
  <2>6. FileSafe(c, u.x.st, u.d, u.v)
    BY <2>2, <2>3, <2>4, <2>5 DEF FileSafe
  <2> QED BY <2>3, <2>4, <2>6 DEF Safe, Cleared
<1>6. ASSUME st = "WaitingFileValidator", w.d.vid = n
      PROVE  /\ Safe(c, res, InitEmpty(ZeroData(f)))
             /\ ok => Safe(c, res, SetState(filecontents_response_data(f),
                                       {"WaitingFileValidator"}, "SyncRange"))
  <2>1. Safe(c, res, u) /\ IsWork(u) /\ (ok => Cleared(u))
    BY <1>5, <1>6 DEF Waiting
  <2> HIDE DEF u
  <2>2. Keeps(u, f) /\ IsWork(f)
    BY <2>1, CloseTflKeeps DEF Keeps, Spares
  <2> HIDE DEF f
  <2>3. Safe(c, res, f) /\ (ok => Cleared(f))
    BY <2>1, <2>2, KeepsSafe, KeepsCleared
  <2>4. Safe(c, res, InitEmpty(ZeroData(f)))
    BY <2>2, <2>3, ZeroDataKeeps, EmptiedSafe
  <2>5. ASSUME ok
        PROVE  Safe(c, res, SetState(filecontents_response_data(f),
                                     {"WaitingFileValidator"}, "SyncRange"))
    <3> DEFINE p == filecontents_response_data(f)
    <3>1. Keeps(f, p)
      BY <2>3, <2>5, ResponseDataKeeps
    <3> HIDE DEF p
    <3>2. Safe(c, res, p) /\ Cleared(p)
      BY <2>3, <2>5, <3>1, KeepsSafe, KeepsCleared
    <3>3. Safe(c, res, SetState(p, {"WaitingFileValidator"}, "SyncRange"))
      BY <3>2, ToPassing DEF Passing
    <3> QED BY <3>3 DEF p
  <2> QED BY <2>4, <2>5
<1>7. Safe(c, res, t)
  <2>1. t = [w EXCEPT !.x = x]
    OBVIOUS
  <2>2. \A r \in w.x.ranges : IsLocked(Unnamed(r))
    BY <1>1 DEF IsWork, IsContext, IsLocked, IsRange
  <2> HIDE DEF Unnamed
  <2>3. IsContext(x) /\ x.st = w.x.st
    BY <1>1, <2>2 DEF IsWork, IsContext
  <2> HIDE DEF x, t
  <2> QED BY <1>1, <2>1, <2>3, ContextKeeps, KeepsSafe
<1>8. st \in {"GetRange", "Range", "WaitingContinuationRange"} /\ w.d.vid = n
        => Safe(c, res, u)
  BY <1>5 DEF Passing, Waiting
<1> HIDE DEF u, f, t
<1> QED BY <1>2, <1>3, <1>4, <1>6, <1>7, <1>8

----------------------------------------------------------------------------
(* The state between two messages, while the channel lives: the transfer of
   each context is safe, and nothing is verified while the sides can lock. *)
Living ==
    /\ ctx = [c \in Sides |-> ctx[c]] /\ data = [c \in Sides |-> data[c]]
    /\ \A c \in Sides : IsContext(ctx[c]) /\ IsRange(data[c])
    /\ IsService(valid) /\ valid.res = [n \in Ids |-> valid.res[n]]
    /\ IsSeen(seen)
    /\ \A c \in Sides : FileSafe(c, ctx[c].st, data[c], valid)
    /\ can_lock => opt.vfile = {}

ClipInv == seen.file = FALSE /\ (phase # "closed" => Living)

LEMMA InitHolds == Init => ClipInv
<1> SUFFICES ASSUME Init PROVE Living /\ seen.file = FALSE
  BY DEF ClipInv
<1>1. seen.file = FALSE /\ IsSeen(seen)
  BY DEF Init, IsSeen
<1>2. IsService(valid) /\ valid.res = [n \in Ids |-> valid.res[n]]
  BY DEF Init, IsService
<1>3. can_lock => opt.vfile = {}
  BY OptionsAssumption DEF Init
<1>4. IsContext([NoContext EXCEPT
                   !.lock = IF opt.locking THEN "Enabled" ELSE "Disabled"])
  BY DEF NoContext, IsContext
<1>5. ASSUME NEW c \in Sides
      PROVE  /\ IsContext(ctx[c]) /\ ctx[c].st = "Empty"
             /\ IsRange(data[c])
  <2>1. ctx[c] = [NoContext EXCEPT
                    !.lock = IF opt.locking THEN "Enabled" ELSE "Disabled"]
    BY DEF Init
  <2>2. data[c] = NoRange
    BY DEF Init
  <2> QED BY <1>4, <2>1, <2>2 DEF NoRange, IsRange, NoContext
<1>6. ctx = [c \in Sides |-> ctx[c]] /\ data = [c \in Sides |-> data[c]]
  BY DEF Init
<1> QED BY <1>1, <1>2, <1>3, <1>5, <1>6 DEF Living, FileSafe, Passing, Waiting

LEMMA WorkSafe ==
  ASSUME ClipInv, Living, NEW c \in Sides
  PROVE  Safe(c, valid.res, Work(c))
<1>1. /\ Work(c) \in [c : {c}, x : {ctx[c]}, d : {data[c]}, v : {valid},
                      s : {seen}, thrown : {FALSE}]
      /\ Work(c).c = c /\ Work(c).x = ctx[c] /\ Work(c).d = data[c]
      /\ Work(c).v = valid /\ Work(c).s = seen
  BY DEF Work
<1> QED BY <1>1 DEF ClipInv, Living, Safe, IsWork

(* What a handler leaves when it is done. *)
LEMMA ApplyHolds ==
  ASSUME ClipInv, Living, Running, NEW c \in Sides,
         NEW res, res = [n \in Ids |-> res[n]],
         \A n \in Ids : valid.res[n] = "accept" => res[n] = "accept",
         NEW w, Safe(c, res, w), Apply(w), can_lock' => opt.vfile = {}
  PROVE  ClipInv'
<1>1. IsWork(w) /\ w.c = c /\ w.v.res = res /\ w.s.file = FALSE
      /\ FileSafe(c, w.x.st, w.d, w.v)
  BY DEF Safe
<1>2. /\ ctx' = [ctx EXCEPT ![c] = w.x] /\ data' = [data EXCEPT ![c] = w.d]
      /\ valid' = w.v /\ seen' = w.s /\ opt' = opt
  BY <1>1 DEF Apply
<1>3. /\ ctx' = [k \in Sides |-> ctx'[k]] /\ data' = [k \in Sides |-> data'[k]]
      /\ ctx'[c] = w.x /\ data'[c] = w.d
      /\ \A k \in Sides \ {c} : ctx'[k] = ctx[k] /\ data'[k] = data[k]
  BY <1>2 DEF Living
<1>4. IsService(valid)' /\ (valid.res = [n \in Ids |-> valid.res[n]])'
      /\ IsSeen(seen)' /\ seen'.file = FALSE
  BY <1>1, <1>2 DEF IsWork, IsService, IsSeen
<1>5. \A k \in Sides : IsContext(ctx[k])' /\ IsRange(data[k])'
  <2> TAKE k \in Sides
  <2>1. CASE k = c
    BY <1>1, <1>3, <2>1 DEF IsWork, IsContext, IsLocked, IsRange
  <2>2. CASE k # c
    BY <1>3, <2>2 DEF Living, IsContext, IsLocked, IsRange
  <2> QED BY <2>1, <2>2
<1>6. \A k \in Sides : FileSafe(k, ctx[k].st, data[k], valid)'
  <2> TAKE k \in Sides
  <2>1. CASE k = c
    BY <1>1, <1>2, <1>3, <2>1 DEF FileSafe, Accepted, Verifies
  <2>2. CASE k # c
    BY <1>1, <1>2, <1>3, <2>2 DEF Living, FileSafe, Accepted, Verifies
  <2> QED BY <2>1, <2>2
<1> QED BY <1>2, <1>3, <1>4, <1>5, <1>6 DEF ClipInv, Living

(* The common case: the answers of the service are those it knew. *)
LEMMA HandlerHolds ==
  ASSUME ClipInv, Running, NEW c \in Sides,
         NEW w, Safe(c, valid.res, w), Apply(w), can_lock' => opt.vfile = {}
  PROVE  ClipInv'
<1>1. Living
  BY DEF ClipInv, Running
<1>2. valid.res = [n \in Ids |-> valid.res[n]]
  BY <1>1 DEF Living
<1> QED BY <1>1, <1>2, ApplyHolds

(* A step that only changes fields of the context but its state. *)
LEMMA FieldHolds ==
  ASSUME ClipInv, Running, NEW c \in Sides, NEW x, IsContext(x), x.st = ctx[c].st,
         ctx' = [ctx EXCEPT ![c] = x],
         UNCHANGED <<opt, data, can_lock, valid, msg, phase, seen>>
  PROVE  ClipInv'
<1>1. Living
  BY DEF ClipInv, Running
<1>2. /\ ctx' = [k \in Sides |-> ctx'[k]] /\ ctx'[c] = x
      /\ \A k \in Sides \ {c} : ctx'[k] = ctx[k]
  BY <1>1 DEF Living
<1>3. \A k \in Sides : IsContext(ctx[k])' /\ IsRange(data[k])'
  <2> TAKE k \in Sides
  <2>1. CASE k = c
    BY <1>1, <1>2, <2>1 DEF Living, IsContext, IsLocked, IsRange
  <2>2. CASE k # c
    BY <1>1, <1>2, <2>2 DEF Living, IsContext, IsLocked, IsRange
  <2> QED BY <2>1, <2>2
<1>4. \A k \in Sides : FileSafe(k, ctx[k].st, data[k], valid)'
  <2> TAKE k \in Sides
  <2>1. ctx'[k].st = ctx[k].st
    BY <1>2
  <2> QED BY <1>1, <2>1 DEF Living, FileSafe, Accepted, Verifies
<1>5. IsService(valid)' /\ IsSeen(seen)'
  BY <1>1 DEF Living, IsService, IsSeen
<1> QED BY <1>1, <1>2, <1>3, <1>4, <1>5 DEF ClipInv, Living

LEMMA CapsHolds ==
  ASSUME ClipInv, NEW c \in Sides, NEW b, clip_caps(c, b)
  PROVE  ClipInv'
<1> DEFINE can == b /\ opt.vfile = {}
           w == [reset_clip(Work(c)) EXCEPT
                   !.x.lock = IF can THEN "Enabled" ELSE "Disabled"]
<1>1. Running /\ Apply(w) /\ (can_lock' => opt.vfile = {})
  BY DEF clip_caps
<1>2. Safe(c, valid.res, Work(c))
  BY <1>1, WorkSafe DEF ClipInv, Running
<1>3. Safe(c, valid.res, w)
  BY <1>2, ResetClipSafe
<1> HIDE DEF w
<1> QED BY <1>1, <1>3, HandlerHolds

LEMMA FormatListHolds ==
  ASSUME ClipInv, NEW c \in Sides, NEW complete, NEW hasFiles,
         format_list(c, complete, hasFiles)
  PROVE  ClipInv'
<1> DEFINE w == Work(c)
           f == [w EXCEPT !.x.flist = FALSE, !.x.files = << >>,
                          !.x.lock = UnsetLock(w.x)]
           x == [w.x EXCEPT !.flist = FALSE, !.files = << >>,
                            !.lock = UnsetLock(w.x)]
           t == stop_nolock_data(f)
           g == [t EXCEPT !.x.flist = hasFiles]
           y == [t.x EXCEPT !.flist = hasFiles]
           u == IF ~complete THEN w ELSE IF opt.auth = {} THEN f ELSE g
<1>1. Running /\ Apply(u) /\ can_lock' = can_lock
  BY DEF format_list, Active
<1>2. Living
  BY <1>1 DEF ClipInv, Running
<1>3. Safe(c, valid.res, w) /\ IsWork(w)
  BY <1>2, WorkSafe, SafeIsWork
<1> HIDE DEF w
<1>4. IsContext(x) /\ x.st = w.x.st
  BY <1>3 DEF IsWork, IsContext
<1>5. f = [w EXCEPT !.x = x]
  BY <1>3 DEF IsWork, IsContext
<1> HIDE DEF f, x
<1>6. Safe(c, valid.res, f)
  BY <1>3, <1>4, <1>5, ContextKeeps, KeepsSafe
<1>7. Safe(c, valid.res, t) /\ IsWork(t)
  BY <1>6, StopNolockSafe, SafeIsWork
<1>8. g = [t EXCEPT !.x = y]
  OBVIOUS
<1> HIDE DEF t
<1>9. IsContext(y) /\ y.st = t.x.st
  BY <1>7 DEF IsWork, IsContext
<1> HIDE DEF g, y
<1>10. Safe(c, valid.res, g)
  BY <1>7, <1>8, <1>9, ContextKeeps, KeepsSafe
<1>11. Safe(c, valid.res, u)
  BY <1>3, <1>6, <1>10
<1> HIDE DEF u
<1> QED BY <1>1, <1>2, <1>11, HandlerHolds DEF Living

LEMMA LockHolds ==
  ASSUME ClipInv, NEW c \in Sides, NEW l, lock(c, l)
  PROVE  ClipInv'
<1> DEFINE a == Asserted(Work(c), ctx[c].lock # "Disabled")
           u == [a EXCEPT !.x.lid = l, !.x.lock = "HasLock"]
           x == [a.x EXCEPT !.lid = l, !.lock = "HasLock"]
<1>1. Running /\ Apply(u) /\ can_lock' = can_lock
  BY DEF lock, Active
<1>2. Living
  BY <1>1 DEF ClipInv, Running
<1>3. Safe(c, valid.res, Work(c)) /\ IsWork(Work(c))
  BY <1>2, WorkSafe, SafeIsWork
<1>4. Safe(c, valid.res, a) /\ IsWork(a)
  BY <1>3, AssertedKeeps, KeepsSafe, SafeIsWork
<1> HIDE DEF a
<1>5. IsContext(x) /\ x.st = a.x.st
  BY <1>4 DEF IsWork, IsContext
<1>6. u = [a EXCEPT !.x = x]
  BY <1>4 DEF IsWork, IsContext
<1> HIDE DEF x, u
<1>7. Safe(c, valid.res, u)
  BY <1>4, <1>5, <1>6, ContextKeeps, KeepsSafe
<1> QED BY <1>1, <1>2, <1>7, HandlerHolds DEF Living

LEMMA UnlockHolds ==
  ASSUME ClipInv, NEW c \in Sides, NEW l, unlock(c, l)
  PROVE  ClipInv'
<1> DEFINE w == Work(c)
           current == w.x.lock \in {"HasLock", "LockIsUsed"} /\ w.x.lid = l
           on == [w EXCEPT !.x.lock = "Enabled"]
           x == [w.x EXCEPT !.lock = "Enabled"]
           b == BreakRanges(w, {r \in w.x.ranges : r.lock = l})
           off == [b EXCEPT !.x.locks = EraseLock(@, l),
                            !.x.sizes = {z \in @ : z.lock # l}]
           y == [b.x EXCEPT !.locks = EraseLock(@, l),
                            !.sizes = {z \in @ : z.lock # l}]
           u == IF current THEN on ELSE off
           t == [u EXCEPT !.x.slot = IF @.lock = l THEN NoSlot ELSE @]
           z1 == [u.x EXCEPT !.slot = IF @.lock = l THEN NoSlot ELSE @]
<1>1. Running /\ Apply(t) /\ can_lock' = can_lock
  BY ZenonT(60) DEF unlock, Active
<1>2. Living
  BY <1>1 DEF ClipInv, Running
<1>3. Safe(c, valid.res, w) /\ IsWork(w)
  BY <1>2, WorkSafe, SafeIsWork
<1> HIDE DEF w, current
<1>4. Safe(c, valid.res, on)
  <2>1. IsContext(x) /\ x.st = w.x.st
    BY <1>3 DEF IsWork, IsContext
  <2>2. on = [w EXCEPT !.x = x]
    OBVIOUS
  <2> HIDE DEF x, on
  <2> QED BY <1>3, <2>1, <2>2, ContextKeeps, KeepsSafe
<1>5. Safe(c, valid.res, b) /\ IsWork(b)
  BY <1>3, BreakRangesKeeps, KeepsSafe, SafeIsWork
<1> HIDE DEF b
<1>6. Safe(c, valid.res, off)
  <2>1. IsContext(y) /\ y.st = b.x.st
    BY <1>5 DEF IsWork, IsContext
  <2>2. off = [b EXCEPT !.x = y]
    BY <1>5 DEF IsWork, IsContext
  <2> HIDE DEF y, off
  <2> QED BY <1>5, <2>1, <2>2, ContextKeeps, KeepsSafe
<1> HIDE DEF on, off
<1>7. Safe(c, valid.res, u) /\ IsWork(u)
  <2>1. Safe(c, valid.res, u)
    BY <1>4, <1>6
  <2> HIDE DEF u
  <2> QED BY <2>1, SafeIsWork
<1> HIDE DEF u
<1>8. Safe(c, valid.res, t)
  <2>1. IsContext(z1) /\ z1.st = u.x.st
    BY <1>7 DEF IsWork, IsContext
  <2>2. t = [u EXCEPT !.x = z1]
    BY <1>7 DEF IsWork, IsContext
  <2> HIDE DEF z1, t
  <2> QED BY <1>7, <2>1, <2>2, ContextKeeps, KeepsSafe
<1> HIDE DEF t
<1> QED BY <1>1, <1>2, <1>8, HandlerHolds DEF Living

LEMMA FieldsHold ==
  ASSUME ClipInv, NEW c \in Sides, NEW f,
         \/ format_list_response(c)
         \/ format_data_request(c, f)
         \/ format_data_response_fail(c)
  PROVE  ClipInv'
<1>1. Running /\ UNCHANGED <<opt, data, can_lock, valid, msg, phase, seen>>
  BY DEF format_list_response, format_data_request, format_data_response_fail,
         Active
<1>2. IsContext(ctx[c])
  BY <1>1 DEF ClipInv, Living, Running
<1> DEFINE l == [ctx[c] EXCEPT !.flist = FALSE]
           q == [ctx[c] EXCEPT !.fmt = f,
                   !.cut = @ \/ ctx[c].owed \/ ctx[c].asked # {}]
           n == [ctx[c] EXCEPT !.fmt = "none"]
<1>3. \/ ctx' = [ctx EXCEPT ![c] = l]
      \/ ctx' = [ctx EXCEPT ![c] = q]
      \/ ctx' = [ctx EXCEPT ![c] = n]
  <2>1. CASE format_list_response(c)
    BY <2>1 DEF format_list_response
  <2>2. CASE format_data_request(c, f)
    <3>1. ctx' = [ctx EXCEPT ![c].fmt = f,
                             ![c].cut = @ \/ ctx[c].owed \/ ctx[c].asked # {}]
      BY <2>2 DEF format_data_request
    <3>2. [ctx EXCEPT ![c].fmt = f,
                      ![c].cut = @ \/ ctx[c].owed \/ ctx[c].asked # {}]
            = [ctx EXCEPT ![c] = q]
      BY <1>1, <1>2 DEF ClipInv, Living, Running, IsContext
    <3> QED BY <3>1, <3>2
  <2>3. CASE format_data_response_fail(c)
    BY <2>3 DEF format_data_response_fail
  <2> QED BY <2>1, <2>2, <2>3
<1>4. IsContext(l) /\ IsContext(q) /\ IsContext(n)
      /\ l.st = ctx[c].st /\ q.st = ctx[c].st /\ n.st = ctx[c].st
  BY <1>2 DEF IsContext
<1> HIDE DEF l, q, n
<1> QED BY <1>1, <1>3, <1>4, FieldHolds

LEMMA DataResponseHolds ==
  ASSUME ClipInv, NEW c \in Sides, NEW first, NEW last, NEW files, NEW big,
         format_data_response(c, first, last, files, big)
  PROVE  ClipInv'
<1> DEFINE w == DataChunk(Work(c), first, last, files, big)
           u == [w EXCEPT !.x.fmt = IF last /\ ~w.thrown THEN "none" ELSE @]
           x == [w.x EXCEPT !.fmt = IF last /\ ~w.thrown THEN "none" ELSE @]
<1>1. Running /\ Apply(u) /\ can_lock' = can_lock
  BY DEF format_data_response, Active
<1>2. Living
  BY <1>1 DEF ClipInv, Running
<1>3. Safe(c, valid.res, w) /\ IsWork(w)
  BY <1>2, WorkSafe, DataChunkSafe, SafeIsWork
<1> HIDE DEF w
<1>4. IsContext(x) /\ x.st = w.x.st
  BY <1>3 DEF IsWork, IsContext
<1>5. u = [w EXCEPT !.x = x]
  BY <1>3 DEF IsWork, IsContext
<1> HIDE DEF x, u
<1>6. Safe(c, valid.res, u)
  BY <1>3, <1>4, <1>5, ContextKeeps, KeepsSafe
<1> QED BY <1>1, <1>2, <1>6, HandlerHolds DEF Living

LEMMA RequestHolds ==
  ASSUME ClipInv, NEW c \in Sides, NEW q, filecontents_request(c, q)
  PROVE  ClipInv'
<1> DEFINE w == [Work(c) EXCEPT !.x.cut = @ \/ ctx[c].owed \/ ctx[c].fmt # "none"]
           x == [Work(c).x EXCEPT !.cut = @ \/ ctx[c].owed \/ ctx[c].fmt # "none"]
           u == IF ~can_lock THEN NoLockRequest(w, q)
                ELSE IF q.lock = 0 THEN w ELSE LockedRequest(w, q)
<1>1. Running /\ Apply(u) /\ can_lock' = can_lock
  BY DEF filecontents_request, Active
<1>2. Living
  BY <1>1 DEF ClipInv, Running
<1>3. Safe(c, valid.res, Work(c)) /\ IsWork(Work(c))
  BY <1>2, WorkSafe, SafeIsWork
<1>4. IsContext(x) /\ x.st = Work(c).x.st
  BY <1>3 DEF IsWork, IsContext
<1>5. w = [Work(c) EXCEPT !.x = x]
  OBVIOUS
<1> HIDE DEF x, w
<1>6. Safe(c, valid.res, w)
  BY <1>3, <1>4, <1>5, ContextKeeps, KeepsSafe
<1>7. Safe(c, valid.res, u)
  BY <1>6, NoLockRequestSafe, LockedRequestSafe
<1> HIDE DEF u
<1> QED BY <1>1, <1>2, <1>7, HandlerHolds DEF Living

LEMMA ResponseHolds ==
  ASSUME ClipInv, NEW c \in Sides, NEW q, NEW ok, NEW n, NEW last, NEW total,
         filecontents_response(c, q, ok, n, last, total)
  PROVE  ClipInv'
<1> DEFINE w == [Work(c) EXCEPT !.x.asked = IF last THEN @ \ {q} ELSE @]
           x == [Work(c).x EXCEPT !.asked = IF last THEN @ \ {q} ELSE @]
           u == IF can_lock THEN LockedResponse(w, q.sid, ok, n, last, total)
                ELSE IF ok THEN NoLockResponse(w, q.sid, n, last, total)
                ELSE NoLockFail(w)
<1>1. Running /\ Apply(u) /\ can_lock' = can_lock
  BY DEF filecontents_response, Active
<1>2. Living
  BY <1>1 DEF ClipInv, Running
<1>3. Safe(c, valid.res, Work(c)) /\ IsWork(Work(c))
  BY <1>2, WorkSafe, SafeIsWork
<1>4. IsContext(x) /\ x.st = Work(c).x.st
  BY <1>3 DEF IsWork, IsContext
<1>5. w = [Work(c) EXCEPT !.x = x]
  OBVIOUS
<1> HIDE DEF x, w
<1>6. Safe(c, valid.res, w)
  BY <1>3, <1>4, <1>5, ContextKeeps, KeepsSafe
<1>7. can_lock => ~Verifies(w.c)
  BY <1>2 DEF Living, Verifies
<1>8. Safe(c, valid.res, u)
  BY <1>6, <1>7, LockedResponseSafe, NoLockResponseSafe, NoLockFailSafe
<1> HIDE DEF u
<1> QED BY <1>1, <1>2, <1>8, HandlerHolds DEF Living

LEMMA VerdictHolds ==
  ASSUME ClipInv, NEW n \in Ids, NEW ok \in BOOLEAN,
         DLP_antivirus_check_channels_files(n, ok)
  PROVE  ClipInv'
<1> DEFINE v == Answer(valid, n, ok)
           with == {c \in Sides : Concerns(c, n)}
           c == IF "client" \in with THEN "client" ELSE "server"
           s == Rejected(seen, n, ok)
           w == [Work(c) EXCEPT !.v = v, !.s = s]
           listed == n \in v.texts \/ \E e \in v.files : e.id = n
<1>1. Running /\ valid.res[n] = "none" /\ can_lock' = can_lock
  BY DEF DLP_antivirus_check_channels_files
<1>2. Living
  BY <1>1 DEF ClipInv, Running
<1>3. \/ /\ listed
         /\ valid' = IF n \in v.texts THEN [v EXCEPT !.texts = @ \ {n}]
                     ELSE process_listed(v, n, ok)
         /\ seen' = s
         /\ UNCHANGED <<opt, ctx, data, phase>>
      \/ valid' = v /\ UNCHANGED <<opt, ctx, data, phase, seen>>
      \/ Apply(process_clip(w, n, ok))
  BY DEF DLP_antivirus_check_channels_files
<1>4. c \in Sides
  BY DEF Sides
<1> HIDE DEF with, c
<1>5. /\ IsService(v) /\ v.res = [k \in Ids |-> v.res[k]]
      /\ ok => v.res[n] = "accept"
      /\ \A k \in Ids : valid.res[k] = "accept" => v.res[k] = "accept"
  BY <1>1, <1>2 DEF Living, IsService, Answer
<1>6. IsSeen(s) /\ s.file = FALSE
  BY <1>2 DEF ClipInv, Living, Rejected, IsSeen
<1> HIDE DEF v, s, listed
<1>7. ASSUME IsService(valid)', valid'.res = v.res, IsSeen(seen)',
             seen'.file = FALSE, UNCHANGED <<opt, ctx, data, phase>>
      PROVE  ClipInv'
  <2>1. \A k \in Sides : FileSafe(k, ctx[k].st, data[k], valid)'
    BY <1>2, <1>5, <1>7 DEF Living, FileSafe, Accepted, Verifies
  <2>2. \A k \in Sides : IsContext(ctx[k])' /\ IsRange(data[k])'
    BY <1>2, <1>7 DEF Living, IsContext, IsRange, IsLocked
  <2> QED BY <1>1, <1>2, <1>5, <1>7, <2>1, <2>2 DEF ClipInv, Living
<1>8. CASE /\ listed
           /\ valid' = IF n \in v.texts THEN [v EXCEPT !.texts = @ \ {n}]
                       ELSE process_listed(v, n, ok)
           /\ seen' = s
           /\ UNCHANGED <<opt, ctx, data, phase>>
  <2>1. IsService(valid)' /\ valid'.res = v.res
    BY <1>5, <1>8 DEF IsService, process_listed
  <2>2. IsSeen(seen)' /\ seen'.file = FALSE
    BY <1>6, <1>8 DEF IsSeen
  <2> QED BY <1>7, <1>8, <2>1, <2>2
<1>9. CASE valid' = v /\ UNCHANGED <<opt, ctx, data, phase, seen>>
  <2>1. IsService(valid)' /\ valid'.res = v.res
    BY <1>5, <1>9 DEF IsService
  <2>2. IsSeen(seen)' /\ seen'.file = FALSE
    BY <1>2, <1>9 DEF ClipInv, Living, IsSeen
  <2> QED BY <1>7, <1>9, <2>1, <2>2
<1>10. CASE Apply(process_clip(w, n, ok))
  <2>1. Safe(c, v.res, w)
    <3>1. Safe(c, valid.res, Work(c)) /\ Work(c).x = ctx[c] /\ Work(c).d = data[c]
      BY <1>2, <1>4, WorkSafe DEF Work
    <3>2. /\ IsWork(w) /\ w.c = c /\ w.x = ctx[c] /\ w.d = data[c] /\ w.v = v
          /\ w.s = s
      BY <1>5, <1>6, <3>1 DEF Safe, IsWork
    <3> HIDE DEF w
    <3>3. FileSafe(c, w.x.st, w.d, w.v)
      BY <1>2, <1>4, <1>5, <3>2 DEF Living, FileSafe, Accepted
    <3> QED BY <1>6, <3>2, <3>3 DEF Safe
  <2> HIDE DEF w
  <2>2. Safe(c, v.res, process_clip(w, n, ok))
    BY <1>5, <2>1, VerdictSafe
  <2> DEFINE u == process_clip(w, n, ok)
             res == v.res
  <2>3. /\ Safe(c, res, u) /\ Apply(u)
        /\ res = [k \in Ids |-> res[k]]
        /\ \A k \in Ids : valid.res[k] = "accept" => res[k] = "accept"
        /\ can_lock' => opt.vfile = {}
    BY <1>1, <1>2, <1>5, <1>10, <2>2 DEF Living
  <2> HIDE DEF u, res
  <2> QED BY <1>1, <1>2, <1>4, <2>3, ApplyHolds
<1> QED BY <1>3, <1>8, <1>9, <1>10

LEMMA NextHolds == ClipInv /\ [Next]_vars => ClipInv'
<1> SUFFICES ASSUME ClipInv, [Next]_vars PROVE ClipInv'
  OBVIOUS
<1>1. ASSUME NEW c \in Sides, NEW b \in BOOLEAN, clip_caps(c, b)
      PROVE  ClipInv'
  BY <1>1, CapsHolds
<1>2. ASSUME NEW c \in Sides, NEW complete \in BOOLEAN, NEW hasFiles \in BOOLEAN,
             format_list(c, complete, hasFiles)
      PROVE  ClipInv'
  BY <1>2, FormatListHolds
<1>3. ASSUME NEW c \in Sides, format_list_response(c)
      PROVE  ClipInv'
  BY <1>3, FieldsHold
<1>4. ASSUME NEW c \in Sides, NEW l \in Locks, lock(c, l) \/ unlock(c, l)
      PROVE  ClipInv'
  BY <1>4, LockHolds, UnlockHolds
<1>5. ASSUME NEW c \in Sides, NEW f \in opt.formats, format_data_request(c, f)
      PROVE  ClipInv'
  BY <1>5, FieldsHold
<1>6. ASSUME NEW c \in Sides, format_data_response_fail(c)
      PROVE  ClipInv'
  BY <1>6, FieldsHold
<1>7. ASSUME NEW c \in Sides, NEW first \in BOOLEAN, NEW last \in BOOLEAN,
             NEW big \in BOOLEAN, NEW fs \in opt.lists \cup {<< >>},
             format_data_response(c, first, last, fs, big)
      PROVE  ClipInv'
  BY <1>7, DataResponseHolds
<1>8. ASSUME NEW c \in Sides, NEW q \in Requests, filecontents_request(c, q)
      PROVE  ClipInv'
  BY <1>8, RequestHolds
<1>9. ASSUME NEW c \in Sides, NEW q \in ctx[c].asked, NEW ok \in BOOLEAN,
             NEW last \in BOOLEAN, NEW total \in 0 .. MaxFile \cup Sizes,
             NEW n \in 0 .. MaxFile,
             filecontents_response(c, q, ok, n, last, total)
      PROVE  ClipInv'
  BY <1>9, ResponseHolds
<1>10. ASSUME NEW n \in Ids, NEW ok \in BOOLEAN,
              DLP_antivirus_check_channels_files(n, ok)
       PROVE  ClipInv'
  BY <1>10, VerdictHolds
<1>11. CASE Destructor
  BY <1>11 DEF Destructor, ClipInv
<1>12. CASE UNCHANGED vars
  <2>1. Living => Living'
    BY <1>12 DEF vars, Living, FileSafe, Accepted, Verifies, IsContext, IsLocked,
                 IsRange, IsService, IsSeen
  <2> QED BY <1>12, <2>1 DEF vars, ClipInv
<1> QED BY <1>1, <1>2, <1>3, <1>4, <1>5, <1>6, <1>7, <1>8, <1>9, <1>10, <1>11,
           <1>12 DEF Next

(* With block_invalid_file, no unit of a file goes to the other side before
   the service accepted that very file: whatever the two sides send, in
   whatever order, early and late verdicts, locks and capabilities that change
   during a transfer, and for every configuration of the channel. *)
THEOREM FilesAreVerified == Spec => []FileVerified
<1>1. Init => ClipInv
  BY InitHolds
<1>2. ClipInv /\ [Next]_vars => ClipInv'
  BY NextHolds
<1>3. ClipInv => FileVerified
  BY DEF ClipInv, FileVerified
<1> QED BY <1>1, <1>2, <1>3, PTL DEF Spec

----------------------------------------------------------------------------
(* Who holds an identifier of the validator service and a recording, what the *)
(* assertions of the handlers rely on, and how a response that was announced  *)
(* ends: what the handlers do to the context they serve.  The state they      *)
(* leave is the matter of ClipboardOwnershipProofs.                           *)

(* Rejected files keep their recording: the condition of RejectedKept. *)
Keeping(o) == o.always \/ Faithful(o)

----------------------------------------------------------------------------
(* The numbers other transfers have (own), and those of a recording (tfl) or
   an identifier (vid) they hold; keep: recordings of rejected files. *)
OfRanges(rs) ==
    [own |-> {r.d.own : r \in rs}, tfl |-> {r.d.tfl : r \in rs} \ {0},
     vid |-> {r.d.vid : r \in rs} \ {0}, keep |-> {}]

Plus(o, d) ==
    [own |-> o.own \cup ({d.own} \ {0}), tfl |-> o.tfl \cup ({d.tfl} \ {0}),
     vid |-> o.vid \cup ({d.vid} \ {0}),
     keep |-> o.keep \cup (IF d.verdict = "Failure" THEN {d.tfl} \ {0} ELSE {})]

Numbered(o, v) ==
    /\ o.tfl \cup o.vid \subseteq o.own /\ o.own \subseteq Ids /\ o.keep \subseteq o.tfl
    /\ \A n \in o.own : v.svc[n] # "free"

(* A transfer holds nothing but its own number. *)
Linked(d) ==
    /\ d.own \in {0} \cup Ids /\ d.tfl \in {0, d.own} /\ d.vid \in {0, d.own}
    /\ d.vid # 0 => d.verdict = "Wait"

Services(v) ==
    /\ v.svc = [n \in Ids |-> v.svc[n]] /\ v.tfl = [n \in Ids |-> v.tfl[n]]
    /\ \A n \in Ids : v.svc[n] = "free" => v.res[n] = "none"

IsListed(v, n) == n \in v.texts \/ \E e \in v.files : e.id = n

(* The entries of the two lists. *)
Listing(d, v, o) ==
    /\ v.texts \subseteq Ids
    /\ \A n \in v.texts : n # d.vid /\ n \notin o.vid /\ v.tfl[n] # "open"
    /\ \A e \in v.files :
         /\ e = [id |-> e.id, tfl |-> e.tfl] /\ e.id \in Ids /\ e.tfl \in {0, e.id}
         /\ e.id # d.vid /\ e.id # d.tfl
         /\ e.id \notin o.vid /\ e.id \notin o.tfl /\ e.id \notin v.texts
    /\ \A e, f \in v.files : e.id = f.id => e = f

(* A recording is open when somebody holds it. *)
Recorded(d, v, o) ==
    \A n \in Ids : v.tfl[n] = "open" <=>
        n = d.tfl \/ n \in o.tfl \/ \E e \in v.files : e.tfl = n

(* An identifier somebody holds is known to the service, and one whose verdict
   is to come is held. *)
Identified(d, v, o) ==
    /\ \A n \in Ids : n = d.vid \/ n \in o.vid \/ IsListed(v, n)
         => v.svc[n] \in {"open", "eof"}
    /\ Faithful(opt) =>
         \A n \in Ids : v.svc[n] \in {"open", "eof"} /\ v.res[n] = "none"
           => n = d.vid \/ n \in o.vid \/ IsListed(v, n)

(* The recordings of rejected files that are not stored yet will be. *)
Kept(d, v, keep, o) ==
    Keeping(opt) =>
      /\ keep \subseteq Ids
      /\ \A n \in keep : \/ v.tfl[n] = "stored"
                         \/ v.tfl[n] = "open" /\
                              (\/ opt.always \/ n \in o.keep
                               \/ n = d.tfl /\ d.verdict = "Failure")

Held(d, v, keep, o) ==
    /\ Numbered(o, v) /\ Linked(d) /\ d.own \notin o.own
    /\ (d.own # 0 => v.svc[d.own] # "free")
    /\ Services(v) /\ Listing(d, v, o)
    /\ Recorded(d, v, o) /\ Identified(d, v, o) /\ Kept(d, v, keep, o)

----------------------------------------------------------------------------
(* What the state of a transfer says of it. *)
Holding == {"GetRange", "WaitingFileValidator", "RequestedSyncRange",
            "SyncRange", "Range", "WaitingContinuationRange"}
Signing == {"GetRange", "RequestedSyncRange", "Range", "WaitingContinuationRange"}
Texts == {"Text", "TextAccumulate", "WaitingTextValidator"}

Naturals_(x, d) ==
    /\ x.clen \in Nat /\ x.cpos \in Nat /\ x.resp \in Nat /\ x.files \in Seq(Nat)
    /\ d.off \in Nat /\ d.req \in Nat /\ d.size \in Nat /\ d.first \in Nat

Settled(c, st, d, v) ==
    /\ st \notin Holding => d.tfl = 0 /\ d.verdict = "Wait"
    /\ d.vid # 0 => st \in Validating \cup {"RejectedText"}
    /\ st \in Texts \cup {"WaitingFileValidator"} => d.vid # 0
    /\ st = "GetRange" => d.vid # 0 \/ d.verdict \in {"Success", "Failure"}
    /\ st \in Texts \ {"Text"} => VerifiesText(c)
    /\ st = "Text" => ~VerifiesText(c)
    /\ st \in Waiting \cup {"SyncRange", "RequestedSyncRange"} => Verifies(c)
    /\ st \in Signing => d.sig = "Update"
    /\ st = "WaitingFileValidator" => d.sig = "Final"
    /\ st \in {"Range", "WaitingContinuationRange", "GetRange", "Text", "TextAccumulate"}
         /\ d.vid # 0 => v.svc[d.vid] = "open"
    /\ Faithful(opt) /\ d.vid # 0 => (v.res[d.vid] = "none" <=> st # "RejectedText")

(* The buffer of a transfer that is verified before it is passed on; left is
   what is still to come of the response. *)
Buffered(x, d, left) ==
    /\ x.st \in Waiting => x.cpos = 0 /\ d.off = x.clen
    /\ x.st = "WaitingFileValidator" => x.resp <= x.clen
    /\ x.st = "GetRange" => x.resp <= x.clen + MinOf(left, d.req)
    /\ x.st = "SyncRange" => d.off = x.clen /\ x.cpos <= x.clen
    /\ Calm(opt) /\ x.st = "Size" => d.file \in DOMAIN x.files
    /\ x.st \in {"SyncRange", "WaitingContinuationRange"} /\ d.sig = "Update"
         => d.off < d.size
    /\ x.st = "RequestedSyncRange" /\ d.first # 0 => d.req <= d.first

(* A response whose header was sent. *)
Answering(c, x, d) ==
    /\ ~Verifies(c) => ~x.owed
    /\ Verifies(c) =>
         /\ x.owed => \/ x.st \in Waiting \/ x.cut
                      \/ x.st = "Empty" /\ d.size > MaxFile
         /\ x.fmt # "none" /\ (x.owed \/ x.st = "RequestedRange") => x.cut
         /\ x.st = "RequestedRange" => x.asked # {}
         /\ x.st \in {"RequestedRange", "GetRange"} =>
              \A a \in x.asked : a.sid = d.sid => a.range

Ranges(x, v) ==
    \A r \in x.ranges :
      /\ Linked(r.d) /\ r.d.own # 0 /\ r.d.verdict = "Wait" /\ r.d.sig = "Update"
      /\ r.d.vid # 0 => v.svc[r.d.vid] = "open"

LockList(x) ==
    /\ x.locks \in Seq([lock : Locks, files : Seq(Nat)])
    /\ \A z \in x.sizes : HasLock(x.locks, z.lock)
    /\ x.lock = "HasLock" => x.lid \in Locks
    /\ x.slot.len \in Nat /\ x.slot.size \in Nat

----------------------------------------------------------------------------
AllRanges == ctx["client"].ranges \cup ctx["server"].ranges
Others(c) == Plus(OfRanges(AllRanges), data[Peer(c)])
Left(c) == IF msg[c].kind = "file" THEN msg[c].left ELSE 0

Distinct ==
    /\ \A r, q \in AllRanges : r.d.own = q.d.own => r = q
    /\ ctx["client"].ranges \cap ctx["server"].ranges = {}

(* Between two chunks of a text or of a list of files. *)
Between(c) ==
    msg[c].kind = "fmt" =>
      /\ c \in opt.auth /\ ctx[c].fmt # "none"
      /\ ctx[c].fmt = "text" /\ c \in opt.text =>
           /\ ctx[c].st \in {"Text", "TextAccumulate", "RejectedText", "Empty",
                              "Size", "RequestedRange"}
           /\ ~opt.overlap => ctx[c].st \notin {"Size", "RequestedRange"}
           /\ Faithful(opt) /\ VerifiesText(c)
              /\ ctx[c].st \in {"Empty", "Size", "RequestedRange"} =>
                data[c].own \in Ids /\ valid.res[data[c].own] = "accept"
      /\ ctx[c].fmt = "files" /\ ctx[c].flist /\ ~opt.overlap => ctx[c].st = "Empty"

OwnInv == phase # "closed" =>
    /\ \A c \in Sides :
         /\ Held(data[c], valid, seen.keep, Others(c))
         /\ Settled(c, ctx[c].st, data[c], valid)
         /\ Ranges(ctx[c], valid)
         /\ c \notin opt.active => ctx[c].st = "Empty" /\ ctx[c].ranges = {}
         /\ opt.auth = {} => ctx[c].files = << >> /\ ctx[c].st = "Empty"
         /\ Unlocked(opt) => ctx[c].ranges = {} /\ ctx[c].lock # "HasLock"
         /\ can_lock => ctx[c].lock # "Disabled"
    /\ Distinct
    /\ Unlocked(opt) => ~can_lock

RunInv == phase = "run" =>
    \A c \in Sides : /\ Naturals_(ctx[c], data[c])
                     /\ Buffered(ctx[c], data[c], Left(c))
                     /\ Answering(c, ctx[c], data[c])
                     /\ LockList(ctx[c])
                     /\ Between(c)
CalmAsserts == Calm(opt) => ~seen.assertion
FaithfulText == Faithful(opt) => ~seen.text

----------------------------------------------------------------------------
(* The numbers of a transfer decide what it holds. *)
LEMMA HeldSame ==
  ASSUME NEW d, NEW e, NEW v, NEW k, NEW o, Held(d, v, k, o),
         e.own = d.own, e.tfl = d.tfl, e.vid = d.vid, e.verdict = d.verdict
  PROVE  Held(e, v, k, o)
BY DEF Held, Linked, Listing, Recorded, Identified, Kept

(* What a change of the service leaves to the others. *)
Elsewhere(v, u, o) == u.res = v.res /\ \A n \in o.own : u.svc[n] = v.svc[n]

(* The same, when a verdict arrives that is not for the others. *)
Away(v, u, o) ==
    /\ \A n \in o.own : u.svc[n] = v.svc[n]
    /\ Faithful(opt) => \A n \in o.vid : u.res[n] = v.res[n]
    /\ \A n \in Ids : v.res[n] = "accept" => u.res[n] = "accept"

LEMMA ElsewhereAway ==
  ASSUME NEW v, NEW u, NEW o, Elsewhere(v, u, o)
  PROVE  Away(v, u, o)
BY DEF Elsewhere, Away

LEMMA ElsewhereInTurn ==
  ASSUME NEW v, NEW u, NEW t, NEW o, Elsewhere(v, u, o), Elsewhere(u, t, o)
  PROVE  Elsewhere(v, t, o)
BY DEF Elsewhere

LEMMA EofHeld ==
  ASSUME NEW d, NEW v, NEW u, NEW k, NEW o, Held(d, v, k, o), d.vid # 0,
         u.svc = [v.svc EXCEPT ![d.vid] = "eof"], u.tfl = v.tfl, u.res = v.res,
         u.files = v.files, u.texts = v.texts
  PROVE  Held(d, u, k, o) /\ Elsewhere(v, u, o) /\ u.svc[d.vid] = "eof"
<1>1. d.vid \in Ids /\ d.vid = d.own /\ d.vid \notin o.own
  BY DEF Held, Linked
<1>2. v.svc = [n \in Ids |-> v.svc[n]]
  BY DEF Held, Services
<1>3. \A n \in Ids : u.svc[n] = IF n = d.vid THEN "eof" ELSE v.svc[n]
  BY <1>1, <1>2
<1>4. v.svc[d.vid] \in {"open", "eof"}
  BY <1>1 DEF Held, Identified
<1>5. Services(u)
  <2>1. u.svc = [n \in Ids |-> u.svc[n]]
    BY <1>2
  <2> QED BY <2>1, <1>3, <1>4 DEF Held, Services
<1>6. Numbered(o, u) /\ (d.own # 0 => u.svc[d.own] # "free")
  BY <1>1, <1>3 DEF Held, Numbered
<1>7. Listing(d, u, o) /\ Recorded(d, u, o) /\ Kept(d, u, k, o)
  BY DEF Held, Listing, Recorded, Kept
<1>8. Identified(d, u, o)
  BY <1>3, <1>4 DEF Held, Identified, IsListed
<1>9. Elsewhere(v, u, o)
  BY <1>1, <1>3 DEF Held, Numbered, Elsewhere
<1> QED BY <1>1, <1>3, <1>5, <1>6, <1>7, <1>8, <1>9 DEF Held

LEMMA AbortHeld ==
  ASSUME NEW d, NEW e, NEW v, NEW u, NEW k, NEW o, Held(d, v, k, o), d.vid # 0,
         u.svc = [v.svc EXCEPT ![d.vid] = "abort"], u.tfl = v.tfl, u.res = v.res,
         u.files = v.files, u.texts = v.texts,
         e.own = d.own, e.tfl = d.tfl, e.vid = 0, e.verdict = d.verdict
  PROVE  Held(e, u, k, o) /\ Elsewhere(v, u, o)
<1>1. d.vid \in Ids /\ d.vid = d.own /\ d.vid \notin o.own
  BY DEF Held, Linked
<1>2. v.svc = [n \in Ids |-> v.svc[n]]
  BY DEF Held, Services
<1>3. \A n \in Ids : u.svc[n] = IF n = d.vid THEN "abort" ELSE v.svc[n]
  BY <1>1, <1>2
<1>4. v.svc[d.vid] \in {"open", "eof"}
  BY <1>1 DEF Held, Identified
<1>5. Services(u)
  <2>1. u.svc = [n \in Ids |-> u.svc[n]]
    BY <1>2
  <2> QED BY <2>1, <1>3, <1>4 DEF Held, Services
<1>6. Numbered(o, u) /\ (e.own # 0 => u.svc[e.own] # "free")
  BY <1>1, <1>3 DEF Held, Numbered
<1>7. Listing(e, u, o) /\ Recorded(e, u, o) /\ Kept(e, u, k, o)
  <2>1. \A f \in v.files : f.id \in Ids
    BY DEF Held, Listing
  <2>2. 0 \notin Ids
    BY DEF Ids
  <2> QED BY <2>1, <2>2 DEF Held, Listing, Recorded, Kept
<1>8. Identified(e, u, o)
  <2>1. d.vid \notin o.vid
    BY <1>1 DEF Held, Numbered
  <2>2. ~IsListed(v, d.vid)
    BY DEF Held, Listing, IsListed
  <2>3. \A n \in Ids : IsListed(u, n) <=> IsListed(v, n)
    BY DEF IsListed
  <2>4. 0 \notin Ids
    BY DEF Ids
  <2> QED BY <1>1, <1>3, <2>1, <2>2, <2>3, <2>4 DEF Held, Identified
<1>9. Elsewhere(v, u, o)
  BY <1>1, <1>3 DEF Held, Numbered, Elsewhere
<1>10. Linked(e) /\ e.own \notin o.own
  BY DEF Held, Linked
<1> QED BY <1>5, <1>6, <1>7, <1>8, <1>9, <1>10 DEF Held

LEMMA CloseHeld ==
  ASSUME NEW d, NEW e, NEW v, NEW u, NEW k, NEW o, NEW y, Held(d, v, k, o),
         d.tfl # 0, y # "open",
         opt.always \/ d.verdict = "Failure" => y = "stored",
         u.tfl = [v.tfl EXCEPT ![d.tfl] = y], u.svc = v.svc, u.res = v.res,
         u.files = v.files, u.texts = v.texts,
         e.own = d.own, e.tfl = 0, e.vid = d.vid, e.verdict = d.verdict
  PROVE  Held(e, u, k, o) /\ Elsewhere(v, u, o)
<1>1. d.tfl \in Ids /\ d.tfl = d.own /\ d.tfl \notin o.own /\ d.tfl \notin o.tfl
  BY DEF Held, Linked, Numbered
<1>2. v.tfl = [n \in Ids |-> v.tfl[n]]
  BY DEF Held, Services
<1>3. \A n \in Ids : u.tfl[n] = IF n = d.tfl THEN y ELSE v.tfl[n]
  BY <1>1, <1>2
<1>4. Services(u)
  <2>1. u.tfl = [n \in Ids |-> u.tfl[n]]
    BY <1>2
  <2> QED BY <2>1 DEF Held, Services
<1>5. 0 \notin Ids
  BY DEF Ids
<1>6. \A f \in v.files : f.id \in Ids /\ f.tfl # d.tfl
  BY <1>1, <1>5 DEF Held, Listing
<1>7. Listing(e, u, o)
  BY <1>1, <1>3, <1>5, <1>6 DEF Held, Listing
<1>8. Recorded(e, u, o)
  BY <1>1, <1>3, <1>5, <1>6 DEF Held, Recorded
<1>9. Identified(e, u, o)
  BY DEF Held, Identified, IsListed
<1>10. Kept(e, u, k, o)
  <2> SUFFICES ASSUME Keeping(opt)
               PROVE  /\ k \subseteq Ids
                      /\ \A n \in k :
                            \/ u.tfl[n] = "stored"
                            \/ u.tfl[n] = "open" /\ (opt.always \/ n \in o.keep)
    BY DEF Kept
  <2>1. o.keep \subseteq o.tfl
    BY DEF Held, Numbered
  <2>2. SUFFICES ASSUME NEW n \in k
                 PROVE  \/ u.tfl[n] = "stored"
                        \/ u.tfl[n] = "open" /\ (opt.always \/ n \in o.keep)
    BY DEF Held, Kept
  <2>3. n \in Ids /\ (\/ v.tfl[n] = "stored"
                      \/ v.tfl[n] = "open" /\
                              (\/ opt.always \/ n \in o.keep
                               \/ n = d.tfl /\ d.verdict = "Failure"))
    BY DEF Held, Kept
  <2>4. v.tfl[d.tfl] = "open"
    BY <1>1 DEF Held, Recorded
  <2> QED BY <1>1, <1>3, <2>1, <2>3, <2>4
<1>11. Numbered(o, u) /\ Linked(e) /\ e.own \notin o.own
       /\ (e.own # 0 => u.svc[e.own] # "free") /\ Elsewhere(v, u, o)
  BY DEF Held, Linked, Numbered, Elsewhere
<1> QED BY <1>4, <1>7, <1>8, <1>9, <1>10, <1>11 DEF Held

LEMMA ListedHeld ==
  ASSUME NEW d, NEW e, NEW v, NEW u, NEW k, NEW o, Held(d, v, k, o), d.vid # 0,
         u.files = v.files \cup {[id |-> d.vid, tfl |-> d.tfl]},
         u.svc = v.svc, u.tfl = v.tfl, u.res = v.res, u.texts = v.texts,
         e.own = d.own, e.tfl = 0, e.vid = 0, e.verdict = d.verdict
  PROVE  Held(e, u, k, o) /\ Elsewhere(v, u, o)
<1> DEFINE f == [id |-> d.vid, tfl |-> d.tfl]
<1>1. d.vid \in Ids /\ d.vid = d.own /\ d.vid \notin o.own
      /\ d.vid \notin o.tfl /\ d.vid \notin o.vid /\ d.tfl \in {0, d.vid}
      /\ d.verdict = "Wait"
  BY DEF Held, Linked, Numbered
<1>2. /\ f.id = d.vid /\ f.tfl = d.tfl /\ f = [id |-> f.id, tfl |-> f.tfl]
      /\ u.files = v.files \cup {f}
  OBVIOUS
<1> HIDE DEF f
<1>3. 0 \notin Ids
  BY DEF Ids
<1>4. \A g \in v.files : g.id # f.id /\ g.id \in Ids
  BY <1>2 DEF Held, Listing
<1>5. Listing(e, u, o)
  <2>1. \A g \in u.files : g \in v.files \/ g = f
    BY <1>2
  <2>2. \A g \in v.files :
         /\ g = [id |-> g.id, tfl |-> g.tfl] /\ g.id \in Ids /\ g.tfl \in {0, g.id}
         /\ g.id # 0
         /\ g.id \notin o.vid /\ g.id \notin o.tfl /\ g.id \notin u.texts
    BY <1>3 DEF Held, Listing
  <2>3. f.id \notin v.texts
    BY <1>2 DEF Held, Listing
  <2>4. u.texts \subseteq Ids
        /\ \A n \in u.texts : n # 0 /\ n \notin o.vid /\ u.tfl[n] # "open"
    BY <1>3 DEF Held, Listing
  <2>5. \A g, h \in v.files : g.id = h.id => g = h
    BY DEF Held, Listing
  <2> QED BY <1>1, <1>2, <1>3, <1>4, <2>1, <2>2, <2>3, <2>4, <2>5 DEF Listing
<1>6. Recorded(e, u, o)
  <2>1. \A n \in Ids : (\E g \in u.files : g.tfl = n)
                        <=> n = d.tfl \/ \E g \in v.files : g.tfl = n
    BY <1>2
  <2> QED BY <2>1, <1>3 DEF Held, Recorded
<1>7. Identified(e, u, o)
  <2>1. \A n \in Ids : IsListed(u, n) <=> n = d.vid \/ IsListed(v, n)
    BY <1>2 DEF IsListed
  <2> QED BY <2>1, <1>3 DEF Held, Identified
<1>8. Kept(e, u, k, o)
  BY <1>1 DEF Held, Kept
<1>9. Numbered(o, u) /\ Linked(e) /\ e.own \notin o.own /\ Services(u)
      /\ (e.own # 0 => u.svc[e.own] # "free") /\ Elsewhere(v, u, o)
  BY DEF Held, Linked, Numbered, Services, Elsewhere
<1> QED BY <1>5, <1>6, <1>7, <1>8, <1>9 DEF Held

(* A text whose verdict is left to the list. *)
LEMMA TextListedHeld ==
  ASSUME NEW d, NEW e, NEW v, NEW u, NEW k, NEW o, Held(d, v, k, o), d.vid # 0,
         d.tfl = 0, u.texts = v.texts \cup {d.vid},
         u.svc = v.svc, u.tfl = v.tfl, u.res = v.res, u.files = v.files,
         e.own \in {0, d.own}, e.tfl = 0, e.vid = 0
  PROVE  Held(e, u, k, o) /\ Elsewhere(v, u, o)
<1>1. d.vid \in Ids /\ d.vid = d.own /\ d.vid \notin o.own
      /\ d.vid \notin o.tfl /\ d.vid \notin o.vid
  BY DEF Held, Linked, Numbered
<1>2. 0 \notin Ids
  BY DEF Ids
<1>3. \A g \in v.files : g.id # d.vid /\ g.tfl # d.vid /\ g.id \in Ids
  BY <1>1, <1>2 DEF Held, Listing
<1>4. v.tfl[d.vid] # "open"
  BY <1>1, <1>2, <1>3 DEF Held, Recorded
<1>5. Listing(e, u, o)
  BY <1>1, <1>2, <1>3, <1>4 DEF Held, Listing
<1>6. Recorded(e, u, o)
  BY DEF Held, Recorded
<1>7. Identified(e, u, o)
  <2>1. \A n \in Ids : IsListed(u, n) <=> n = d.vid \/ IsListed(v, n)
    BY DEF IsListed
  <2> QED BY <2>1, <1>2 DEF Held, Identified
<1>8. Kept(e, u, k, o)
  <2>1. Keeping(opt) => k \subseteq Ids
    BY DEF Held, Kept
  <2> QED BY <1>2, <2>1 DEF Held, Kept
<1>9. Linked(e) /\ e.own \notin o.own /\ (e.own # 0 => u.svc[e.own] # "free")
  <2>1. 0 \notin o.own
    BY <1>2 DEF Held, Numbered
  <2> QED BY <1>1, <2>1 DEF Held, Linked
<1>10. Numbered(o, u) /\ Services(u) /\ Elsewhere(v, u, o)
  BY DEF Held, Numbered, Services, Elsewhere
<1> QED BY <1>5, <1>6, <1>7, <1>8, <1>9, <1>10 DEF Held

(* A transfer that is over: its recording is given up and its verdict, if it
   was to come, came. *)
LEMMA OverHeld ==
  ASSUME NEW d, NEW e, NEW v, NEW k, NEW o, Held(d, v, k, o), d.tfl = 0,
         Faithful(opt) /\ d.vid # 0 => v.res[d.vid] # "none",
         e.own \in {0, d.own}, e.tfl = 0, e.vid = 0
  PROVE  Held(e, v, k, o)
<1>1. 0 \notin Ids /\ 0 \notin o.own
  BY DEF Ids, Held, Numbered
<1>2. Listing(e, v, o)
  BY <1>1 DEF Held, Listing
<1>3. Recorded(e, v, o)
  BY DEF Held, Recorded
<1>4. Identified(e, v, o)
  BY <1>1 DEF Held, Identified
<1>5. Kept(e, v, k, o)
  <2>1. Keeping(opt) => k \subseteq Ids
    BY DEF Held, Kept
  <2> QED BY <1>1, <2>1 DEF Held, Kept
<1>6. Linked(e) /\ e.own \notin o.own /\ (e.own # 0 => v.svc[e.own] # "free")
  BY <1>1 DEF Held, Linked
<1> QED BY <1>2, <1>3, <1>4, <1>5, <1>6 DEF Held

(* A transfer that begins, with a number nobody has. *)
LEMMA LeastNatural ==
  ASSUME NEW T, T \subseteq Nat, T # {}
  PROVE  \E n \in T : \A m \in T : n <= m
<1>1. IsWellFoundedOn(OpToRel(<, Nat), Nat)
  BY NatLessThanWellFounded
<1>2. PICK n \in T : \A m \in T : ~(<<m, n>> \in OpToRel(<, Nat))
  BY <1>1, WFMin
<1>3. \A m \in T : n <= m
  <2> SUFFICES ASSUME NEW m \in T, m < n PROVE FALSE
    OBVIOUS
  <2> DEFINE p == <<m, n>>
  <2>1. p \in Nat \X Nat /\ p[1] = m /\ p[2] = n
    OBVIOUS
  <2>2. p \notin OpToRel(<, Nat)
    BY <1>2
  <2> HIDE DEF p
  <2>3. p \in {q \in Nat \X Nat : q[1] < q[2]}
    BY <2>1
  <2> QED BY <2>2, <2>3 DEF OpToRel
<1> QED BY <1>3

LEMMA FreshIsNew ==
  ASSUME NEW v, Fresh(v) # {}
  PROVE  /\ NewId(v) \in Ids
         /\ v.svc[NewId(v)] = "free" /\ v.tfl[NewId(v)] = "free"
<1>1. Fresh(v) \subseteq Nat
  BY SizesAssumption DEF Fresh, Ids
<1>2. PICK n \in Fresh(v) : \A m \in Fresh(v) : n <= m
  BY <1>1, LeastNatural
<1>3. NewId(v) \in Fresh(v)
  BY <1>2 DEF NewId, Min
<1> QED BY <1>3 DEF Fresh

(* u is v with new entries for n. *)
Opens(v, u, n) ==
    /\ u.svc = [j \in Ids |-> u.svc[j]] /\ u.tfl = [j \in Ids |-> u.tfl[j]]
    /\ \A j \in Ids \ {n} : u.svc[j] = v.svc[j] /\ u.tfl[j] = v.tfl[j]
    /\ u.res = v.res /\ u.files = v.files /\ u.texts = v.texts

LEMMA BeginsHeld ==
  ASSUME NEW d, NEW e, NEW v, NEW u, NEW k, NEW o, Held(d, v, k, o),
         d.tfl = 0, d.vid = 0, NEW n \in Ids, v.svc[n] = "free", v.tfl[n] = "free",
         Opens(v, u, n), u.svc[n] \in {"open", "none"},
         e.own = n, e.vid \in {0, n}, e.tfl \in {0, n}, e.verdict = "Wait",
         u.svc[n] = "open" <=> e.vid = n, u.tfl[n] = "open" <=> e.tfl = n
  PROVE  Held(e, u, k, o) /\ Elsewhere(v, u, o)
<1>2. /\ \A j \in Ids \ {n} : u.svc[j] = v.svc[j] /\ u.tfl[j] = v.tfl[j]
      /\ u.res = v.res /\ u.files = v.files /\ u.texts = v.texts
      /\ u.svc[n] # "free"
  BY DEF Opens
<1>3. u.svc = [j \in Ids |-> u.svc[j]] /\ u.tfl = [j \in Ids |-> u.tfl[j]]
  BY DEF Opens
<1>4. 0 \notin Ids
  BY DEF Ids
<1>5. n \notin o.own /\ n \notin o.tfl /\ n \notin o.vid
  BY DEF Held, Numbered
<1>6. ~IsListed(v, n) /\ \A f \in v.files : f.id # n /\ f.tfl # n /\ f.id \in Ids
  BY <1>4 DEF Held, Identified, Listing, IsListed
<1>7. Numbered(o, u) /\ Elsewhere(v, u, o)
  BY <1>2, <1>5 DEF Held, Numbered, Elsewhere
<1>8. Linked(e) /\ e.own \notin o.own /\ (e.own # 0 => u.svc[e.own] # "free")
  BY <1>2, <1>5 DEF Linked
<1>9. Services(u)
  <2>1. \A j \in Ids : v.svc[j] = "free" => v.res[j] = "none"
    BY DEF Held, Services
  <2>2. \A j \in Ids : u.svc[j] = "free" => u.res[j] = "none"
    BY <1>2, <2>1
  <2> QED BY <1>3, <2>2 DEF Services
<1>10. Listing(e, u, o)
  BY <1>2, <1>4, <1>5, <1>6 DEF Held, Listing, IsListed
<1>11. Recorded(e, u, o)
  BY <1>2, <1>4, <1>5, <1>6 DEF Held, Recorded
<1>12. Identified(e, u, o)
  <2>1. \A j \in Ids : IsListed(u, j) <=> IsListed(v, j)
    BY <1>2 DEF IsListed
  <2> QED BY <1>2, <1>4, <1>5, <1>6, <2>1 DEF Held, Identified
<1>13. Kept(e, u, k, o)
  BY <1>2, <1>4 DEF Held, Kept
<1> QED BY <1>7, <1>8, <1>9, <1>10, <1>11, <1>12, <1>13 DEF Held

----------------------------------------------------------------------------
(* A handler at work, o being what the others hold. *)
Owned(w, o) == IsWork(w) /\ Held(w.d, w.v, w.s.keep, o)

(* No assertion failed on the way. *)
Sound(w, u) == ~w.s.assertion => ~u.s.assertion

SameSeen(w, u) ==
    u.s.file = w.s.file /\ u.s.text = w.s.text /\ u.s.keep = w.s.keep

(* The fields of a transfer but its identifier, recording and signature. *)
SameFile(d, e) ==
    /\ e.own = d.own /\ e.verdict = d.verdict /\ e.sid = d.sid /\ e.file = d.file
    /\ e.off = d.off /\ e.first = d.first /\ e.req = d.req /\ e.size = d.size

(* What is said to the service and done to the recording on the way to the
   end of a transfer. *)
Moves(w, u, o) ==
    /\ Owned(u, o) /\ u.c = w.c /\ u.x = w.x /\ u.thrown = w.thrown
    /\ SameSeen(w, u) /\ SameFile(w.d, u.d) /\ Elsewhere(w.v, u.v, o)
    /\ Fresh(w.v) \subseteq Fresh(u.v)

LEMMA MovesItself ==
  ASSUME NEW w, NEW o, Owned(w, o)
  PROVE  Moves(w, w, o)
BY DEF Moves, SameSeen, SameFile, Elsewhere

LEMMA MovesInTurn ==
  ASSUME NEW w, NEW u, NEW t, NEW o, Moves(w, u, o), Moves(u, t, o)
  PROVE  Moves(w, t, o)
BY DEF Moves, SameSeen, SameFile, Elsewhere

LEMMA SoundInTurn ==
  ASSUME NEW w, NEW u, NEW t, Sound(w, u), Sound(u, t)
  PROVE  Sound(w, t)
BY DEF Sound

(* A change of the service and the transfer alone. *)
LEMMA ChangeMoves ==
  ASSUME NEW w, NEW o, Owned(w, o), NEW v, IsService(v), Elsewhere(w.v, v, o),
         Fresh(w.v) \subseteq Fresh(v), NEW d, IsRange(d), SameFile(w.d, d),
         Held(d, v, w.s.keep, o)
  PROVE  LET u == [w EXCEPT !.v = v, !.d = d]
         IN  Moves(w, u, o) /\ u.v = v /\ u.d = d /\ Sound(w, u)
<1> DEFINE u == [w EXCEPT !.v = v, !.d = d]
<1>1. /\ IsWork(u) /\ u.c = w.c /\ u.x = w.x /\ u.thrown = w.thrown
      /\ u.v = v /\ u.d = d /\ u.s = w.s
  BY DEF Owned, IsWork
<1> HIDE DEF u
<1> QED BY <1>1 DEF Moves, Owned, SameSeen, Sound, u

LEMMA AssertedMoves ==
  ASSUME NEW w, NEW o, Owned(w, o), NEW p
  PROVE  LET u == Asserted(w, p)
         IN  /\ Moves(w, u, o) /\ u.d = w.d /\ u.v = w.v
             /\ p => Sound(w, u)
<1> DEFINE s == [w.s EXCEPT !.assertion = @ \/ ~p]
           u == Asserted(w, p)
<1>1. /\ IsSeen(s) /\ s.file = w.s.file /\ s.text = w.s.text
      /\ s.keep = w.s.keep /\ (p /\ ~w.s.assertion => ~s.assertion)
  BY DEF Owned, IsWork, IsSeen
<1>2. u = [w EXCEPT !.s = s]
  BY DEF Asserted
<1> HIDE DEF s, u
<1>3. /\ IsWork(u) /\ u.c = w.c /\ u.x = w.x /\ u.thrown = w.thrown
      /\ u.v = w.v /\ u.d = w.d /\ u.s = s
  BY <1>1, <1>2 DEF Owned, IsWork
<1> QED BY <1>1, <1>3 DEF Moves, Owned, SameSeen, SameFile, Elsewhere, Sound, u

LEMMA MovedOwned ==
  ASSUME NEW w, NEW u, NEW o, Moves(w, u, o)
  PROVE  Owned(u, o)
BY DEF Moves

LEMMA SigMoves ==
  ASSUME NEW w, NEW o, Owned(w, o)
  PROVE  /\ LET u == SigBroken(w)
            IN  /\ Moves(w, u, o) /\ u.v = w.v /\ u.d.tfl = w.d.tfl
                /\ u.d.vid = w.d.vid /\ u.d.sig = "Broken"
                /\ w.d.sig = "Update" => Sound(w, u)
         /\ LET u == SigFinal(w)
            IN  /\ Moves(w, u, o) /\ u.v = w.v /\ u.d.tfl = w.d.tfl
                /\ u.d.vid = w.d.vid /\ u.d.sig = "Final"
                /\ w.d.sig = "Update" => Sound(w, u)
<1>1. ASSUME NEW g
      PROVE  LET u == [Asserted(w, w.d.sig = "Update") EXCEPT !.d.sig = g]
             IN  /\ Moves(w, u, o) /\ u.v = w.v /\ u.d.tfl = w.d.tfl
                 /\ u.d.vid = w.d.vid /\ u.d.sig = g
                 /\ w.d.sig = "Update" => Sound(w, u)
  <2> DEFINE a == Asserted(w, w.d.sig = "Update")
             d == [w.d EXCEPT !.sig = g]
             u == [a EXCEPT !.d.sig = g]
             t == [a EXCEPT !.v = a.v, !.d = d]
  <2>1. /\ Moves(w, a, o) /\ a.d = w.d /\ a.v = w.v
        /\ w.d.sig = "Update" => Sound(w, a)
    BY AssertedMoves
  <2> HIDE DEF a
  <2>2. /\ IsRange(d) /\ SameFile(w.d, d) /\ d.tfl = w.d.tfl /\ d.vid = w.d.vid
        /\ d.sig = g
    BY DEF Owned, IsWork, IsRange, SameFile
  <2>3. u = t
    BY <2>1 DEF Moves, Owned, IsWork
  <2> HIDE DEF d, u, t
  <2>4. Owned(a, o) /\ IsService(a.v) /\ Elsewhere(a.v, a.v, o)
        /\ SameFile(a.d, d) /\ Held(d, a.v, a.s.keep, o)
    <3>1. Held(a.d, a.v, a.s.keep, o)
      BY <2>1 DEF Moves, Owned
    <3>2. Held(d, a.v, a.s.keep, o)
      BY <2>1, <2>2, <3>1, HeldSame DEF SameFile
    <3> QED BY <2>1, <2>2, <3>2 DEF Moves, Owned, IsWork, Elsewhere
  <2>5. Moves(a, t, o) /\ t.v = a.v /\ t.d = d /\ Sound(a, t)
    BY <2>2, <2>4, ChangeMoves DEF t
  <2>6. Moves(w, u, o) /\ (w.d.sig = "Update" => Sound(w, u))
    BY <2>1, <2>3, <2>5, MovesInTurn, SoundInTurn
  <2> QED BY <2>1, <2>2, <2>3, <2>5, <2>6 DEF u, a
<1> QED BY <1>1 DEF SigBroken, SigFinal

LEMMA EofMoves ==
  ASSUME NEW w, NEW o, Owned(w, o), w.d.vid # 0
  PROVE  LET u == SendEof(w)
         IN  /\ Moves(w, u, o) /\ u.d = w.d /\ u.v.svc[w.d.vid] = "eof"
             /\ w.v.svc[w.d.vid] = "open" => Sound(w, u)
<1> DEFINE a == Asserted(w, w.v.svc[w.d.vid] = "open")
           v == [w.v EXCEPT !.svc[w.d.vid] = "eof"]
           u == SendEof(w)
           t == [a EXCEPT !.v = v, !.d = a.d]
<1>1. /\ Moves(w, a, o) /\ a.d = w.d /\ a.v = w.v
      /\ w.v.svc[w.d.vid] = "open" => Sound(w, a)
  BY AssertedMoves
<1>2. u = [a EXCEPT !.v.svc[w.d.vid] = "eof"]
  BY DEF SendEof
<1> HIDE DEF a, u
<1>3. u = t
  BY <1>1, <1>2 DEF Moves, Owned, IsWork
<1>4. /\ IsService(v) /\ v.res = w.v.res /\ v.tfl = w.v.tfl
      /\ v.files = w.v.files /\ v.texts = w.v.texts
      /\ v.svc = [w.v.svc EXCEPT ![w.d.vid] = "eof"]
  BY DEF Owned, IsWork, IsService
<1> HIDE DEF v, t
<1>5. Held(w.d, v, w.s.keep, o) /\ Elsewhere(w.v, v, o)
      /\ v.svc[w.d.vid] = "eof"
  <2> DEFINE e == w.d
             z == w.v
             k == w.s.keep
  <2>1. /\ Held(e, z, k, o) /\ e.vid # 0
        /\ v.res = z.res /\ v.tfl = z.tfl /\ v.files = z.files
        /\ v.texts = z.texts /\ v.svc = [z.svc EXCEPT ![e.vid] = "eof"]
    BY <1>4 DEF Owned
  <2> HIDE DEF e, z, k
  <2>2. Held(e, v, k, o) /\ Elsewhere(z, v, o) /\ v.svc[e.vid] = "eof"
    BY <2>1, EofHeld
  <2> QED BY <2>2 DEF e, z, k
<1>6. Owned(a, o) /\ IsRange(a.d) /\ SameFile(a.d, a.d)
      /\ Held(a.d, v, a.s.keep, o) /\ Elsewhere(a.v, v, o)
  BY <1>1, <1>5 DEF Moves, Owned, IsWork, SameFile, SameSeen
<1>8. Fresh(a.v) \subseteq Fresh(v)
  <2>1. w.d.vid \in Ids /\ w.v.svc[w.d.vid] # "free"
        /\ w.v.svc = [j \in Ids |-> w.v.svc[j]]
    BY DEF Owned, Held, Services, Linked, Identified
  <2>2. \A j \in Ids \ {w.d.vid} : v.svc[j] = w.v.svc[j] /\ v.tfl[j] = w.v.tfl[j]
    BY <1>4, <2>1
  <2> QED BY <1>1, <2>1, <2>2 DEF Fresh
<1>7. Moves(a, t, o) /\ t.v = v /\ t.d = a.d /\ Sound(a, t)
  BY <1>4, <1>6, <1>8, ChangeMoves DEF t
<1> QED BY <1>1, <1>3, <1>5, <1>7, MovesInTurn, SoundInTurn DEF u

LEMMA AbortMoves ==
  ASSUME NEW w, NEW o, Owned(w, o), w.d.vid # 0
  PROVE  LET u == SendAbort(w)
         IN  /\ Moves(w, u, o) /\ u.d.vid = 0 /\ u.d.tfl = w.d.tfl
             /\ u.d.sig = w.d.sig /\ Sound(w, u)
<1> DEFINE p == w.v.svc[w.d.vid] \in {"open", "eof"}
           a == Asserted(w, p)
           v == [w.v EXCEPT !.svc[w.d.vid] = "abort"]
           d == [w.d EXCEPT !.vid = 0]
           u == SendAbort(w)
           t == [a EXCEPT !.v = v, !.d = d]
<1>1. /\ Moves(w, a, o) /\ a.d = w.d /\ a.v = w.v /\ (p => Sound(w, a))
  BY AssertedMoves
<1>2. p
  BY DEF Owned, Held, Identified, Linked
<1>3. u = [a EXCEPT !.v.svc[w.d.vid] = "abort", !.d.vid = 0]
  BY DEF SendAbort
<1> HIDE DEF a, u
<1>4. u = t
  BY <1>1, <1>3 DEF Moves, Owned, IsWork
<1>5. /\ IsService(v) /\ v.res = w.v.res /\ v.tfl = w.v.tfl
      /\ v.files = w.v.files /\ v.texts = w.v.texts
      /\ v.svc = [w.v.svc EXCEPT ![w.d.vid] = "abort"]
  BY DEF Owned, IsWork, IsService
<1>6. /\ IsRange(d) /\ SameFile(w.d, d) /\ d.vid = 0 /\ d.tfl = w.d.tfl
      /\ d.sig = w.d.sig
  BY DEF Owned, IsWork, IsRange, SameFile
<1> HIDE DEF v, d, t
<1>7. Held(d, v, w.s.keep, o) /\ Elsewhere(w.v, v, o)
  BY <1>5, <1>6, AbortHeld DEF Owned, SameFile
<1>8. Owned(a, o) /\ SameFile(a.d, d)
      /\ Held(d, v, a.s.keep, o) /\ Elsewhere(a.v, v, o)
  BY <1>1, <1>6, <1>7 DEF Moves, SameSeen
<1>10. Fresh(a.v) \subseteq Fresh(v)
  <2>1. w.d.vid \in Ids /\ w.v.svc[w.d.vid] # "free"
        /\ w.v.svc = [j \in Ids |-> w.v.svc[j]]
    BY DEF Owned, Held, Services, Linked, Identified
  <2>2. \A j \in Ids \ {w.d.vid} : v.svc[j] = w.v.svc[j] /\ v.tfl[j] = w.v.tfl[j]
    BY <1>5, <2>1
  <2> QED BY <1>1, <2>1, <2>2 DEF Fresh
<1>9. Moves(a, t, o) /\ t.v = v /\ t.d = d /\ Sound(a, t)
  BY <1>5, <1>6, <1>8, <1>10, ChangeMoves DEF t
<1> QED BY <1>1, <1>2, <1>4, <1>6, <1>9, MovesInTurn, SoundInTurn DEF u

LEMMA CloseTflMoves ==
  ASSUME NEW w, NEW o, Owned(w, o)
  PROVE  LET u == close_file_rng_tfl(w)
         IN  /\ Moves(w, u, o) /\ u.d.tfl = 0 /\ u.d.vid = w.d.vid
             /\ u.d.sig = w.d.sig /\ u.v.svc = w.v.svc
             /\ w.d.sig # "Update" \/ w.d.tfl = 0 => Sound(w, u)
<1>1. CASE w.d.tfl = 0
  <2>1. close_file_rng_tfl(w) = w
    BY <1>1 DEF close_file_rng_tfl
  <2> QED BY <1>1, <2>1, MovesItself DEF Sound
<1>2. CASE w.d.tfl # 0
  <2> DEFINE y == IF KeepTfl(w) THEN "stored" ELSE "cancelled"
             p == KeepTfl(w) => HasDigest(w.d)
             a == Asserted(w, p)
             v == [w.v EXCEPT !.tfl[w.d.tfl] = y]
             d == [w.d EXCEPT !.tfl = 0]
             u == close_file_rng_tfl(w)
             t == [a EXCEPT !.v = v, !.d = d]
  <2>1. /\ Moves(w, a, o) /\ a.d = w.d /\ a.v = w.v /\ (p => Sound(w, a))
    BY AssertedMoves
  <2>2. u = [a EXCEPT !.v.tfl[w.d.tfl] = y, !.d.tfl = 0]
    BY <1>2 DEF close_file_rng_tfl
  <2>3. w.d.sig # "Update" => p
    BY DEF HasDigest
  <2>4. y # "open" /\ (opt.always \/ w.d.verdict = "Failure" => y = "stored")
    BY DEF KeepTfl
  <2> HIDE DEF a, u, y, p
  <2>5. u = t
    BY <2>1, <2>2 DEF Moves, Owned, IsWork
  <2>6. /\ IsService(v) /\ v.res = w.v.res /\ v.svc = w.v.svc
        /\ v.files = w.v.files /\ v.texts = w.v.texts
        /\ v.tfl = [w.v.tfl EXCEPT ![w.d.tfl] = y]
    BY DEF Owned, IsWork, IsService
  <2>7. /\ IsRange(d) /\ SameFile(w.d, d) /\ d.tfl = 0 /\ d.vid = w.d.vid
        /\ d.sig = w.d.sig
    BY DEF Owned, IsWork, IsRange, SameFile
  <2> HIDE DEF v, d, t
  <2>8. Held(d, v, w.s.keep, o) /\ Elsewhere(w.v, v, o)
    <3>1. Held(w.d, w.v, w.s.keep, o)
      BY DEF Owned
    <3>2. d.own = w.d.own /\ d.verdict = w.d.verdict
      BY <2>7 DEF SameFile
    <3> QED BY ZenonT(60), <1>2, <2>4, <2>6, <2>7, <3>1, <3>2, CloseHeld
  <2>9. Owned(a, o) /\ SameFile(a.d, d)
        /\ Held(d, v, a.s.keep, o) /\ Elsewhere(a.v, v, o)
    BY <2>1, <2>7, <2>8 DEF Moves, SameSeen
  <2>11. Fresh(a.v) \subseteq Fresh(v)
    <3>1. w.d.tfl \in Ids /\ w.v.tfl[w.d.tfl] # "free"
          /\ w.v.tfl = [j \in Ids |-> w.v.tfl[j]]
      BY <1>2 DEF Owned, Held, Services, Linked, Recorded
    <3>2. \A j \in Ids \ {w.d.tfl} : v.svc[j] = w.v.svc[j] /\ v.tfl[j] = w.v.tfl[j]
      BY <2>6, <3>1
    <3> QED BY <2>1, <3>1, <3>2 DEF Fresh
  <2>10. Moves(a, t, o) /\ t.v = v /\ t.d = d /\ Sound(a, t)
    BY <2>6, <2>7, <2>9, <2>11, ChangeMoves DEF t
  <2> QED BY <1>2, <2>1, <2>3, <2>5, <2>6, <2>7, <2>10, MovesInTurn, SoundInTurn DEF u
<1> QED BY <1>1, <1>2

LEMMA PushMoves ==
  ASSUME NEW w, NEW o, Owned(w, o), w.d.vid # 0
  PROVE  LET u == PushValidator(w, w.d.tfl)
         IN  /\ Moves(w, u, o) /\ u.d.tfl = 0 /\ u.d.vid = 0
             /\ w.d.sig # "Update" /\ w.v.svc[w.d.vid] = "open" => Sound(w, u)
<1> DEFINE b == SendEof(w)
           e == Asserted(b, HasDigest(w.d))
           v == [e.v EXCEPT !.files = @ \cup {[id |-> w.d.vid, tfl |-> w.d.tfl]}]
           d == [w.d EXCEPT !.vid = 0, !.tfl = 0]
           u == PushValidator(w, w.d.tfl)
           t == [e EXCEPT !.v = v, !.d = d]
<1>1. /\ Moves(w, b, o) /\ b.d = w.d /\ (w.v.svc[w.d.vid] = "open" => Sound(w, b))
  BY EofMoves
<1>2. Owned(b, o)
  BY <1>1, MovedOwned
<1> HIDE DEF b
<1>3. /\ Moves(b, e, o) /\ e.d = b.d /\ (HasDigest(w.d) => Sound(b, e))
  BY <1>2, AssertedMoves
<1>4. u = [e EXCEPT !.v.files = @ \cup {[id |-> w.d.vid, tfl |-> w.d.tfl]},
                    !.d.vid = 0, !.d.tfl = IF w.d.tfl = @ THEN 0 ELSE @]
  BY DEF PushValidator, b
<1> HIDE DEF e, u
<1>5. /\ Moves(w, e, o) /\ e.d = w.d
      /\ w.d.sig # "Update" /\ w.v.svc[w.d.vid] = "open" => Sound(w, e)
  BY <1>1, <1>3, MovesInTurn, SoundInTurn DEF HasDigest
<1>6. Owned(e, o)
  BY <1>5, MovedOwned
<1>7. u = t
  BY <1>4, <1>5, <1>6 DEF Owned, IsWork, IsRange
<1>8. /\ IsService(v) /\ v.res = e.v.res /\ v.svc = e.v.svc
      /\ v.tfl = e.v.tfl /\ v.texts = e.v.texts
      /\ v.files = e.v.files \cup {[id |-> e.d.vid, tfl |-> e.d.tfl]}
  BY <1>5, <1>6 DEF Owned, IsWork, IsService
<1>9. IsRange(d) /\ SameFile(w.d, d) /\ d.tfl = 0 /\ d.vid = 0
  BY DEF Owned, IsWork, IsRange, SameFile
<1> HIDE DEF v, d, t
<1>10. Held(d, v, e.s.keep, o) /\ Elsewhere(e.v, v, o)
  <2>1. Held(e.d, e.v, e.s.keep, o)
    BY <1>6 DEF Owned
  <2> QED BY <1>5, <1>8, <1>9, <2>1, ListedHeld DEF SameFile
<1>12. Fresh(e.v) \subseteq Fresh(v)
  BY <1>8 DEF Fresh
<1>11. Moves(e, t, o) /\ t.v = v /\ t.d = d /\ Sound(e, t)
  BY <1>5, <1>6, <1>8, <1>9, <1>10, <1>12, ChangeMoves DEF t
<1> QED BY <1>5, <1>7, <1>9, <1>11, MovesInTurn, SoundInTurn DEF u

----------------------------------------------------------------------------
(* The ends of a transfer. *)
LEMMA CloseRangeMoves ==
  ASSUME NEW w, NEW o, Owned(w, o)
  PROVE  LET u == close_file_rng(w)
         IN  /\ Moves(w, u, o) /\ u.d.tfl = 0 /\ u.d.vid = 0
             /\ w.d.sig # "Update" /\ (w.d.vid # 0 => w.v.svc[w.d.vid] = "open")
                  => Sound(w, u)
<1>1. CASE w.d.vid # 0
  BY <1>1, PushMoves DEF close_file_rng
<1>2. CASE w.d.vid = 0
  BY <1>2, CloseTflMoves DEF close_file_rng
<1> QED BY <1>1, <1>2

LEMMA BrokenMoves ==
  ASSUME NEW w, NEW o, Owned(w, o)
  PROVE  LET u == broken_file_transfer(w)
         IN  /\ Moves(w, u, o) /\ u.d.tfl = 0 /\ u.d.vid = 0
             /\ w.d.sig = "Update" /\ (w.d.vid # 0 => w.v.svc[w.d.vid] = "open")
                  => Sound(w, u)
<1> DEFINE g == SigBroken(w)
           b == close_file_rng_tfl(g)
           u == broken_file_transfer(w)
<1>1. /\ Moves(w, g, o) /\ g.v = w.v /\ g.d.vid = w.d.vid /\ g.d.sig = "Broken"
      /\ w.d.sig = "Update" => Sound(w, g)
  BY SigMoves
<1>2. Owned(g, o)
  BY <1>1, MovedOwned
<1> HIDE DEF g
<1>3. /\ Moves(g, b, o) /\ b.d.tfl = 0 /\ b.d.vid = g.d.vid /\ b.d.sig = g.d.sig
      /\ b.v.svc = g.v.svc /\ Sound(g, b)
  BY <1>1, <1>2, CloseTflMoves
<1>4. u = IF b.d.vid # 0 THEN PushValidator(b, 0) ELSE b
  BY DEF broken_file_transfer, g
<1> HIDE DEF b, u
<1>5. /\ Moves(w, b, o) /\ (w.d.sig = "Update" => Sound(w, b)) /\ Owned(b, o)
  BY <1>1, <1>3, MovesInTurn, SoundInTurn, MovedOwned
<1>6. CASE b.d.vid = 0
  BY <1>3, <1>4, <1>5, <1>6 DEF u
<1>7. CASE b.d.vid # 0
  <2> DEFINE t == PushValidator(b, b.d.tfl)
  <2>1. /\ Moves(b, t, o) /\ t.d.tfl = 0 /\ t.d.vid = 0
        /\ b.d.sig # "Update" /\ b.v.svc[b.d.vid] = "open" => Sound(b, t)
    BY <1>5, <1>7, PushMoves
  <2>2. u = t
    BY <1>3, <1>4, <1>7
  <2> HIDE DEF t
  <2> QED BY <1>1, <1>3, <1>5, <1>7, <2>1, <2>2, MovesInTurn, SoundInTurn DEF u
<1> QED BY <1>6, <1>7

LEMMA LogMoves ==
  ASSUME NEW w, NEW o, Owned(w, o)
  PROVE  LET u == log_file_info(w)
         IN  /\ Moves(w, u, o) /\ u.v = w.v /\ u.d.tfl = w.d.tfl
             /\ u.d.vid = w.d.vid /\ u.d.sig # "Update" /\ Sound(w, u)
<1>1. CASE w.d.sig # "Update"
  BY <1>1, MovesItself DEF log_file_info, HasDigest, Sound
<1>2. CASE w.d.sig = "Update"
  BY <1>2, SigMoves DEF log_file_info, HasDigest
<1> QED BY <1>1, <1>2

LEMMA StopValidationMoves ==
  ASSUME NEW w, NEW o, Owned(w, o)
  PROVE  LET u == stop_validation_before_transfer(w)
         IN  Moves(w, u, o) /\ u.d.tfl = 0 /\ u.d.vid = 0 /\ Sound(w, u)
<1> DEFINE l == log_file_info(w)
           a == IF l.d.vid # 0 THEN SendAbort(l) ELSE l
           t == close_file_rng_tfl(a)
<1>1. Moves(w, l, o) /\ l.d.sig # "Update" /\ Sound(w, l) /\ Owned(l, o)
  BY LogMoves, MovedOwned
<1>2. stop_validation_before_transfer(w) = t
  BY DEF stop_validation_before_transfer
<1> HIDE DEF l
<1>3. Moves(l, a, o) /\ a.d.sig # "Update" /\ a.d.vid = 0 /\ Sound(l, a) /\ Owned(a, o)
  <2>1. CASE l.d.vid = 0
    BY <1>1, <2>1, MovesItself DEF Sound
  <2>2. CASE l.d.vid # 0
    BY <1>1, <2>2, AbortMoves, MovedOwned
  <2> QED BY <2>1, <2>2
<1> HIDE DEF a
<1>4. Moves(a, t, o) /\ t.d.tfl = 0 /\ t.d.vid = 0 /\ Sound(a, t)
  BY <1>3, CloseTflMoves
<1> HIDE DEF t
<1> QED BY <1>1, <1>2, <1>3, <1>4, MovesInTurn, SoundInTurn

LEMMA StopValidMoves ==
  ASSUME NEW w, NEW o, Owned(w, o)
  PROVE  LET u == stop_valid_transfer(w)
         IN  /\ Moves(w, u, o) /\ u.d.tfl = 0 /\ u.d.vid = w.d.vid
             /\ w.d.vid = 0 => Sound(w, u)
<1> DEFINE a == Asserted(w, w.d.vid = 0)
           b == log_file_info(a)
           t == close_file_rng_tfl(b)
<1>1. /\ Moves(w, a, o) /\ a.d = w.d /\ (w.d.vid = 0 => Sound(w, a)) /\ Owned(a, o)
  BY AssertedMoves, MovedOwned
<1>2. stop_valid_transfer(w) = t
  BY DEF stop_valid_transfer, log_file_info
<1> HIDE DEF a
<1>3. /\ Moves(a, b, o) /\ b.d.vid = a.d.vid /\ b.d.sig # "Update" /\ Sound(a, b)
      /\ Owned(b, o)
  BY <1>1, LogMoves, MovedOwned
<1> HIDE DEF b
<1>4. Moves(b, t, o) /\ t.d.tfl = 0 /\ t.d.vid = b.d.vid /\ Sound(b, t)
  BY <1>3, CloseTflMoves
<1> HIDE DEF t
<1> QED BY <1>1, <1>2, <1>3, <1>4, MovesInTurn, SoundInTurn

LEMMA StopWaitMoves ==
  ASSUME NEW w, NEW o, Owned(w, o), w.d.vid # 0
  PROVE  LET u == stop_wait_validation(w)
         IN  Moves(w, u, o) /\ u.d.tfl = 0 /\ u.d.vid = 0 /\ Sound(w, u)
<1> DEFINE a == Asserted(w, w.d.vid # 0)
           b == SendAbort(a)
           t == stop_valid_transfer(b)
<1>1. /\ Moves(w, a, o) /\ a.d = w.d /\ Sound(w, a) /\ Owned(a, o)
  BY AssertedMoves, MovedOwned
<1>2. stop_wait_validation(w) = t
  BY DEF stop_wait_validation
<1> HIDE DEF a
<1>3. Moves(a, b, o) /\ b.d.vid = 0 /\ Sound(a, b) /\ Owned(b, o)
  BY <1>1, AbortMoves, MovedOwned
<1> HIDE DEF b
<1>4. Moves(b, t, o) /\ t.d.tfl = 0 /\ t.d.vid = 0 /\ Sound(b, t)
  BY <1>3, StopValidMoves
<1> HIDE DEF t
<1> QED BY <1>1, <1>2, <1>3, <1>4, MovesInTurn, SoundInTurn

(* A transfer over, its context as before any: only the response that is owed
   may have been ended. *)
EmptyRange(d, e) ==
    /\ IsRange(e) /\ e.sid = 0 /\ e.file = 1 /\ e.vid = 0 /\ e.verdict = "Wait"
    /\ e.off = 0 /\ e.first = 0 /\ e.req = 0 /\ e.tfl = 0 /\ e.sig = "Update"
    /\ e.own \in {0, d.own} /\ e.size \in {0, d.size}

Restarts(w, u, o) ==
    /\ Owned(u, o) /\ u.c = w.c /\ u.thrown = w.thrown
    /\ u.x = [w.x EXCEPT !.st = "Empty", !.clen = 0, !.cpos = 0, !.resp = 0,
                !.owed = u.x.owed, !.cut = u.x.cut]
    /\ SameSeen(w, u) /\ EmptyRange(w.d, u.d) /\ Elsewhere(w.v, u.v, o)
    /\ Fresh(w.v) \subseteq Fresh(u.v)
    /\ u.x.owed => u.d.size = w.d.size
    /\ VerifiesText(w.c) => u.d.own = w.d.own

SameOwed(w, u) == u.x.owed = w.x.owed /\ u.x.cut = w.x.cut

LEMMA InitEmptyRestarts ==
  ASSUME NEW w, NEW o, Owned(w, o), w.d.tfl = 0,
         Faithful(opt) /\ w.d.vid # 0 => w.v.res[w.d.vid] # "none"
  PROVE  LET u == InitEmpty(w)
         IN  Restarts(w, u, o) /\ SameOwed(w, u) /\ Sound(w, u)
<1> DEFINE a == Asserted(w, w.d.tfl = 0)
           x == [w.x EXCEPT !.st = "Empty", !.clen = 0, !.cpos = 0, !.resp = 0]
           d == [NoRange EXCEPT !.tfl = w.d.tfl,
                   !.own = IF VerifiesText(w.c) THEN w.d.own ELSE 0,
                   !.size = IF w.x.owed THEN w.d.size ELSE 0]
           u == InitEmpty(w)
<1>1. Moves(w, a, o) /\ a.d = w.d /\ a.v = w.v /\ Sound(w, a)
  BY AssertedMoves
<1>2. u = [a EXCEPT !.x.st = "Empty", !.x.clen = 0, !.x.cpos = 0, !.x.resp = 0,
                    !.d = d]
  BY DEF InitEmpty
<1> HIDE DEF a, u
<1>3. /\ EmptyRange(w.d, d) /\ (w.x.owed => d.size = w.d.size)
      /\ VerifiesText(w.c) => d.own = w.d.own
  BY DEF NoRange, EmptyRange, IsRange
<1>4. IsContext(x) /\ x.owed = w.x.owed /\ x.cut = w.x.cut
      /\ x = [w.x EXCEPT !.st = "Empty", !.clen = 0, !.cpos = 0, !.resp = 0,
                !.owed = x.owed, !.cut = x.cut]
  BY ZenonT(60) DEF Owned, IsWork, IsContext
<1> HIDE DEF d
<1>5. u = [a EXCEPT !.x = x, !.d = d]
  BY <1>1, <1>2 DEF Moves, Owned, IsWork, IsContext
<1> HIDE DEF x
<1>6. IsWork(u) /\ u.x = x /\ u.d = d /\ u.v = a.v /\ u.s = a.s /\ u.c = w.c
      /\ u.thrown = w.thrown
  BY <1>1, <1>3, <1>4, <1>5 DEF Moves, Owned, IsWork, EmptyRange
<1>7. Held(d, w.v, w.s.keep, o)
  BY <1>3, OverHeld DEF Owned, EmptyRange
<1> QED BY <1>1, <1>3, <1>4, <1>6, <1>7
        DEF Restarts, Moves, Owned, SameSeen, SameOwed, Sound, Elsewhere, u

(* The end of a transfer, after what was said to the service. *)
LEMMA MovedRestarts ==
  ASSUME NEW w, NEW u, NEW o, Owned(w, o), Moves(w, u, o), u.d.tfl = 0,
         Faithful(opt) /\ u.d.vid # 0 => u.v.res[u.d.vid] # "none"
  PROVE  LET t == InitEmpty(u)
         IN  Restarts(w, t, o) /\ SameOwed(w, t) /\ Sound(u, t)
<1> DEFINE t == InitEmpty(u)
<1>1. Restarts(u, t, o) /\ SameOwed(u, t) /\ Sound(u, t)
  BY InitEmptyRestarts DEF Moves
<1> HIDE DEF t
<1>2. Restarts(w, t, o) /\ SameOwed(w, t)
  BY <1>1 DEF Restarts, Moves, SameSeen, SameFile, Elsewhere, EmptyRange, SameOwed
<1> QED BY <1>1, <1>2 DEF t

LEMMA FinalizeTextRestarts ==
  ASSUME NEW w, NEW o, Owned(w, o), w.d.tfl = 0, w.d.vid # 0,
         w.v.svc[w.d.vid] = "open"
  PROVE  LET u == InitEmpty(finalize_text_transfer(w))
         IN  Restarts(w, u, o) /\ SameOwed(w, u) /\ Sound(w, u)
<1> DEFINE b == SendEof(w)
           f == finalize_text_transfer(w)
           v == [b.v EXCEPT !.texts = @ \cup {w.d.vid}]
           a == Asserted(f, f.d.tfl = 0)
           x == [w.x EXCEPT !.st = "Empty", !.clen = 0, !.cpos = 0, !.resp = 0]
           d == [NoRange EXCEPT !.tfl = w.d.tfl,
                   !.own = IF VerifiesText(w.c) THEN w.d.own ELSE 0,
                   !.size = IF w.x.owed THEN w.d.size ELSE 0]
           u == InitEmpty(f)
<1>1. Moves(w, b, o) /\ b.d = w.d /\ Sound(w, b) /\ Owned(b, o)
  BY EofMoves, MovedOwned
<1>2. f = [b EXCEPT !.v.texts = @ \cup {w.d.vid}]
  BY DEF finalize_text_transfer
<1> HIDE DEF b, f
<1>3. f = [b EXCEPT !.v = v]
  BY <1>2
<1>4. /\ IsService(v) /\ v.res = b.v.res /\ v.svc = b.v.svc /\ v.tfl = b.v.tfl
      /\ v.files = b.v.files /\ v.texts = b.v.texts \cup {b.d.vid}
  BY <1>1 DEF Owned, IsWork, IsService
<1> HIDE DEF v
<1>5. /\ IsWork(f) /\ f.c = w.c /\ f.x = w.x /\ f.d = w.d /\ f.v = v /\ f.s = b.s
      /\ f.thrown = w.thrown
  BY <1>1, <1>3, <1>4 DEF Moves, Owned, IsWork
<1>6. u = [a EXCEPT !.x.st = "Empty", !.x.clen = 0, !.x.cpos = 0, !.x.resp = 0,
                    !.d = d]
  BY <1>5 DEF InitEmpty
<1>7. /\ Keeps(f, a) /\ a.x = w.x /\ a.v = v /\ a.c = w.c /\ a.thrown = w.thrown
      /\ SameSeen(w, a) /\ Sound(w, a)
  <2>1. Keeps(f, a) /\ a.d = f.d /\ a.v = f.v /\ a.x = f.x /\ a.thrown = f.thrown
    BY <1>5, AssertedKeeps
  <2>2. a.s = [f.s EXCEPT !.assertion = @ \/ ~(f.d.tfl = 0)]
    BY <1>5 DEF Asserted, IsWork
  <2>3. SameSeen(f, a) /\ Sound(f, a)
    BY <1>5, <2>2 DEF SameSeen, Sound, IsWork, IsSeen
  <2> HIDE DEF a
  <2> QED BY <1>1, <1>5, <2>1, <2>3 DEF Keeps, Spares, Moves, SameSeen, Sound
<1> HIDE DEF a, u
<1>8. /\ EmptyRange(w.d, d) /\ (w.x.owed => d.size = w.d.size)
      /\ VerifiesText(w.c) => d.own = w.d.own
  BY DEF NoRange, EmptyRange, IsRange
<1>9. IsContext(x) /\ x.owed = w.x.owed /\ x.cut = w.x.cut
      /\ x = [w.x EXCEPT !.st = "Empty", !.clen = 0, !.cpos = 0, !.resp = 0,
                !.owed = x.owed, !.cut = x.cut]
  BY ZenonT(60) DEF Owned, IsWork, IsContext
<1> HIDE DEF d
<1>10. u = [a EXCEPT !.x = x, !.d = d]
  BY <1>6, <1>7 DEF Keeps, Spares, IsWork, IsContext
<1> HIDE DEF x
<1>11. IsWork(u) /\ u.x = x /\ u.d = d /\ u.v = v /\ u.s = a.s /\ u.c = w.c
       /\ u.thrown = w.thrown
  BY <1>7, <1>8, <1>9, <1>10 DEF Keeps, Spares, IsWork, EmptyRange
<1>12. Held(d, v, w.s.keep, o) /\ Elsewhere(b.v, v, o)
  <2>1. Held(b.d, b.v, w.s.keep, o) /\ b.d.vid # 0 /\ b.d.tfl = 0
        /\ d.own \in {0, b.d.own} /\ d.tfl = 0 /\ d.vid = 0
    BY <1>1, <1>8 DEF Moves, Owned, SameSeen, EmptyRange
  <2> QED BY <1>4, <2>1, TextListedHeld
<1>13. Restarts(w, u, o) /\ SameOwed(w, u) /\ Sound(w, u)
  <2>1. Elsewhere(w.v, u.v, o)
    BY <1>1, <1>11, <1>12, ElsewhereInTurn DEF Moves
  <2>2. SameSeen(w, u) /\ Sound(w, u) /\ SameOwed(w, u)
    BY <1>7, <1>9, <1>11 DEF SameSeen, Sound, SameOwed
  <2>3. Owned(u, o)
    BY <1>11, <1>12, <2>2 DEF Owned, SameSeen
  <2>4. Fresh(w.v) \subseteq Fresh(u.v)
    BY <1>1, <1>4, <1>11 DEF Moves, Fresh
  <2> QED BY <1>8, <1>9, <1>11, <2>1, <2>2, <2>3, <2>4 DEF Restarts
<1> QED BY <1>13 DEF u, f

----------------------------------------------------------------------------
(* A handler between two of its steps. *)
Good(w, o) == Owned(w, o) /\ w.c \in Sides /\ Settled(w.c, w.x.st, w.d, w.v)

(* The numbers and the response it is about. *)
Fit(w, left) ==
    Naturals_(w.x, w.d) /\ Buffered(w.x, w.d, left) /\ Answering(w.c, w.x, w.d)

(* The lists, the locks and the format asked for. *)
SameLists(x, y) ==
    /\ y.ranges = x.ranges /\ y.locks = x.locks /\ y.sizes = x.sizes
    /\ y.slot = x.slot /\ y.lock = x.lock /\ y.lid = x.lid /\ y.flist = x.flist
    /\ y.fmt = x.fmt

(* What a handler leaves to the others. *)
Beside(w, u, o) ==
    /\ u.c = w.c /\ u.s.keep = w.s.keep /\ Elsewhere(w.v, u.v, o)
    /\ SameLists(w.x, u.x)

Serves(w, u, o) == Good(u, o) /\ Beside(w, u, o)

LEMMA BesideInTurn ==
  ASSUME NEW w, NEW u, NEW t, NEW o, Beside(w, u, o), Beside(u, t, o)
  PROVE  Beside(w, t, o)
BY DEF Beside, Elsewhere, SameLists

LEMMA MovesBeside ==
  ASSUME NEW w, NEW u, NEW o, Moves(w, u, o)
  PROVE  Beside(w, u, o)
BY DEF Moves, Beside, SameSeen, SameLists

LEMMA RestartsServes ==
  ASSUME NEW w, NEW u, NEW o, IsWork(w), w.c \in Sides, Restarts(w, u, o)
  PROVE  Serves(w, u, o) /\ u.x.st = "Empty" /\ u.x.asked = w.x.asked
         /\ u.x.files = w.x.files
<1>1. u.x.st = "Empty" /\ SameLists(w.x, u.x) /\ u.x.asked = w.x.asked
      /\ u.x.files = w.x.files
  BY DEF Restarts, SameLists, IsWork, IsContext
<1>2. Settled(u.c, u.x.st, u.d, u.v)
  BY <1>1 DEF Restarts, EmptyRange, Settled, Holding, Texts, Signing, Waiting
<1> QED BY <1>1, <1>2 DEF Restarts, Serves, Good, Beside, SameSeen

LEMMA RestartsFit ==
  ASSUME NEW w, NEW u, NEW o, IsWork(w), Restarts(w, u, o),
         Naturals_(w.x, w.d), ~Verifies(w.c) => ~u.x.owed,
         u.x.owed => u.x.cut \/ w.d.size > MaxFile,
         u.x.owed /\ w.x.fmt # "none" => u.x.cut, NEW left
  PROVE  Fit(u, left)
<1>1. /\ u.x.st = "Empty" /\ u.x.clen = 0 /\ u.x.cpos = 0 /\ u.x.resp = 0
      /\ u.x.fmt = w.x.fmt /\ u.x.files = w.x.files /\ u.c = w.c
  BY DEF Restarts, IsWork, IsContext
<1>2. /\ u.d.off = 0 /\ u.d.req = 0 /\ u.d.first = 0 /\ u.d.size \in {0, w.d.size}
      /\ u.x.owed => u.d.size = w.d.size
  BY DEF Restarts, EmptyRange
<1>3. Naturals_(u.x, u.d)
  BY <1>1, <1>2 DEF Naturals_
<1>4. Buffered(u.x, u.d, left)
  BY <1>1 DEF Buffered, Waiting
<1>5. Answering(u.c, u.x, u.d)
  BY <1>1, <1>2 DEF Answering
<1> QED BY <1>3, <1>4, <1>5 DEF Fit

(* A handler that writes fields of the context alone. *)
LEMMA ContextOwned ==
  ASSUME NEW w, NEW o, Owned(w, o), NEW x, IsContext(x)
  PROVE  LET u == [w EXCEPT !.x = x]
         IN  /\ Owned(u, o) /\ u.c = w.c /\ u.x = x /\ u.d = w.d /\ u.v = w.v
             /\ u.s = w.s /\ u.thrown = w.thrown
<1> DEFINE u == [w EXCEPT !.x = x]
<1>1. /\ IsWork(u) /\ u.c = w.c /\ u.x = x /\ u.d = w.d /\ u.v = w.v
      /\ u.s = w.s /\ u.thrown = w.thrown
  BY DEF Owned, IsWork
<1> HIDE DEF u
<1> QED BY <1>1 DEF Owned, u

LEMMA ZeroOwned ==
  ASSUME NEW w, NEW o, Owned(w, o)
  PROVE  LET u == ZeroData(w)
         IN  /\ Owned(u, o) /\ u.c = w.c /\ u.d = w.d /\ u.v = w.v
             /\ u.s = w.s /\ u.thrown = w.thrown
             /\ u.x = [w.x EXCEPT !.owed = FALSE, !.cut = FALSE]
             /\ u.x.owed = FALSE /\ u.x.cut = FALSE /\ u.x.st = w.x.st
<1> DEFINE x == [w.x EXCEPT !.owed = FALSE, !.cut = FALSE]
<1>1. IsContext(x) /\ x.owed = FALSE /\ x.cut = FALSE /\ x.st = w.x.st
  BY DEF Owned, IsWork, IsContext
<1>2. ZeroData(w) = [w EXCEPT !.x = x]
  BY DEF ZeroData
<1> HIDE DEF x
<1>3. LET u == [w EXCEPT !.x = x]
      IN  /\ Owned(u, o) /\ u.c = w.c /\ u.x = x /\ u.d = w.d /\ u.v = w.v
          /\ u.s = w.s /\ u.thrown = w.thrown
  BY <1>1, ContextOwned
<1> QED BY <1>1, <1>2, <1>3 DEF x

LEMMA ZeroRestarts ==
  ASSUME NEW w, NEW u, NEW o, Owned(w, o), Restarts(ZeroData(w), u, o),
         SameOwed(ZeroData(w), u)
  PROVE  Restarts(w, u, o) /\ u.x.owed = FALSE /\ u.x.cut = FALSE
<1> DEFINE z == ZeroData(w)
<1>1. /\ z.c = w.c /\ z.d = w.d /\ z.v = w.v /\ z.s = w.s /\ z.thrown = w.thrown
      /\ z.x = [w.x EXCEPT !.owed = FALSE, !.cut = FALSE]
      /\ z.x.owed = FALSE /\ z.x.cut = FALSE
  BY ZeroOwned
<1>2. Restarts(z, u, o) /\ SameOwed(z, u)
  OBVIOUS
<1> HIDE DEF z
<1>3. u.x.owed = FALSE /\ u.x.cut = FALSE
  BY <1>1, <1>2 DEF SameOwed
<1>4. u.x = [w.x EXCEPT !.st = "Empty", !.clen = 0, !.cpos = 0, !.resp = 0,
                !.owed = u.x.owed, !.cut = u.x.cut]
  <2>1. u.x = [z.x EXCEPT !.st = "Empty", !.clen = 0, !.cpos = 0, !.resp = 0,
                 !.owed = FALSE, !.cut = FALSE]
    BY <1>2, <1>3 DEF Restarts
  <2>2. [z.x EXCEPT !.st = "Empty", !.clen = 0, !.cpos = 0, !.resp = 0,
                 !.owed = FALSE, !.cut = FALSE]
          = [w.x EXCEPT !.st = "Empty", !.clen = 0, !.cpos = 0, !.resp = 0,
                 !.owed = FALSE, !.cut = FALSE]
    BY <1>1 DEF Owned, IsWork, IsContext
  <2> QED BY <1>3, <2>1, <2>2
<1> QED BY <1>1, <1>2, <1>3, <1>4 DEF Restarts, SameSeen

(* The transfer of the context ends, whatever its state. *)
LEMMA StopNolockRestarts ==
  ASSUME NEW w, NEW o, Good(w, o)
  PROVE  LET u == stop_nolock_data(w)
         IN  /\ Restarts(w, u, o) /\ Sound(w, u)
             /\ IF w.x.st \in Waiting THEN u.x.owed = FALSE /\ u.x.cut = FALSE
                ELSE SameOwed(w, u)
<1> DEFINE u == stop_nolock_data(w)
           z == ZeroData(w)
           End == /\ Restarts(w, u, o) /\ Sound(w, u)
                  /\ IF w.x.st \in Waiting THEN u.x.owed = FALSE /\ u.x.cut = FALSE
                     ELSE SameOwed(w, u)
<1> SUFFICES End
  OBVIOUS
<1>1. Owned(w, o) /\ Settled(w.c, w.x.st, w.d, w.v)
  BY DEF Good
<1>2. CASE w.x.st \in {"WaitingContinuationRange", "Range"}
  <2> DEFINE b == broken_file_transfer(w)
  <2>1. u = InitEmpty(b)
    BY <1>2 DEF stop_nolock_data
  <2>2. w.d.sig = "Update" /\ (w.d.vid # 0 => w.v.svc[w.d.vid] = "open")
    BY <1>1, <1>2 DEF Settled, Signing
  <2>3. Moves(w, b, o) /\ b.d.tfl = 0 /\ b.d.vid = 0 /\ Sound(w, b)
    BY <1>1, <2>2, BrokenMoves
  <2> HIDE DEF u, b
  <2>4. Restarts(w, u, o) /\ SameOwed(w, u) /\ Sound(b, u)
    BY <1>1, <2>1, <2>3, MovedRestarts
  <2> QED BY <1>2, <2>3, <2>4, SoundInTurn DEF Waiting
<1>3. CASE w.x.st = "GetRange"
  <2> DEFINE b == stop_validation_before_transfer(z)
  <2>1. u = InitEmpty(b)
    BY <1>3 DEF stop_nolock_data
  <2>2. Owned(z, o) /\ Sound(w, z)
    BY <1>1, ZeroOwned DEF Sound
  <2> HIDE DEF z
  <2>3. Moves(z, b, o) /\ b.d.tfl = 0 /\ b.d.vid = 0 /\ Sound(z, b)
    BY <2>2, StopValidationMoves
  <2> HIDE DEF u, b
  <2>4. Restarts(z, u, o) /\ SameOwed(z, u) /\ Sound(b, u)
    BY <2>1, <2>2, <2>3, MovedRestarts
  <2>5. Restarts(w, u, o) /\ u.x.owed = FALSE /\ u.x.cut = FALSE
    BY <1>1, <2>4, ZeroRestarts DEF z
  <2> QED BY <1>3, <2>2, <2>3, <2>4, <2>5, SoundInTurn DEF Waiting
<1>4. CASE w.x.st = "WaitingFileValidator"
  <2> DEFINE b == stop_wait_validation(z)
  <2>1. u = InitEmpty(b)
    BY <1>4 DEF stop_nolock_data
  <2>2. Owned(z, o) /\ Sound(w, z) /\ z.d.vid # 0
    BY <1>1, <1>4, ZeroOwned DEF Sound, Settled
  <2> HIDE DEF z
  <2>3. Moves(z, b, o) /\ b.d.tfl = 0 /\ b.d.vid = 0 /\ Sound(z, b)
    BY <2>2, StopWaitMoves
  <2> HIDE DEF u, b
  <2>4. Restarts(z, u, o) /\ SameOwed(z, u) /\ Sound(b, u)
    BY <2>1, <2>2, <2>3, MovedRestarts
  <2>5. Restarts(w, u, o) /\ u.x.owed = FALSE /\ u.x.cut = FALSE
    BY <1>1, <2>4, ZeroRestarts DEF z
  <2> QED BY <1>4, <2>2, <2>3, <2>4, <2>5, SoundInTurn DEF Waiting
<1>5. CASE w.x.st \in {"RequestedSyncRange", "SyncRange"}
  <2> DEFINE b == stop_valid_transfer(w)
  <2>1. u = InitEmpty(b)
    BY <1>5 DEF stop_nolock_data
  <2>2. w.d.vid = 0
    BY <1>1, <1>5 DEF Settled, Validating
  <2>3. Moves(w, b, o) /\ b.d.tfl = 0 /\ b.d.vid = 0 /\ Sound(w, b)
    BY <1>1, <2>2, StopValidMoves
  <2> HIDE DEF u, b
  <2>4. Restarts(w, u, o) /\ SameOwed(w, u) /\ Sound(b, u)
    BY <1>1, <2>1, <2>3, MovedRestarts
  <2> QED BY <1>5, <2>3, <2>4, SoundInTurn DEF Waiting
<1>6. CASE w.x.st = "Text"
  <2>1. u = InitEmpty(finalize_text_transfer(w))
    BY <1>6 DEF stop_nolock_data
  <2>2. w.d.vid # 0 /\ w.d.tfl = 0 /\ w.v.svc[w.d.vid] = "open"
    BY <1>1, <1>6 DEF Settled, Texts, Holding
  <2> HIDE DEF u
  <2>3. Restarts(w, u, o) /\ SameOwed(w, u) /\ Sound(w, u)
    BY <1>1, <2>1, <2>2, FinalizeTextRestarts
  <2> QED BY <1>6, <2>3 DEF Waiting
<1>7. CASE w.x.st \in {"WaitingTextValidator", "TextAccumulate"}
  <2> DEFINE b == SendAbort(w)
  <2>1. u = InitEmpty(b)
    BY <1>7 DEF stop_nolock_data
  <2>2. w.d.vid # 0 /\ w.d.tfl = 0
    BY <1>1, <1>7 DEF Settled, Texts, Holding
  <2>3. Moves(w, b, o) /\ b.d.tfl = 0 /\ b.d.vid = 0 /\ Sound(w, b)
    BY <1>1, <2>2, AbortMoves
  <2> HIDE DEF u, b
  <2>4. Restarts(w, u, o) /\ SameOwed(w, u) /\ Sound(b, u)
    BY <1>1, <2>1, <2>3, MovedRestarts
  <2> QED BY <1>7, <2>3, <2>4, SoundInTurn DEF Waiting
<1>8. CASE w.x.st \notin {"WaitingContinuationRange", "Range", "GetRange",
        "WaitingFileValidator", "RequestedSyncRange", "SyncRange", "Text",
        "WaitingTextValidator", "TextAccumulate"}
  <2>1. u = InitEmpty(w)
    BY <1>8 DEF stop_nolock_data
  <2>2. w.d.tfl = 0 /\ (Faithful(opt) /\ w.d.vid # 0 => w.v.res[w.d.vid] # "none")
    BY <1>1, <1>8 DEF Settled, Holding, Validating
  <2> HIDE DEF u
  <2>3. Restarts(w, u, o) /\ SameOwed(w, u) /\ Sound(w, u)
    BY <1>1, <2>1, <2>2, InitEmptyRestarts
  <2> QED BY <1>8, <2>3 DEF Waiting
<1> HIDE DEF u, z
<1> QED BY <1>2, <1>3, <1>4, <1>5, <1>6, <1>7, <1>8

LEMMA ResetNolockServes ==
  ASSUME NEW w, NEW o, Good(w, o), ~w.thrown
  PROVE  LET u == reset_nolock_data(w)
         IN  /\ Serves(w, u, o) /\ Sound(w, u) /\ u.s.text = w.s.text
             /\ ~u.thrown => /\ u = w \/ (Restarts(w, u, o) /\ SameOwed(w, u))
                             /\ u.x.st = "Empty"
<1> DEFINE u == reset_nolock_data(w)
           Over == Restarts(w, u, o) /\ SameOwed(w, u) /\ Sound(w, u)
           End == /\ Serves(w, u, o) /\ Sound(w, u) /\ u.s.text = w.s.text
                  /\ ~u.thrown => /\ u = w \/ (Restarts(w, u, o) /\ SameOwed(w, u))
                                  /\ u.x.st = "Empty"
<1> SUFFICES End
  BY SMTT(60)
<1>9. ASSUME Over PROVE End
  <2> HIDE DEF u
  <2> QED BY <1>9, RestartsServes DEF Good, Owned, Restarts, SameSeen
<1>1. Owned(w, o) /\ Settled(w.c, w.x.st, w.d, w.v) /\ IsWork(w) /\ w.c \in Sides
  BY DEF Good, Owned
<1>2. CASE w.x.st = "WaitingFileValidator"
  <2> DEFINE b == stop_wait_validation(w)
  <2>1. u = InitEmpty(b)
    BY <1>2 DEF reset_nolock_data
  <2>2. w.d.vid # 0
    BY <1>1, <1>2 DEF Settled
  <2>3. Moves(w, b, o) /\ b.d.tfl = 0 /\ b.d.vid = 0 /\ Sound(w, b)
    BY <1>1, <2>2, StopWaitMoves
  <2> HIDE DEF u, b
  <2>4. Restarts(w, u, o) /\ SameOwed(w, u) /\ Sound(b, u)
    BY <1>1, <2>1, <2>3, MovedRestarts
  <2> QED BY <1>9, <2>3, <2>4, SoundInTurn
<1>3. CASE w.x.st = "SyncRange"
  <2> DEFINE b == stop_valid_transfer(w)
  <2>1. u = InitEmpty(b)
    BY <1>3 DEF reset_nolock_data
  <2>2. w.d.vid = 0
    BY <1>1, <1>3 DEF Settled, Validating
  <2>3. Moves(w, b, o) /\ b.d.tfl = 0 /\ b.d.vid = 0 /\ Sound(w, b)
    BY <1>1, <2>2, StopValidMoves
  <2> HIDE DEF u, b
  <2>4. Restarts(w, u, o) /\ SameOwed(w, u) /\ Sound(b, u)
    BY <1>1, <2>1, <2>3, MovedRestarts
  <2> QED BY <1>9, <2>3, <2>4, SoundInTurn
<1>4. CASE w.x.st = "WaitingContinuationRange"
  <2> DEFINE b == broken_file_transfer(w)
  <2>1. u = InitEmpty(b)
    BY <1>4 DEF reset_nolock_data
  <2>2. w.d.sig = "Update" /\ (w.d.vid # 0 => w.v.svc[w.d.vid] = "open")
    BY <1>1, <1>4 DEF Settled, Signing
  <2>3. Moves(w, b, o) /\ b.d.tfl = 0 /\ b.d.vid = 0 /\ Sound(w, b)
    BY <1>1, <2>2, BrokenMoves
  <2> HIDE DEF u, b
  <2>4. Restarts(w, u, o) /\ SameOwed(w, u) /\ Sound(b, u)
    BY <1>1, <2>1, <2>3, MovedRestarts
  <2> QED BY <1>9, <2>3, <2>4, SoundInTurn
<1>5. CASE w.x.st = "WaitingTextValidator"
  <2> DEFINE b == SendAbort(w)
  <2>1. u = InitEmpty(b)
    BY <1>5 DEF reset_nolock_data
  <2>2. w.d.vid # 0 /\ w.d.tfl = 0
    BY <1>1, <1>5 DEF Settled, Texts, Holding
  <2>3. Moves(w, b, o) /\ b.d.tfl = 0 /\ b.d.vid = 0 /\ Sound(w, b)
    BY <1>1, <2>2, AbortMoves
  <2> HIDE DEF u, b
  <2>4. Restarts(w, u, o) /\ SameOwed(w, u) /\ Sound(b, u)
    BY <1>1, <2>1, <2>3, MovedRestarts
  <2> QED BY <1>9, <2>3, <2>4, SoundInTurn
<1>6. CASE w.x.st = "RejectedText"
  <2>1. u = InitEmpty(w)
    BY <1>6 DEF reset_nolock_data
  <2>2. w.d.tfl = 0 /\ (Faithful(opt) /\ w.d.vid # 0 => w.v.res[w.d.vid] # "none")
    BY <1>1, <1>6 DEF Settled, Holding, Validating
  <2> HIDE DEF u
  <2> QED BY <1>1, <1>9, <2>1, <2>2, InitEmptyRestarts
<1>7. CASE w.x.st = "Empty"
  <2>1. u = w
    BY <1>7 DEF reset_nolock_data
  <2>2. Serves(w, w, o) /\ Sound(w, w)
    BY DEF Serves, Beside, Elsewhere, SameLists, Sound, Good
  <2> QED BY <1>7, <2>1, <2>2
<1>8. CASE w.x.st \notin {"WaitingFileValidator", "SyncRange",
        "WaitingContinuationRange", "WaitingTextValidator", "RejectedText", "Empty"}
  <2>1. u = Throw(w)
    BY <1>8 DEF reset_nolock_data
  <2> HIDE DEF u
  <2>2. /\ IsWork(u) /\ u.c = w.c /\ u.x = w.x /\ u.d = w.d /\ u.v = w.v /\ u.s = w.s
        /\ u.thrown = TRUE
    BY <1>1, <2>1 DEF Throw, IsWork
  <2>3. Serves(w, u, o) /\ Sound(w, u)
    BY <1>1, <2>2 DEF Serves, Good, Owned, Beside, Elsewhere, SameLists, Sound
  <2> QED BY <2>2, <2>3
<1> HIDE DEF u
<1> QED BY <1>2, <1>3, <1>4, <1>5, <1>6, <1>7, <1>8

(* A handler that writes fields of the context and of the transfer. *)
LEMMA FieldsGood ==
  ASSUME NEW w, NEW o, Good(w, o), NEW u, IsWork(u), u.c = w.c, u.v = w.v,
         u.s.keep = w.s.keep, SameLists(w.x, u.x),
         u.d.own = w.d.own, u.d.tfl = w.d.tfl, u.d.vid = w.d.vid,
         u.d.verdict = w.d.verdict, Settled(u.c, u.x.st, u.d, u.v)
  PROVE  Serves(w, u, o)
<1>1. Held(u.d, u.v, u.s.keep, o)
  BY HeldSame DEF Good, Owned
<1> QED BY <1>1 DEF Serves, Good, Owned, Beside, Elsewhere

LEMMA AssertedGood ==
  ASSUME NEW w, NEW o, Good(w, o), NEW p
  PROVE  LET u == Asserted(w, p)
         IN  /\ Serves(w, u, o) /\ SameSeen(w, u) /\ (p => Sound(w, u))
             /\ u.d = w.d /\ u.v = w.v /\ u.x = w.x /\ u.thrown = w.thrown
             /\ u.c = w.c
<1> DEFINE u == Asserted(w, p)
<1>1. Moves(w, u, o) /\ u.d = w.d /\ u.v = w.v /\ (p => Sound(w, u))
  BY AssertedMoves DEF Good
<1> HIDE DEF u
<1>2. Serves(w, u, o) /\ SameSeen(w, u) /\ u.x = w.x /\ u.thrown = w.thrown
      /\ u.c = w.c
  BY <1>1, MovesBeside DEF Moves, Serves, Good
<1> QED BY <1>1, <1>2 DEF u

LEMMA ThrowGood ==
  ASSUME NEW w, NEW o, Good(w, o)
  PROVE  Serves(w, Throw(w), o) /\ Sound(w, Throw(w)) /\ Throw(w).thrown
<1> DEFINE u == Throw(w)
<1>1. /\ IsWork(u) /\ u.c = w.c /\ u.x = w.x /\ u.d = w.d /\ u.v = w.v /\ u.s = w.s
      /\ u.thrown = TRUE
  BY DEF Throw, IsWork, Good, Owned
<1> HIDE DEF u
<1>2. Serves(w, u, o) /\ Sound(w, u)
  BY <1>1 DEF Serves, Good, Owned, Beside, Elsewhere, SameLists, Sound
<1> QED BY <1>1, <1>2 DEF u

LEMMA ServesInTurn ==
  ASSUME NEW w, NEW u, NEW t, NEW o, Serves(w, u, o), Serves(u, t, o)
  PROVE  Serves(w, t, o)
BY BesideInTurn DEF Serves

LEMMA ServesItself ==
  ASSUME NEW w, NEW o, Good(w, o)
  PROVE  Serves(w, w, o) /\ Sound(w, w)
BY DEF Serves, Beside, Elsewhere, SameLists, Sound

(* The same after an assertion. *)
LEMMA SetFields ==
  ASSUME NEW w, NEW o, Good(w, o), NEW p, NEW u, IsWork(u), u.c = w.c, u.v = w.v,
         u.s = Asserted(w, p).s, SameLists(w.x, u.x),
         u.d.own = w.d.own, u.d.tfl = w.d.tfl, u.d.vid = w.d.vid,
         u.d.verdict = w.d.verdict, Settled(u.c, u.x.st, u.d, u.v)
  PROVE  Serves(w, u, o) /\ (p => Sound(w, u)) /\ SameSeen(w, u)
<1> DEFINE a == Asserted(w, p)
<1>1. SameSeen(w, a) /\ (p => Sound(w, a)) /\ u.s = a.s
  BY AssertedGood
<1> HIDE DEF a
<1>2. SameSeen(w, u) /\ (p => Sound(w, u))
  BY <1>1 DEF SameSeen, Sound
<1>3. Serves(w, u, o)
  BY <1>2, FieldsGood DEF SameSeen
<1> QED BY <1>2, <1>3

(* What a data unit that goes on may change. *)
LEMMA PassFileGood ==
  ASSUME NEW w, NEW o, Good(w, o)
  PROVE  LET u == PassFile(w)
         IN  /\ Serves(w, u, o) /\ Sound(w, u) /\ u.s.text = w.s.text
             /\ u.d = w.d /\ u.v = w.v /\ u.x = w.x /\ u.thrown = w.thrown
             /\ u.c = w.c
<1> DEFINE s == [w.s EXCEPT !.file = @ \/ (Verifies(w.c) /\ w.v.res[w.d.own] # "accept")]
           u == PassFile(w)
<1>1. IsSeen(s) /\ s.text = w.s.text /\ s.keep = w.s.keep
      /\ s.assertion = w.s.assertion
  BY DEF Good, Owned, IsWork, IsSeen
<1>2. u = [w EXCEPT !.s = s]
  BY DEF PassFile
<1> HIDE DEF s, u
<1>3. /\ IsWork(u) /\ u.c = w.c /\ u.x = w.x /\ u.thrown = w.thrown
      /\ u.v = w.v /\ u.d = w.d /\ u.s = s
  BY <1>1, <1>2 DEF Good, Owned, IsWork
<1>4. Serves(w, u, o) /\ Sound(w, u) /\ u.s.text = w.s.text
  BY <1>1, <1>3 DEF Serves, Good, Owned, Beside, Elsewhere, SameLists, Sound
<1> QED BY <1>3, <1>4 DEF u

----------------------------------------------------------------------------
(* The other side asked for something else than what is owed to it. *)
Cut(w) ==
    /\ w.x.owed => w.x.cut
    /\ w.x.fmt # "none" => w.x.cut
    /\ ~Verifies(w.c) => ~w.x.owed

LEMMA CutAnswering ==
  ASSUME NEW w, NEW u, Cut(w), u.c = w.c, SameOwed(w, u), u.x.fmt = w.x.fmt,
         u.x.st # "GetRange",
         u.x.st = "RequestedRange" =>
           u.x.asked # {} /\ \A a \in u.x.asked : a.sid = u.d.sid => a.range
  PROVE  Answering(u.c, u.x, u.d)
BY DEF Cut, SameOwed, Answering

Requested(q) == q.len \in Nat /\ q.pos \in Nat

NewStream(x, q) == \A a \in x.asked : a.sid # q.sid

LEMMA InitContentsServes ==
  ASSUME NEW w, NEW o, Good(w, o), w.x.st = "Empty", ~w.thrown,
         Naturals_(w.x, w.d), Cut(w), NEW q, Requested(q), NewStream(w.x, q), NEW left
  PROVE  LET u == init_contents(w, q)
         IN  /\ Serves(w, u, o) /\ Sound(w, u) /\ ~u.thrown /\ Fit(u, left)
             /\ u.x.files = w.x.files /\ u.s.text = w.s.text
             /\ u.x.st \in {"Empty", "Size", "RequestedRange"}
             /\ u.d.own = w.d.own
<1> DEFINE u == init_contents(w, q)
           End == /\ Serves(w, u, o) /\ Sound(w, u) /\ ~u.thrown /\ Fit(u, left)
                  /\ u.x.files = w.x.files /\ u.s.text = w.s.text
                  /\ u.x.st \in {"Empty", "Size", "RequestedRange"}
                  /\ u.d.own = w.d.own
<1> SUFFICES End
  OBVIOUS
<1>1. /\ IsWork(w) /\ IsContext(w.x) /\ IsRange(w.d) /\ w.c \in Sides
      /\ Settled(w.c, w.x.st, w.d, w.v)
  BY DEF Good, Owned, IsWork
<1>2. CASE u = w
  <2>1. Fit(w, left)
    <3>1. Answering(w.c, w.x, w.d)
      BY CutAnswering DEF SameOwed
    <3> QED BY <3>1 DEF Fit, Buffered, Waiting
  <2> HIDE DEF u
  <2> QED BY <1>2, <2>1, ServesItself
<1>3. CASE ~q.range /\ q.file \in DOMAIN w.x.files
  <2> DEFINE a == Asserted(w, w.x.st \in {"Empty"})
             x == [w.x EXCEPT !.st = "Size", !.asked =
                     @ \cup {[sid |-> q.sid, range |-> FALSE, len |-> 0]}]
             d == [w.d EXCEPT !.sid = q.sid, !.file = q.file]
             t == [a EXCEPT !.x = x, !.d = d]
  <2>1. /\ Serves(w, a, o) /\ SameSeen(w, a) /\ Sound(w, a)
        /\ a.d = w.d /\ a.v = w.v /\ a.x = w.x /\ a.thrown = w.thrown /\ a.c = w.c
    BY AssertedGood
  <2>2. u = Asked([SetState(w, {"Empty"}, "Size") EXCEPT
                  !.d.sid = q.sid, !.d.file = q.file], q.sid, FALSE, 0)
    BY <1>3 DEF init_contents, init_contents_size
  <2> HIDE DEF u
  <2>3. u = [[[a EXCEPT !.x.st = "Size"] EXCEPT !.d.sid = q.sid, !.d.file = q.file]
               EXCEPT !.x.asked = @ \cup {[sid |-> q.sid, range |-> FALSE, len |-> 0]}]
    BY <2>2 DEF Asked, SetState
  <2> HIDE DEF a
  <2>4. u = t
    BY <1>1, <2>1, <2>3 DEF Serves, Good, Owned, IsWork, IsContext, IsRange
  <2>5. /\ IsContext(x) /\ SameLists(w.x, x) /\ x.st = "Size" /\ x.files = w.x.files
        /\ x.owed = w.x.owed /\ x.cut = w.x.cut /\ x.clen = w.x.clen
        /\ x.cpos = w.x.cpos /\ x.resp = w.x.resp
    BY <1>1 DEF IsContext, SameLists
  <2>6. /\ IsRange(d) /\ d.own = w.d.own /\ d.tfl = w.d.tfl /\ d.vid = w.d.vid
        /\ d.verdict = w.d.verdict /\ d.sig = w.d.sig /\ d.file = q.file
        /\ d.off = w.d.off /\ d.req = w.d.req /\ d.size = w.d.size
        /\ d.first = w.d.first
    BY <1>1 DEF IsRange
  <2> HIDE DEF x, d
  <2>7. Settled(w.c, x.st, d, w.v)
    BY <1>1, <2>5, <2>6 DEF Settled, Holding, Texts, Signing, Waiting, Validating
  <2>8. /\ IsWork(t) /\ t.x = x /\ t.d = d /\ t.v = w.v /\ t.s = a.s
        /\ t.c = w.c /\ t.thrown = w.thrown
    BY <2>1, <2>5, <2>6 DEF Serves, Good, Owned, IsWork
  <2> HIDE DEF t
  <2>9. Serves(w, u, o) /\ Sound(w, u) /\ SameSeen(w, u)
    BY <2>4, <2>5, <2>6, <2>7, <2>8, SetFields DEF a
  <2>10. Naturals_(u.x, u.d) /\ Buffered(u.x, u.d, left)
    BY <1>3, <2>4, <2>5, <2>6, <2>8 DEF Naturals_, Buffered, Waiting
  <2>11. Answering(u.c, u.x, u.d)
    <3>1. u.c = w.c /\ SameOwed(w, u) /\ u.x.fmt = w.x.fmt /\ u.x.st = "Size"
      BY <2>1, <2>4, <2>5, <2>8 DEF SameOwed, SameLists
    <3> QED BY <3>1, CutAnswering
  <2> QED BY <2>1, <2>4, <2>5, <2>6, <2>8, <2>9, <2>10, <2>11 DEF Fit, SameSeen
<1>4. CASE q.range /\ q.file \in DOMAIN w.x.files /\ q.pos = 0 /\ q.len <= MaxFile
  <2> DEFINE a == Asserted(w, w.x.st \in {"Empty"})
             x == [w.x EXCEPT !.st = "RequestedRange", !.asked =
                     @ \cup {[sid |-> q.sid, range |-> TRUE, len |-> q.len]}]
             d == [w.d EXCEPT !.sid = q.sid, !.file = q.file, !.first = q.len,
                              !.size = w.x.files[q.file]]
             t == [a EXCEPT !.x = x, !.d = d]
  <2>1. /\ Serves(w, a, o) /\ SameSeen(w, a) /\ Sound(w, a)
        /\ a.d = w.d /\ a.v = w.v /\ a.x = w.x /\ a.thrown = w.thrown /\ a.c = w.c
    BY AssertedGood
  <2>2. u = Asked([SetState(w, {"Empty"}, "RequestedRange") EXCEPT
                  !.d.sid = q.sid, !.d.file = q.file, !.d.first = q.len,
                  !.d.size = w.x.files[q.file]], q.sid, TRUE, q.len)
    BY <1>4 DEF init_contents, init_contents_range
  <2> HIDE DEF u
  <2>3. u = [[[a EXCEPT !.x.st = "RequestedRange"] EXCEPT !.d.sid = q.sid,
                 !.d.file = q.file, !.d.first = q.len, !.d.size = w.x.files[q.file]]
               EXCEPT !.x.asked = @ \cup {[sid |-> q.sid, range |-> TRUE, len |-> q.len]}]
    BY <2>2 DEF Asked, SetState
  <2> HIDE DEF a
  <2>4. u = t
    BY <1>1, <2>1, <2>3 DEF Serves, Good, Owned, IsWork, IsContext, IsRange
  <2>5. /\ IsContext(x) /\ SameLists(w.x, x) /\ x.st = "RequestedRange"
        /\ x.files = w.x.files /\ x.asked # {}
        /\ x.owed = w.x.owed /\ x.cut = w.x.cut /\ x.clen = w.x.clen
        /\ x.cpos = w.x.cpos /\ x.resp = w.x.resp
    BY <1>1 DEF IsContext, SameLists
  <2>12. \A k \in x.asked : k \in w.x.asked \/ k.range
    <3> DEFINE n == [sid |-> q.sid, range |-> TRUE, len |-> q.len]
    <3>1. x.asked = w.x.asked \cup {n} /\ n.range
      BY <1>1 DEF IsContext
    <3> HIDE DEF n, x
    <3> QED BY <3>1
  <2>6. /\ IsRange(d) /\ d.own = w.d.own /\ d.tfl = w.d.tfl /\ d.vid = w.d.vid
        /\ d.verdict = w.d.verdict /\ d.sig = w.d.sig
        /\ d.off = w.d.off /\ d.req = w.d.req /\ d.size = w.x.files[q.file]
        /\ d.first = q.len /\ d.sid = q.sid
    BY <1>1 DEF IsRange
  <2> HIDE DEF x, d
  <2>7. Settled(w.c, x.st, d, w.v)
    BY <1>1, <2>5, <2>6 DEF Settled, Holding, Texts, Signing, Waiting, Validating
  <2>8. /\ IsWork(t) /\ t.x = x /\ t.d = d /\ t.v = w.v /\ t.s = a.s
        /\ t.c = w.c /\ t.thrown = w.thrown
    BY <2>1, <2>5, <2>6 DEF Serves, Good, Owned, IsWork
  <2> HIDE DEF t
  <2>9. Serves(w, u, o) /\ Sound(w, u) /\ SameSeen(w, u)
    BY <2>4, <2>5, <2>6, <2>7, <2>8, SetFields DEF a
  <2>10. Naturals_(u.x, u.d) /\ Buffered(u.x, u.d, left)
    <3>1. w.x.files[q.file] \in Nat
      <4> DEFINE sizes == w.x.files
      <4>1. sizes \in Seq(Nat) /\ q.file \in DOMAIN sizes
        BY <1>4 DEF Naturals_
      <4> HIDE DEF sizes
      <4>2. q.file \in 1 .. Len(sizes)
        BY <4>1, LenProperties
      <4>3. sizes[q.file] \in Nat
        BY <4>1, <4>2, ElementOfSeq
      <4> QED BY <4>3 DEF sizes
    <3> QED BY <3>1, <2>4, <2>5, <2>6, <2>8 DEF Naturals_, Buffered, Waiting, Requested
  <2>11. Answering(u.c, u.x, u.d)
    <3>1. u.c = w.c /\ SameOwed(w, u) /\ u.x.fmt = w.x.fmt /\ u.x.asked # {}
          /\ u.x.st = "RequestedRange"
      BY <2>1, <2>4, <2>5, <2>8 DEF SameOwed, SameLists
    <3>2. \A k \in u.x.asked : k.sid = u.d.sid => k.range
      BY <2>4, <2>5, <2>6, <2>8, <2>12 DEF NewStream
    <3> QED BY <3>1, <3>2, CutAnswering
  <2> QED BY <2>1, <2>4, <2>5, <2>6, <2>8, <2>9, <2>10, <2>11 DEF Fit, SameSeen
<1>5. \/ u = w
      \/ ~q.range /\ q.file \in DOMAIN w.x.files
      \/ q.range /\ q.file \in DOMAIN w.x.files /\ q.pos = 0 /\ q.len <= MaxFile
  BY DEF init_contents, init_contents_size, init_contents_range
<1> HIDE DEF u
<1> QED BY <1>2, <1>3, <1>4, <1>5

(* What the handler of a request ends with. *)
Asks(w, u, o, left) ==
    /\ Serves(w, u, o) /\ Sound(w, u) /\ u.s.text = w.s.text
    /\ u.x.files = w.x.files /\ (u.thrown \/ Fit(u, left))

(* The fields of a context but its state and what side was asked. *)
SameContext(x, y) ==
    /\ SameLists(x, y) /\ y.clen = x.clen /\ y.cpos = x.cpos /\ y.resp = x.resp
    /\ y.owed = x.owed /\ y.cut = x.cut /\ y.files = x.files

(* What a transfer holds, and its signature. *)
SameLink(d, e) ==
    /\ e.own = d.own /\ e.tfl = d.tfl /\ e.vid = d.vid /\ e.verdict = d.verdict
    /\ e.sig = d.sig

SameRest(w, u) == u.c = w.c /\ u.v = w.v /\ u.thrown = w.thrown

LEMMA SetStateFields ==
  ASSUME NEW w, IsWork(w), NEW from, NEW to
  PROVE  LET u == SetState(w, from, to)
         IN  /\ IsWork(u) /\ SameRest(w, u) /\ u.d = w.d
             /\ SameContext(w.x, u.x) /\ u.x.st = to /\ u.x.asked = w.x.asked
             /\ SameSeen(w, u) /\ (w.x.st \in from => Sound(w, u))
<1> DEFINE p == w.x.st \in from
           a == Asserted(w, p)
           x == [w.x EXCEPT !.st = to]
           s == [w.s EXCEPT !.assertion = @ \/ ~p]
           u == SetState(w, from, to)
<1>1. /\ IsSeen(s) /\ s.file = w.s.file /\ s.text = w.s.text
      /\ s.keep = w.s.keep /\ (p /\ ~w.s.assertion => ~s.assertion)
  BY DEF IsWork, IsSeen
<1>2. u = [w EXCEPT !.s = s, !.x = x]
  BY DEF SetState, Asserted, IsWork
<1>3. IsContext(x) /\ SameContext(w.x, x) /\ x.st = to /\ x.asked = w.x.asked
  BY DEF IsWork, IsContext, SameContext, SameLists
<1> HIDE DEF x, s, u
<1>4. IsWork(u) /\ SameRest(w, u) /\ u.d = w.d /\ u.x = x /\ u.s = s
  BY <1>1, <1>2, <1>3 DEF IsWork, SameRest
<1> QED BY <1>1, <1>3, <1>4 DEF u, SameSeen, Sound

LEMMA AskedFields ==
  ASSUME NEW w, IsWork(w), NEW sid, NEW range, NEW len
  PROVE  LET u == Asked(w, sid, range, len)
         IN  /\ IsWork(u) /\ SameRest(w, u) /\ u.d = w.d /\ u.s = w.s
             /\ SameContext(w.x, u.x) /\ u.x.st = w.x.st /\ u.x.asked # {}
<1> DEFINE x == [w.x EXCEPT !.asked =
                   @ \cup {[sid |-> sid, range |-> range, len |-> len]}]
           u == Asked(w, sid, range, len)
<1>1. IsContext(x) /\ SameContext(w.x, x) /\ x.st = w.x.st /\ x.asked # {}
  BY DEF IsWork, IsContext, SameContext, SameLists
<1>2. u = [w EXCEPT !.x = x]
  BY DEF Asked
<1> HIDE DEF x, u
<1>3. IsWork(u) /\ SameRest(w, u) /\ u.d = w.d /\ u.s = w.s /\ u.x = x
  BY <1>1, <1>2 DEF IsWork, SameRest
<1> QED BY <1>1, <1>3 DEF u

LEMMA ContinuationFields ==
  ASSUME NEW w, IsWork(w), NEW q
  PROVE  LET u == update_continuation_range(w, q)
         IN  /\ IsWork(u) /\ SameRest(w, u) /\ u.s = w.s
             /\ SameLink(w.d, u.d) /\ u.d.off = w.d.off /\ u.d.size = w.d.size
             /\ u.d.first = w.d.first /\ u.d.file = w.d.file
             /\ u.d.req = MinOf(w.d.size - w.d.off, q.len)
             /\ SameContext(w.x, u.x) /\ u.x.st = w.x.st /\ u.x.asked # {}
<1> DEFINE d == [w.d EXCEPT !.sid = q.sid,
                            !.req = MinOf(w.d.size - w.d.off, q.len)]
           t == [w EXCEPT !.d = d]
           u == Asked(t, q.sid, TRUE, q.len)
<1>1. /\ IsRange(d) /\ SameLink(w.d, d) /\ d.off = w.d.off /\ d.size = w.d.size
      /\ d.first = w.d.first /\ d.file = w.d.file
      /\ d.req = MinOf(w.d.size - w.d.off, q.len)
  BY DEF IsWork, IsRange, SameLink
<1>2. update_continuation_range(w, q) = u
  BY DEF update_continuation_range, IsWork, IsRange
<1> HIDE DEF d
<1>3. IsWork(t) /\ SameRest(w, t) /\ t.s = w.s /\ t.x = w.x /\ t.d = d
  BY <1>1 DEF IsWork, SameRest
<1> HIDE DEF t
<1>4. /\ IsWork(u) /\ SameRest(t, u) /\ u.d = t.d /\ u.s = t.s
      /\ SameContext(t.x, u.x) /\ u.x.st = t.x.st /\ u.x.asked # {}
  BY <1>3, AskedFields
<1> HIDE DEF u
<1> QED BY <1>1, <1>2, <1>3, <1>4 DEF SameRest

LEMMA MinIsNat ==
  ASSUME NEW a \in Nat, NEW b \in Nat
  PROVE  MinOf(a, b) \in Nat /\ MinOf(a, b) <= a /\ MinOf(a, b) <= b
BY DEF MinOf

(* A continuation of a file whose data goes on at once. *)
LEMMA ContinuesServes ==
  ASSUME NEW w, NEW o, Good(w, o), NEW left, Fit(w, left), Cut(w), ~w.thrown,
         NEW q, Requested(q), NEW from,
         w.x.st = from, from \in {"SyncRange", "WaitingContinuationRange"},
         w.d.sig = "Update"
  PROVE  Asks(w, SetState(update_continuation_range(w, q), {from}, "Range"), o, left)
<1> DEFINE g == update_continuation_range(w, q)
           u == SetState(g, {from}, "Range")
<1>1. /\ IsWork(w) /\ IsContext(w.x) /\ IsRange(w.d) /\ w.c \in Sides
      /\ Settled(w.c, w.x.st, w.d, w.v)
  BY DEF Good, Owned, IsWork
<1>2. /\ IsWork(g) /\ SameRest(w, g) /\ g.s = w.s
      /\ SameLink(w.d, g.d) /\ g.d.off = w.d.off /\ g.d.size = w.d.size
      /\ g.d.first = w.d.first
      /\ g.d.req = MinOf(w.d.size - w.d.off, q.len)
      /\ SameContext(w.x, g.x) /\ g.x.st = w.x.st
  BY <1>1, ContinuationFields
<1> HIDE DEF g
<1>3. /\ IsWork(u) /\ SameRest(g, u) /\ u.d = g.d
      /\ SameContext(g.x, u.x) /\ u.x.st = "Range"
      /\ SameSeen(g, u) /\ (g.x.st \in {from} => Sound(g, u))
  BY <1>2, SetStateFields
<1> HIDE DEF u
<1>4. SameLink(w.d, u.d)
  BY <1>2, <1>3
<1>5. /\ SameContext(w.x, u.x) /\ SameSeen(w, u) /\ Sound(w, u) /\ SameRest(w, u)
      /\ SameLists(w.x, u.x)
  BY <1>2, <1>3 DEF SameContext, SameLists, SameSeen, Sound, SameRest
<1>6. Settled(u.c, u.x.st, u.d, u.v)
  BY <1>1, <1>3, <1>4, <1>5
     DEF SameLink, SameRest, Settled, Holding, Texts, Signing, Waiting, Validating
<1>8. Serves(w, u, o)
  BY <1>3, <1>4, <1>5, <1>6, FieldsGood DEF SameLink, SameRest, SameSeen
<1>9. Naturals_(u.x, u.d) /\ Buffered(u.x, u.d, left)
  <2>1. w.d.size - w.d.off \in Nat
    BY DEF Fit, Naturals_, Buffered
  <2>2. u.d.req \in Nat
    BY <1>2, <1>3, <2>1, MinIsNat DEF Requested
  <2> QED BY <1>2, <1>3, <1>5, <2>2 DEF Fit, Naturals_, Buffered, Waiting, SameContext
<1>10. Answering(u.c, u.x, u.d)
  BY <1>3, <1>5, CutAnswering DEF SameOwed, SameLists, SameContext, SameRest
<1>11. Asks(w, u, o, left)
  BY <1>5, <1>8, <1>9, <1>10 DEF Asks, Fit, SameSeen, SameContext
<1> QED BY <1>11 DEF u, g

(* The transfer over, the context may be asked for another file. *)
LEMMA RestartsAsked ==
  ASSUME NEW w, NEW u, NEW o, IsWork(w), w.c \in Sides, Restarts(w, u, o),
         SameOwed(w, u), Sound(w, u), Naturals_(w.x, w.d), Cut(w), NEW left
  PROVE  /\ Asks(w, u, o, left) /\ Cut(u) /\ Naturals_(u.x, u.d) /\ Good(u, o)
         /\ u.x.st = "Empty" /\ u.thrown = w.thrown
<1>1. Serves(w, u, o) /\ u.x.st = "Empty" /\ u.x.files = w.x.files
  BY RestartsServes
<1>2. Fit(u, left)
  BY RestartsFit DEF SameOwed, Cut
<1>3. Cut(u)
  BY <1>1 DEF Cut, SameOwed, Serves, Beside, SameLists
<1> QED BY <1>1, <1>2, <1>3 DEF Asks, Serves, Restarts, SameSeen, Fit

LEMMA RestartedAsks ==
  ASSUME NEW w, NEW t, NEW o, IsWork(w), w.c \in Sides, Restarts(w, t, o), ~w.thrown,
         SameOwed(w, t), Sound(w, t), Naturals_(w.x, w.d), Cut(w), NEW left,
         NEW q, Requested(q), NewStream(w.x, q)
  PROVE  Asks(w, init_contents(t, q), o, left)
<1> DEFINE u == init_contents(t, q)
<1>1. /\ Asks(w, t, o, left) /\ Cut(t) /\ Naturals_(t.x, t.d) /\ Good(t, o)
      /\ t.x.st = "Empty" /\ ~t.thrown /\ NewStream(t.x, q)
  BY RestartsAsked, RestartsServes DEF NewStream
<1>2. /\ Serves(t, u, o) /\ Sound(t, u) /\ ~u.thrown /\ Fit(u, left)
      /\ u.x.files = t.x.files /\ u.s.text = t.s.text
  BY <1>1, InitContentsServes
<1> HIDE DEF u
<1>3. Asks(w, u, o, left)
  BY <1>1, <1>2, ServesInTurn, SoundInTurn DEF Asks
<1> QED BY <1>3 DEF u

LEMMA AsksInTurn ==
  ASSUME NEW w, NEW u, NEW t, NEW o, NEW left,
         Serves(w, u, o), Sound(w, u), SameSeen(w, u), u.x = w.x,
         Asks(u, t, o, left)
  PROVE  Asks(w, t, o, left)
BY ServesInTurn, SoundInTurn DEF Asks, SameSeen

LEMMA ThrowAsks ==
  ASSUME NEW w, NEW o, NEW left, Good(w, o)
  PROVE  Asks(w, Throw(w), o, left)
<1>1. Serves(w, Throw(w), o) /\ Sound(w, Throw(w)) /\ Throw(w).thrown
  BY ThrowGood
<1>2. Throw(w).s = w.s /\ Throw(w).x = w.x
  BY DEF Good, Owned, IsWork, Throw
<1> QED BY <1>1, <1>2 DEF Asks

LEMMA SyncRequestAsks ==
  ASSUME NEW w, NEW o, Good(w, o), NEW left, Fit(w, left), Cut(w), ~w.thrown,
         NEW q, Requested(q), NewStream(w.x, q), w.x.st = "SyncRange"
  PROVE  Asks(w, SyncRequest(w, q), o, left)
<1> DEFINE p == w.d.off = w.x.clen /\ w.d.off >= w.x.cpos
           a == Asserted(w, p)
           stop == InitEmpty(stop_valid_transfer(a))
           len == MinOf(w.x.clen - q.pos, q.len)
           known == w.x.clen - q.pos
           u == SyncRequest(w, q)
<1>1. p
  BY DEF Fit, Buffered, Naturals_
<1>2. /\ Serves(w, a, o) /\ SameSeen(w, a) /\ Sound(w, a)
      /\ a.d = w.d /\ a.v = w.v /\ a.x = w.x /\ a.thrown = w.thrown /\ a.c = w.c
  BY <1>1, AssertedGood
<1>3. u = IF ~q.range \/ q.file # w.d.file THEN init_contents(stop, q)
        ELSE IF q.pos > w.x.cpos THEN stop
        ELSE IF HasDigest(w.d) \/ q.pos + q.len < w.x.clen
        THEN IF len > ReadMax THEN Throw(a)
             ELSE [PassFile(a) EXCEPT !.x.cpos = q.pos + len]
        ELSE IF q.pos = w.x.clen
        THEN SetState(update_continuation_range(a, q), {"SyncRange"}, "Range")
        ELSE SetState([Asked(a, w.d.sid, TRUE, q.len - known) EXCEPT
                         !.x.cpos = q.pos, !.d.sid = q.sid,
                         !.d.req = q.len - known, !.d.first = q.len],
                      {"SyncRange"}, "RequestedSyncRange")
  BY DEF SyncRequest
<1> HIDE DEF a, p, u
<1>4. /\ Good(a, o) /\ Fit(a, left) /\ Cut(a) /\ ~a.thrown /\ a.x.st = "SyncRange"
      /\ a.d.vid = 0 /\ IsWork(a) /\ a.c \in Sides /\ NewStream(a.x, q)
  BY <1>2 DEF Serves, Fit, Cut, Good, Owned, Settled, Validating
<1>5. Restarts(a, stop, o) /\ SameOwed(a, stop) /\ Sound(a, stop)
  <2> DEFINE b == stop_valid_transfer(a)
  <2>1. Moves(a, b, o) /\ b.d.tfl = 0 /\ b.d.vid = 0 /\ Sound(a, b) /\ Owned(a, o)
    BY <1>4, StopValidMoves DEF Good
  <2> HIDE DEF b
  <2>2. LET t == InitEmpty(b) IN Restarts(a, t, o) /\ SameOwed(a, t) /\ Sound(b, t)
    BY <2>1, MovedRestarts
  <2> QED BY <2>1, <2>2, SoundInTurn DEF b
<1> HIDE DEF stop
<1>6. Naturals_(a.x, a.d)
  BY <1>4 DEF Fit
<1>7. Asks(a, init_contents(stop, q), o, left) /\ Asks(a, stop, o, left)
  BY <1>4, <1>5, <1>6, RestartedAsks, RestartsAsked
<1>8. Asks(a, Throw(a), o, left)
  BY <1>4, ThrowAsks
<1>9. ASSUME w.d.sig = "Update"
      PROVE  Asks(a, SetState(update_continuation_range(a, q), {"SyncRange"}, "Range"),
                  o, left)
  BY <1>2, <1>4, <1>9, ContinuesServes
<1>10. ASSUME ~(q.pos > w.x.cpos), ~(len > ReadMax)
       PROVE  Asks(a, [PassFile(a) EXCEPT !.x.cpos = q.pos + len], o, left)
  <2> DEFINE f == PassFile(a)
             x == [a.x EXCEPT !.cpos = q.pos + len]
             t == [f EXCEPT !.x.cpos = q.pos + len]
  <2>1. /\ Serves(a, f, o) /\ Sound(a, f) /\ f.s.text = a.s.text
        /\ f.d = a.d /\ f.v = a.v /\ f.x = a.x /\ f.thrown = a.thrown
        /\ f.c = a.c
    BY <1>4, PassFileGood
  <2> HIDE DEF f
  <2>2. Good(f, o) /\ IsWork(f)
    BY <2>1 DEF Serves, Good, Owned
  <2>3. t = [f EXCEPT !.x = x]
    BY <2>1
  <2>4. /\ IsContext(x) /\ SameLists(a.x, x) /\ x.st = a.x.st /\ x.clen = a.x.clen
        /\ x.cpos = q.pos + len /\ x.resp = a.x.resp /\ x.owed = a.x.owed
        /\ x.cut = a.x.cut /\ x.files = a.x.files
    BY <1>4 DEF IsWork, IsContext, SameLists
  <2> HIDE DEF x, t
  <2>5. /\ IsWork(t) /\ SameRest(f, t) /\ t.x = x /\ t.d = f.d /\ t.s = f.s
    BY <2>2, <2>3, <2>4 DEF IsWork, SameRest
  <2>6. Serves(f, t, o)
    BY <2>1, <2>2, <2>4, <2>5, FieldsGood DEF SameRest, Good
  <2>7. q.pos + len \in Nat /\ q.pos + len <= w.x.clen
    <3>1. w.x.clen - q.pos \in Nat
      BY <1>10 DEF Fit, Buffered, Naturals_, Requested
    <3>2. len \in Nat /\ len <= w.x.clen - q.pos
      BY <3>1, MinIsNat DEF Requested
    <3>3. w.x.clen \in Nat /\ q.pos \in Nat
      BY DEF Fit, Naturals_, Requested
    <3> HIDE DEF len
    <3> QED BY <3>2, <3>3
  <2>8. Fit(t, left)
    <3>1. Naturals_(t.x, t.d) /\ Buffered(t.x, t.d, left)
      BY <1>2, <1>4, <2>1, <2>4, <2>5, <2>7 DEF Fit, Naturals_, Buffered, Waiting
    <3>2. Answering(t.c, t.x, t.d)
      BY <1>4, <2>1, <2>4, <2>5, CutAnswering DEF SameOwed, SameLists, SameRest
    <3> QED BY <3>1, <3>2 DEF Fit
  <2>9. Asks(a, t, o, left)
    BY <2>1, <2>4, <2>5, <2>6, <2>8, ServesInTurn DEF Asks, Sound
  <2> QED BY <2>9 DEF t, f
<1>11. ASSUME w.d.sig = "Update", ~(q.pos > w.x.cpos), ~(q.pos + q.len < w.x.clen)
       PROVE  Asks(a, SetState([Asked(a, w.d.sid, TRUE, q.len - known) EXCEPT
                         !.x.cpos = q.pos, !.d.sid = q.sid,
                         !.d.req = q.len - known, !.d.first = q.len],
                      {"SyncRange"}, "RequestedSyncRange"), o, left)
  <2> DEFINE k == Asked(a, w.d.sid, TRUE, q.len - known)
             x == [k.x EXCEPT !.cpos = q.pos]
             d == [a.d EXCEPT !.sid = q.sid, !.req = q.len - known, !.first = q.len]
             m == [k EXCEPT !.x.cpos = q.pos, !.d.sid = q.sid,
                            !.d.req = q.len - known, !.d.first = q.len]
             t == SetState(m, {"SyncRange"}, "RequestedSyncRange")
  <2>1. /\ IsWork(k) /\ SameRest(a, k) /\ k.d = a.d /\ k.s = a.s
        /\ SameContext(a.x, k.x) /\ k.x.st = a.x.st /\ k.x.asked # {}
    BY <1>4, AskedFields
  <2> HIDE DEF k
  <2>2. m = [k EXCEPT !.x = x, !.d = d]
    BY <2>1 DEF IsWork, IsRange
  <2>3. /\ IsContext(x) /\ SameLists(a.x, x) /\ x.st = a.x.st /\ x.clen = a.x.clen
        /\ x.cpos = q.pos /\ x.resp = a.x.resp /\ x.owed = a.x.owed
        /\ x.cut = a.x.cut /\ x.files = a.x.files
    BY <2>1 DEF IsWork, IsContext, SameLists, SameContext
  <2>4. /\ IsRange(d) /\ SameLink(a.d, d) /\ d.off = a.d.off /\ d.size = a.d.size
        /\ d.req = q.len - known /\ d.first = q.len
    BY <1>4 DEF IsWork, IsRange, SameLink
  <2> HIDE DEF x, d, m
  <2>5. IsWork(m) /\ SameRest(a, m) /\ m.x = x /\ m.d = d /\ m.s = a.s
    BY <2>1, <2>2, <2>3, <2>4 DEF IsWork, SameRest
  <2>6. /\ IsWork(t) /\ SameRest(m, t) /\ t.d = m.d
        /\ SameContext(m.x, t.x) /\ t.x.st = "RequestedSyncRange"
        /\ SameSeen(m, t) /\ (m.x.st \in {"SyncRange"} => Sound(m, t))
    BY <2>5, SetStateFields
  <2> HIDE DEF t
  <2>7. /\ SameRest(a, t) /\ SameSeen(a, t) /\ Sound(a, t) /\ SameLists(a.x, t.x)
        /\ SameLink(a.d, t.d)
    BY <1>4, <2>3, <2>4, <2>5, <2>6
       DEF SameRest, SameSeen, Sound, SameLists, SameContext
  <2>8. Settled(t.c, t.x.st, t.d, t.v)
    BY <1>2, <1>4, <1>11, <2>6, <2>7
       DEF Good, SameLink, SameRest, Settled, Holding, Texts, Signing, Waiting, Validating
  <2>9. Serves(a, t, o)
    BY <1>4, <2>6, <2>7, <2>8, FieldsGood DEF SameLink, SameRest, SameSeen
  <2>10. q.len - known \in Nat /\ q.len - known <= q.len
    BY SMTT(60), <1>11 DEF Fit, Naturals_, Requested, Buffered
  <2>11. Naturals_(t.x, t.d) /\ Buffered(t.x, t.d, left)
    BY SMTT(60), <1>2, <1>4, <2>3, <2>4, <2>5, <2>6, <2>10
       DEF Fit, Naturals_, Buffered, Waiting, SameContext, Requested
  <2>12. Answering(t.c, t.x, t.d)
    BY <1>4, <2>3, <2>5, <2>6, <2>7, CutAnswering
       DEF SameOwed, SameLists, SameRest, SameContext
  <2>13. Asks(a, t, o, left)
    BY <2>3, <2>5, <2>6, <2>7, <2>9, <2>11, <2>12 DEF Asks, Fit, SameSeen, SameContext
  <2> QED BY <2>13 DEF t, m, k
<1>12. HasDigest(w.d) \/ w.d.sig = "Update"
  BY DEF HasDigest
<1> HIDE DEF len, known
<1>13. Asks(a, u, o, left)
  BY <1>3, <1>7, <1>8, <1>9, <1>10, <1>11, <1>12
<1>14. Asks(w, u, o, left)
  BY <1>2, <1>13, AsksInTurn
<1> QED BY <1>14 DEF u

LEMMA NoLockRequestAsks ==
  ASSUME NEW w, NEW o, Good(w, o), NEW left, Fit(w, left), Cut(w), ~w.thrown,
         NEW q, Requested(q), NewStream(w.x, q)
  PROVE  LET u == NoLockRequest(w, q)
         IN  /\ Asks(w, u, o, left)
             /\ w.x.st \in {"Text", "TextAccumulate", "RejectedText", "Size",
                            "RequestedRange"} => u.thrown
             /\ w.x.st = "Empty" => /\ u.x.st \in {"Empty", "Size", "RequestedRange"}
                                    /\ u.d.own = w.d.own
<1> DEFINE u == NoLockRequest(w, q)
           End == /\ Asks(w, u, o, left)
                  /\ w.x.st \in {"Text", "TextAccumulate", "RejectedText", "Size",
                                 "RequestedRange"} => u.thrown
                  /\ w.x.st = "Empty" =>
                       /\ u.x.st \in {"Empty", "Size", "RequestedRange"}
                       /\ u.d.own = w.d.own
<1> SUFFICES End
  OBVIOUS
<1>1. /\ Owned(w, o) /\ IsWork(w) /\ w.c \in Sides /\ Settled(w.c, w.x.st, w.d, w.v)
      /\ Naturals_(w.x, w.d)
  BY DEF Good, Owned, Fit
<1>2. CASE w.x.st = "SyncRange"
  <2>1. u = SyncRequest(w, q)
    BY <1>2 DEF NoLockRequest
  <2> HIDE DEF u
  <2> QED BY <1>2, <2>1, SyncRequestAsks
<1>3. CASE w.x.st = "WaitingContinuationRange"
  <2> DEFINE b == broken_file_transfer(w)
             t == InitEmpty(b)
  <2>1. u = IF q.range /\ q.pos = w.d.off /\ q.file = w.d.file
            THEN SetState(update_continuation_range(w, q),
                          {"WaitingContinuationRange"}, "Range")
            ELSE init_contents(t, q)
    BY <1>3 DEF NoLockRequest, ContinuationRequest
  <2>2. w.d.sig = "Update" /\ (w.d.vid # 0 => w.v.svc[w.d.vid] = "open")
    BY <1>1, <1>3 DEF Settled, Signing
  <2>3. Moves(w, b, o) /\ b.d.tfl = 0 /\ b.d.vid = 0 /\ Sound(w, b)
    BY <1>1, <2>2, BrokenMoves
  <2> HIDE DEF u, b
  <2>4. Restarts(w, t, o) /\ SameOwed(w, t) /\ Sound(b, t)
    BY <1>1, <2>3, MovedRestarts
  <2> HIDE DEF t
  <2>5. Asks(w, init_contents(t, q), o, left)
    BY <1>1, <2>3, <2>4, SoundInTurn, RestartedAsks
  <2>6. Asks(w, SetState(update_continuation_range(w, q),
                         {"WaitingContinuationRange"}, "Range"), o, left)
    BY <1>3, <2>2, ContinuesServes
  <2> QED BY <1>3, <2>1, <2>5, <2>6
<1>4. CASE w.x.st = "WaitingFileValidator"
  <2> DEFINE b == stop_wait_validation(w)
             t == InitEmpty(b)
  <2>1. u = init_contents(t, q)
    BY <1>4 DEF NoLockRequest
  <2>2. w.d.vid # 0
    BY <1>1, <1>4 DEF Settled
  <2>3. Moves(w, b, o) /\ b.d.tfl = 0 /\ b.d.vid = 0 /\ Sound(w, b)
    BY <1>1, <2>2, StopWaitMoves
  <2> HIDE DEF u, b
  <2>4. Restarts(w, t, o) /\ SameOwed(w, t) /\ Sound(b, t)
    BY <1>1, <2>3, MovedRestarts
  <2> HIDE DEF t
  <2>5. Asks(w, init_contents(t, q), o, left)
    BY <1>1, <2>3, <2>4, SoundInTurn, RestartedAsks
  <2> QED BY <1>4, <2>1, <2>5
<1>5. CASE w.x.st = "Empty"
  <2>1. u = init_contents(w, q)
    BY <1>5 DEF NoLockRequest
  <2> HIDE DEF u
  <2> QED BY <1>1, <1>5, <2>1, InitContentsServes DEF Asks
<1>6. CASE w.x.st \notin {"SyncRange", "WaitingContinuationRange",
                          "WaitingFileValidator", "Empty"}
  <2>1. u = Throw(w)
    BY <1>6 DEF NoLockRequest
  <2> HIDE DEF u
  <2> QED BY <1>6, <2>1, ThrowAsks, ThrowGood
<1> HIDE DEF u
<1> QED BY <1>2, <1>3, <1>4, <1>5, <1>6

----------------------------------------------------------------------------
(* The answer of the side.  Its last chunk may leave nothing asked. *)
Owing(c, x, d) ==
    /\ ~Verifies(c) => ~x.owed
    /\ Verifies(c) =>
         /\ x.owed => \/ x.st \in Waiting \/ x.cut
                      \/ x.st = "Empty" /\ d.size > MaxFile
         /\ x.fmt # "none" /\ (x.owed \/ x.st = "RequestedRange") => x.cut
         /\ x.st \in {"RequestedRange", "GetRange"} =>
              \A a \in x.asked : a.sid = d.sid => a.range

Ready(w, left) ==
    Naturals_(w.x, w.d) /\ Buffered(w.x, w.d, left) /\ Owing(w.c, w.x, w.d)

LEMMA ReadyFit ==
  ASSUME NEW w, NEW left, Ready(w, left), w.x.st # "RequestedRange"
  PROVE  Fit(w, left)
BY DEF Ready, Fit, Owing, Answering

(* What the handler of a response ends with. *)
Replies(w, u, o, left) ==
    /\ Serves(w, u, o) /\ (Calm(opt) => Sound(w, u)) /\ u.s.text = w.s.text
    /\ u.thrown \/ Fit(u, left)

(* A step of a handler on its way. *)
Steps(w, u, o) == Serves(w, u, o) /\ Sound(w, u) /\ u.s.text = w.s.text

LEMMA StepsInTurn ==
  ASSUME NEW w, NEW u, NEW t, NEW o, Steps(w, u, o), Steps(u, t, o)
  PROVE  Steps(w, t, o)
BY ServesInTurn, SoundInTurn DEF Steps

LEMMA RepliesInTurn ==
  ASSUME NEW w, NEW u, NEW t, NEW o, NEW left, Steps(w, u, o), Replies(u, t, o, left)
  PROVE  Replies(w, t, o, left)
BY ServesInTurn, SoundInTurn DEF Steps, Replies

LEMMA StepsReplies ==
  ASSUME NEW w, NEW u, NEW o, NEW left, Steps(w, u, o), u.thrown \/ Fit(u, left)
  PROVE  Replies(w, u, o, left)
BY DEF Steps, Replies

LEMMA ThrowReplies ==
  ASSUME NEW w, NEW o, NEW left, Good(w, o)
  PROVE  Replies(w, Throw(w), o, left)
BY ThrowAsks DEF Asks, Replies

LEMMA SettledSame ==
  ASSUME NEW c, NEW st, NEW d, NEW e, NEW v, Settled(c, st, d, v), SameLink(d, e)
  PROVE  Settled(c, st, e, v)
BY DEF Settled, SameLink

LEMMA FieldsSteps ==
  ASSUME NEW w, NEW o, Good(w, o), NEW u, IsWork(u), u.c = w.c, u.v = w.v,
         u.s.keep = w.s.keep, u.s.text = w.s.text, Sound(w, u),
         SameLists(w.x, u.x), u.x.st = w.x.st, SameLink(w.d, u.d)
  PROVE  Steps(w, u, o)
<1>1. Settled(u.c, u.x.st, u.d, u.v)
  BY SettledSame DEF Good
<1>2. Serves(w, u, o)
  BY SMTT(60), <1>1, FieldsGood DEF SameLink
<1> QED BY <1>2 DEF Steps

(* The transfer over: the response that was announced is not left so. *)
LEMMA RestartsReplies ==
  ASSUME NEW w, NEW u, NEW o, IsWork(w), w.c \in Sides, Restarts(w, u, o), Sound(w, u),
         Naturals_(w.x, w.d), ~Verifies(w.c) => ~u.x.owed,
         u.x.owed => u.x.cut \/ w.d.size > MaxFile,
         u.x.owed /\ w.x.fmt # "none" => u.x.cut, NEW left
  PROVE  Replies(w, u, o, left)
BY ZenonT(60), RestartsServes, RestartsFit DEF Replies, Restarts, SameSeen

(* The same for a transfer whose response was not announced, or cut. *)
LEMMA OverReplies ==
  ASSUME NEW w, NEW u, NEW o, IsWork(w), w.c \in Sides, Restarts(w, u, o), Sound(w, u),
         Naturals_(w.x, w.d), SameOwed(w, u), Owing(w.c, w.x, w.d),
         w.x.st \notin Waiting, w.x.st # "Empty", NEW left
  PROVE  Replies(w, u, o, left)
<1>1. /\ ~Verifies(w.c) => ~u.x.owed
      /\ u.x.owed => u.x.cut \/ w.d.size > MaxFile
      /\ u.x.owed /\ w.x.fmt # "none" => u.x.cut
  BY DEF Owing, SameOwed
<1> QED BY <1>1, RestartsReplies

LEMMA MovesRestarts ==
  ASSUME NEW w, NEW u, NEW t, NEW o, Moves(w, u, o), Restarts(u, t, o)
  PROVE  Restarts(w, t, o)
BY DEF Restarts, Moves, SameSeen, SameFile, Elsewhere, EmptyRange

LEMMA UpdateFields ==
  ASSUME NEW w, IsWork(w), NEW n
  PROVE  LET u == update_file_range_data(w, n)
             k == MinOf(n, w.d.req)
         IN  /\ IsWork(u) /\ SameRest(w, u) /\ u.x = w.x /\ SameSeen(w, u)
             /\ SameLink(w.d, u.d) /\ u.d.off = w.d.off + k
             /\ u.d.req = w.d.req - k /\ u.d.size = w.d.size
             /\ u.d.first = w.d.first /\ u.d.file = w.d.file /\ u.d.sid = w.d.sid
             /\ (w.d.vid # 0 => w.v.svc[w.d.vid] = "open") => Sound(w, u)
<1> DEFINE k == MinOf(n, w.d.req)
           p == w.d.vid # 0 => w.v.svc[w.d.vid] = "open"
           d == [w.d EXCEPT !.off = @ + k, !.req = @ - k]
           s == [w.s EXCEPT !.assertion = @ \/ ~p]
           u == update_file_range_data(w, n)
<1>1. /\ IsSeen(s) /\ s.file = w.s.file /\ s.text = w.s.text
      /\ s.keep = w.s.keep /\ (p /\ ~w.s.assertion => ~s.assertion)
  BY DEF IsWork, IsSeen
<1>2. u = [w EXCEPT !.s = s, !.d = d]
  BY DEF update_file_range_data, Asserted, IsWork, IsRange
<1>3. /\ IsRange(d) /\ SameLink(w.d, d) /\ d.off = w.d.off + k
      /\ d.req = w.d.req - k /\ d.size = w.d.size
      /\ d.first = w.d.first /\ d.file = w.d.file /\ d.sid = w.d.sid
  BY DEF IsWork, IsRange, SameLink
<1> HIDE DEF d, s, u, k
<1>4. IsWork(u) /\ SameRest(w, u) /\ u.x = w.x /\ u.d = d /\ u.s = s
  BY <1>1, <1>2, <1>3 DEF IsWork, SameRest
<1> QED BY <1>1, <1>3, <1>4 DEF u, k, SameSeen, Sound

LEMMA UpdateSteps ==
  ASSUME NEW w, NEW o, Good(w, o), NEW n \in Nat, Naturals_(w.x, w.d),
         w.d.vid # 0 => w.v.svc[w.d.vid] = "open"
  PROVE  LET u == update_file_range_data(w, n)
             k == MinOf(n, w.d.req)
         IN  /\ Steps(w, u, o) /\ Naturals_(u.x, u.d) /\ u.x = w.x /\ SameRest(w, u)
             /\ SameLink(w.d, u.d) /\ u.d.off = w.d.off + k
             /\ u.d.req = w.d.req - k /\ u.d.size = w.d.size
             /\ u.d.first = w.d.first /\ u.d.sid = w.d.sid
<1> DEFINE u == update_file_range_data(w, n)
           k == MinOf(n, w.d.req)
<1>1. /\ IsWork(u) /\ SameRest(w, u) /\ u.x = w.x /\ SameSeen(w, u)
      /\ SameLink(w.d, u.d) /\ u.d.off = w.d.off + k
      /\ u.d.req = w.d.req - k /\ u.d.size = w.d.size
      /\ u.d.first = w.d.first /\ u.d.sid = w.d.sid /\ Sound(w, u)
  BY UpdateFields DEF Good, Owned
<1>2. k \in Nat /\ k <= w.d.req
  BY MinIsNat DEF Naturals_
<1> HIDE DEF u, k
<1>3. Naturals_(u.x, u.d)
  <2>1. w.d.req \in Nat /\ w.d.off \in Nat
    BY DEF Naturals_
  <2>2. u.d.req \in Nat /\ u.d.off \in Nat
    BY <1>1, <1>2, <2>1
  <2> QED BY <1>1, <2>2 DEF Naturals_
<1>4. Steps(w, u, o)
  BY <1>1, FieldsSteps DEF SameRest, SameSeen, SameLists
<1> QED BY <1>1, <1>3, <1>4 DEF u, k

(* The end of the data: the signature is final. *)
LEMMA FinalizeMoves ==
  ASSUME NEW w, NEW o, Owned(w, o), Naturals_(w.x, w.d), Complete(w.d),
         w.d.sig = "Update"
  PROVE  LET u == set_finalize_file_transfer(w)
         IN  /\ Owned(u, o) /\ u.c = w.c /\ u.x = w.x /\ u.v = w.v
             /\ u.thrown = w.thrown /\ SameSeen(w, u) /\ Sound(w, u)
             /\ u.d.own = w.d.own /\ u.d.verdict = w.d.verdict
             /\ u.d.vid = w.d.vid /\ u.d.tfl = w.d.tfl /\ u.d.sig = "Final"
             /\ u.d.off = w.d.off /\ u.d.req = w.d.req /\ u.d.first = w.d.first
             /\ u.d.sid = w.d.sid /\ Naturals_(u.x, u.d)
<1> DEFINE m == MinOf(w.d.size, w.d.off)
           d == [w.d EXCEPT !.size = m]
           b == [w EXCEPT !.d = d]
           u == set_finalize_file_transfer(w)
<1>1. u = SigFinal(b)
  BY DEF set_finalize_file_transfer, Owned, IsWork, IsRange
<1>2. /\ IsRange(d) /\ d.own = w.d.own /\ d.verdict = w.d.verdict
      /\ d.vid = w.d.vid /\ d.tfl = w.d.tfl /\ d.sig = w.d.sig
      /\ d.off = w.d.off /\ d.req = w.d.req /\ d.first = w.d.first
      /\ d.sid = w.d.sid /\ d.size = m
  BY DEF Owned, IsWork, IsRange
<1>3. m \in Nat
  BY MinIsNat DEF Naturals_
<1> HIDE DEF d, m, u
<1>4. /\ IsWork(b) /\ b.c = w.c /\ b.x = w.x /\ b.v = w.v /\ b.s = w.s /\ b.d = d
      /\ b.thrown = w.thrown
  BY <1>2 DEF Owned, IsWork
<1> HIDE DEF b
<1>5. Owned(b, o)
  BY <1>2, <1>4, HeldSame DEF Owned
<1>6. /\ Moves(b, u, o) /\ u.v = b.v /\ u.d.tfl = b.d.tfl
      /\ u.d.vid = b.d.vid /\ u.d.sig = "Final" /\ Sound(b, u)
  BY <1>1, <1>2, <1>4, <1>5, SigMoves
<1>7. Naturals_(u.x, u.d)
  BY <1>2, <1>3, <1>4, <1>6 DEF Moves, SameFile, Naturals_
<1> QED BY <1>2, <1>4, <1>6, <1>7 DEF Moves, SameFile, SameSeen, Sound, u

LEMMA PassUpdateSteps ==
  ASSUME NEW w, NEW o, Good(w, o), NEW n \in Nat, Naturals_(w.x, w.d),
         w.d.vid # 0 => w.v.svc[w.d.vid] = "open"
  PROVE  LET u == PassFile(update_file_range_data(w, n))
         IN  /\ Steps(w, u, o) /\ Naturals_(u.x, u.d) /\ u.x = w.x /\ SameRest(w, u)
             /\ SameLink(w.d, u.d) /\ u.d.size = w.d.size /\ u.d.first = w.d.first
             /\ u.d.req <= w.d.req
<1> DEFINE b == update_file_range_data(w, n)
           k == MinOf(n, w.d.req)
           u == PassFile(b)
<1>1. /\ Steps(w, b, o) /\ Naturals_(b.x, b.d) /\ b.x = w.x /\ SameRest(w, b)
      /\ SameLink(w.d, b.d) /\ b.d.size = w.d.size /\ b.d.first = w.d.first
      /\ b.d.req = w.d.req - k
  BY UpdateSteps
<1>2. k \in Nat /\ w.d.req \in Nat
  BY MinIsNat DEF Naturals_
<1> HIDE DEF b, k
<1>3. /\ Serves(b, u, o) /\ Sound(b, u) /\ u.s.text = b.s.text
      /\ u.d = b.d /\ u.v = b.v /\ u.x = b.x /\ u.thrown = b.thrown /\ u.c = b.c
  BY <1>1, PassFileGood DEF Steps, Serves
<1> HIDE DEF u
<1>4. Steps(w, u, o)
  BY <1>1, <1>3, StepsInTurn DEF Steps
<1> QED BY <1>1, <1>2, <1>3, <1>4 DEF u, b, SameRest

LEMMA WaitsContinuation ==
  ASSUME NEW w, NEW o, Good(w, o), Naturals_(w.x, w.d), Owing(w.c, w.x, w.d),
         NEW from, w.x.st = from, from \in {"Range", "RequestedSyncRange"},
         ~Complete(w.d), NEW left
  PROVE  Replies(w, SetState(w, {from}, "WaitingContinuationRange"), o, left)
<1> DEFINE u == SetState(w, {from}, "WaitingContinuationRange")
<1>1. /\ IsWork(u) /\ SameRest(w, u) /\ u.d = w.d
      /\ SameContext(w.x, u.x) /\ u.x.st = "WaitingContinuationRange"
      /\ SameSeen(w, u) /\ Sound(w, u)
  BY SetStateFields DEF Good, Owned
<1> HIDE DEF u
<1>2. Settled(u.c, u.x.st, u.d, u.v)
  BY <1>1 DEF Good, SameRest, Settled, Holding, Texts, Signing, Waiting, Validating
<1>3. Serves(w, u, o)
  BY <1>1, <1>2, FieldsGood DEF SameRest, SameSeen, SameContext
<1>4. w.d.off < w.d.size
  BY DEF Complete, Naturals_
<1>5. Naturals_(u.x, u.d) /\ Buffered(u.x, u.d, left)
  BY <1>1, <1>4 DEF Naturals_, Buffered, Waiting, SameContext
<1>6. Answering(u.c, u.x, u.d)
  BY <1>1 DEF Owing, Answering, SameRest, SameContext, SameLists, Waiting
<1>7. Replies(w, u, o, left)
  BY <1>1, <1>3, <1>5, <1>6 DEF Replies, Fit, SameSeen
<1> QED BY <1>7 DEF u

LEMMA RangeChunkReplies ==
  ASSUME NEW w, NEW o, Good(w, o), Naturals_(w.x, w.d), Owing(w.c, w.x, w.d),
         w.x.st = "Range", NEW n \in Nat, NEW last \in BOOLEAN, NEW left
  PROVE  Replies(w, RangeChunk(w, n, last), o, left)
<1> DEFINE u == PassFile(update_file_range_data(w, n))
           f == set_finalize_file_transfer(u)
           b == close_file_rng(f)
           t == InitEmpty(b)
           z == SetState(u, {"Range"}, "WaitingContinuationRange")
<1>1. (w.d.vid # 0 => w.v.svc[w.d.vid] = "open") /\ w.d.sig = "Update"
  BY DEF Good, Settled, Signing
<1>2. /\ Steps(w, u, o) /\ Naturals_(u.x, u.d) /\ u.x = w.x /\ SameRest(w, u)
      /\ SameLink(w.d, u.d) /\ u.d.size = w.d.size
  BY <1>1, PassUpdateSteps
<1>3. RangeChunk(w, n, last) = IF ~last THEN u ELSE IF Complete(u.d) THEN t ELSE z
  BY DEF RangeChunk
<1> HIDE DEF u
<1>4. /\ Good(u, o) /\ u.x.st = "Range" /\ Owing(u.c, u.x, u.d) /\ Owned(u, o)
      /\ u.c \in Sides /\ IsWork(u)
  BY <1>2 DEF Steps, Serves, SameRest, Owing, Good, Owned
<1>5. Replies(u, u, o, left)
  <2>1. Ready(u, left)
    BY <1>2, <1>4 DEF Ready, Buffered, Waiting
  <2>2. Fit(u, left)
    BY <1>4, <2>1, ReadyFit
  <2> QED BY <1>4, <2>2, ServesItself DEF Replies
<1>6. ASSUME Complete(u.d) PROVE Replies(u, t, o, left)
  <2>1. /\ Owned(f, o) /\ f.c = u.c /\ f.x = u.x /\ f.v = u.v
        /\ f.thrown = u.thrown /\ SameSeen(u, f) /\ Sound(u, f)
        /\ f.d.own = u.d.own /\ f.d.verdict = u.d.verdict
        /\ f.d.vid = u.d.vid /\ f.d.tfl = u.d.tfl /\ f.d.sig = "Final"
        /\ Naturals_(f.x, f.d)
    BY <1>1, <1>2, <1>4, <1>6, FinalizeMoves DEF SameLink
  <2> HIDE DEF f
  <2>2. f.d.vid # 0 => f.v.svc[f.d.vid] = "open"
    BY <1>1, <1>2, <2>1 DEF SameLink, SameRest
  <2>3. Moves(f, b, o) /\ b.d.tfl = 0 /\ b.d.vid = 0 /\ Sound(f, b)
    BY <2>1, <2>2, CloseRangeMoves
  <2> HIDE DEF b
  <2>4. Restarts(f, t, o) /\ SameOwed(f, t) /\ Sound(b, t)
    BY <2>1, <2>3, MovedRestarts
  <2> HIDE DEF t
  <2>5. Owing(f.c, f.x, f.d) /\ f.x.st = "Range" /\ IsWork(f) /\ f.c \in Sides
    BY <1>4, <2>1 DEF Owing, Owned
  <2>6. Replies(f, t, o, left)
    BY <2>1, <2>3, <2>4, <2>5, OverReplies, SoundInTurn DEF Waiting
  <2>7. Beside(u, f, o)
    BY <2>1 DEF Beside, SameSeen, Elsewhere, SameLists
  <2> QED BY <2>1, <2>6, <2>7, BesideInTurn, SoundInTurn DEF Replies, Serves, SameSeen
<1>7. ASSUME ~Complete(u.d) PROVE Replies(u, z, o, left)
  BY <1>2, <1>4, <1>7, WaitsContinuation
<1>8. last \/ ~last
  OBVIOUS
<1> HIDE DEF t, z
<1> QED BY <1>2, <1>3, <1>5, <1>6, <1>7, RepliesInTurn

LEMMA SyncChunkReplies ==
  ASSUME NEW w, NEW o, Good(w, o), NEW before, Ready(w, before), ~w.thrown,
         w.x.st = "RequestedSyncRange", NEW n \in Nat, NEW last \in BOOLEAN, NEW left
  PROVE  Replies(w, SyncChunk(w, n, last), o, left)
<1> DEFINE u == PassFile(update_file_range_data(w, n))
           known == w.d.first - w.d.req
           g == [u EXCEPT !.x.cpos = @ + known, !.d.first = 0]
           r == IF w.d.first = 0 THEN u
                ELSE IF w.x.cpos + known > w.x.clen \/ known > ReadMax THEN Throw(u)
                ELSE g
           f == set_finalize_file_transfer(r)
           b == close_file_rng_tfl(f)
           t == InitEmpty(b)
           z == SetState(r, {"RequestedSyncRange"}, "WaitingContinuationRange")
<1>1. w.d.vid = 0 /\ w.d.sig = "Update" /\ Naturals_(w.x, w.d) /\ Owing(w.c, w.x, w.d)
  BY DEF Good, Settled, Signing, Validating, Ready
<1>2. /\ Steps(w, u, o) /\ Naturals_(u.x, u.d) /\ u.x = w.x /\ SameRest(w, u)
      /\ SameLink(w.d, u.d) /\ u.d.size = w.d.size /\ u.d.first = w.d.first
      /\ u.d.req <= w.d.req
  BY <1>1, PassUpdateSteps
<1>3. SyncChunk(w, n, last) = IF r.thrown \/ ~last THEN r
                              ELSE IF Complete(r.d) THEN t ELSE z
  BY DEF SyncChunk
<1> HIDE DEF u
<1>4. Good(u, o) /\ IsWork(u) /\ u.c = w.c /\ ~u.thrown
  BY <1>2 DEF Steps, Serves, Good, Owned, SameRest
<1>5. /\ Steps(u, r, o) /\ Naturals_(r.x, r.d) /\ SameLink(u.d, r.d)
      /\ ~r.thrown => /\ r.x.st = u.x.st /\ Owing(r.c, r.x, r.d)
                      /\ Buffered(r.x, r.d, left)
  <2>1. CASE w.d.first = 0
    <3>1. r = u
      BY <2>1
    <3>2. Steps(u, u, o)
      BY <1>4, ServesItself DEF Steps
    <3>3. Buffered(u.x, u.d, left)
      BY <1>2, <2>1 DEF Buffered, Waiting
    <3>4. Owing(u.c, u.x, u.d)
      BY <1>1, <1>2, <1>4 DEF Owing
    <3> HIDE DEF r
    <3> QED BY <1>2, <3>1, <3>2, <3>3, <3>4 DEF SameLink
  <2>2. CASE w.d.first # 0 /\ (w.x.cpos + known > w.x.clen \/ known > ReadMax)
    <3>1. r = Throw(u)
      BY <2>2
    <3>2. Serves(u, r, o) /\ Sound(u, r) /\ r.thrown
      BY <1>4, <3>1, ThrowGood
    <3>3. r.s = u.s /\ r.x = u.x /\ r.d = u.d
      BY <1>4, <3>1 DEF IsWork, Throw
    <3> HIDE DEF r
    <3> QED BY <1>2, <3>2, <3>3 DEF Steps, SameLink
  <2>3. CASE w.d.first # 0 /\ ~(w.x.cpos + known > w.x.clen \/ known > ReadMax)
    <3> DEFINE x == [u.x EXCEPT !.cpos = @ + known]
               d == [u.d EXCEPT !.first = 0]
    <3>1. r = g
      BY <2>3
    <3>2. g = [u EXCEPT !.x = x, !.d = d]
      BY <1>4 DEF IsWork
    <3>3. /\ IsContext(x) /\ SameLists(u.x, x) /\ x.st = u.x.st /\ x.clen = u.x.clen
          /\ x.cpos = u.x.cpos + known /\ x.resp = u.x.resp /\ x.owed = u.x.owed
          /\ x.cut = u.x.cut /\ x.files = u.x.files /\ x.asked = u.x.asked
      BY <1>4 DEF IsWork, IsContext, SameLists
    <3>4. /\ IsRange(d) /\ SameLink(u.d, d) /\ d.off = u.d.off /\ d.size = u.d.size
          /\ d.req = u.d.req /\ d.first = 0
      BY <1>4 DEF IsWork, IsRange, SameLink
    <3>5. known \in Nat
      BY <2>3 DEF Ready, Buffered, Naturals_
    <3> HIDE DEF x, d, r, g, known
    <3>6. IsWork(r) /\ r.x = x /\ r.d = d /\ r.s = u.s /\ r.c = u.c /\ r.v = u.v
      BY <1>4, <3>1, <3>2, <3>3, <3>4 DEF IsWork
    <3>7. Steps(u, r, o)
      BY <1>4, <3>3, <3>4, <3>6, FieldsSteps DEF Sound
    <3>8. Naturals_(r.x, r.d)
      <4>1. x.cpos \in Nat
        BY <1>2, <3>3, <3>5 DEF Naturals_
      <4>2. Naturals_(x, d)
        BY <1>2, <3>3, <3>4, <4>1 DEF Naturals_
      <4> QED BY <3>6, <4>2
    <3>9. Buffered(r.x, r.d, left)
      BY <1>2, <3>3, <3>4, <3>6 DEF Buffered, Waiting
    <3>10. Owing(r.c, r.x, r.d)
      BY <1>1, <1>2, <1>4, <3>3, <3>6 DEF Owing, SameLists, Waiting
    <3> QED BY <3>3, <3>4, <3>6, <3>7, <3>8, <3>9, <3>10
  <2> QED BY <2>1, <2>2, <2>3
<1> HIDE DEF r
<1>6. Good(r, o) /\ Owned(r, o) /\ IsWork(r) /\ r.c \in Sides /\ r.d.vid = 0
      /\ r.d.sig = "Update"
  BY <1>1, <1>2, <1>5 DEF Steps, Serves, Good, Owned, SameLink
<1>7. Replies(r, r, o, left)
  <2>1. ~r.thrown => Fit(r, left)
    BY <1>2, <1>5, ReadyFit DEF Ready
  <2> QED BY <1>6, <2>1, ServesItself DEF Replies
<1>8. ASSUME Complete(r.d), ~r.thrown PROVE Replies(r, t, o, left)
  <2>1. /\ Owned(f, o) /\ f.c = r.c /\ f.x = r.x /\ f.v = r.v
        /\ f.thrown = r.thrown /\ SameSeen(r, f) /\ Sound(r, f)
        /\ f.d.vid = r.d.vid /\ f.d.sig = "Final" /\ Naturals_(f.x, f.d)
    BY <1>5, <1>6, <1>8, FinalizeMoves
  <2> HIDE DEF f
  <2>2. Moves(f, b, o) /\ b.d.tfl = 0 /\ b.d.vid = 0 /\ Sound(f, b)
    BY <1>6, <2>1, CloseTflMoves
  <2> HIDE DEF b
  <2>3. Restarts(f, t, o) /\ SameOwed(f, t) /\ Sound(b, t)
    BY <2>1, <2>2, MovedRestarts
  <2> HIDE DEF t
  <2>4. /\ Owing(f.c, f.x, f.d) /\ f.x.st = "RequestedSyncRange" /\ IsWork(f)
        /\ f.c \in Sides
    BY <1>2, <1>5, <1>6, <1>8, <2>1 DEF Owing, Owned
  <2>5. Replies(f, t, o, left)
    BY <2>1, <2>2, <2>3, <2>4, OverReplies, SoundInTurn DEF Waiting
  <2>6. Beside(r, f, o)
    BY <2>1 DEF Beside, SameSeen, Elsewhere, SameLists
  <2> QED BY <2>1, <2>5, <2>6, BesideInTurn, SoundInTurn DEF Replies, Serves, SameSeen
<1>9. ASSUME ~Complete(r.d), ~r.thrown PROVE Replies(r, z, o, left)
  BY <1>2, <1>5, <1>6, <1>9, WaitsContinuation
<1>10. Steps(w, r, o)
  BY <1>2, <1>5, StepsInTurn
<1> HIDE DEF t, z
<1> QED BY <1>3, <1>7, <1>8, <1>9, <1>10, RepliesInTurn

----------------------------------------------------------------------------
(* A transfer begins; e holds nothing before it. *)
LEMMA NewTransferFields ==
  ASSUME NEW w, IsWork(w), NEW o, NEW d, IsRange(d),
         NEW e, Held(e, w.v, w.s.keep, o), e.tfl = 0, e.vid = 0, Fresh(w.v) # {}
  PROVE  LET u == NewTransfer(w, d)
         IN  /\ IsWork(u) /\ u.c = w.c /\ u.x = w.x /\ u.s = w.s
             /\ u.thrown = w.thrown
             /\ Held(u.d, u.v, u.s.keep, o) /\ Elsewhere(w.v, u.v, o)
             /\ u.d.own \in Ids /\ w.v.svc[u.d.own] = "free"
             /\ u.d.verdict = "Wait" /\ u.d.sig = "Update" /\ u.d.off = 0
             /\ u.d.req = MinOf(d.first, d.size) /\ u.d.size = d.size
             /\ u.d.first = d.first /\ u.d.sid = d.sid /\ u.d.file = d.file
             /\ (u.d.vid # 0 <=> w.c \in opt.target)
             /\ u.d.vid # 0 => u.v.svc[u.d.vid] = "open" /\ u.v.res[u.d.vid] = "none"
             /\ \A n \in Ids \ {u.d.own} : u.v.svc[n] = w.v.svc[n]
<1> DEFINE n == NewId(w.v)
           y == IF w.c \in opt.target THEN "open" ELSE "none"
           z == IF opt.fdx THEN "open" ELSE "none"
           g == [d EXCEPT !.vid = IF w.c \in opt.target THEN n ELSE 0, !.own = n,
                           !.off = 0, !.req = MinOf(d.first, d.size),
                           !.tfl = IF opt.fdx THEN n ELSE 0,
                           !.sig = "Update", !.verdict = "Wait"]
           v == [w.v EXCEPT !.svc[n] = y, !.tfl[n] = z]
           u == NewTransfer(w, d)
<1>1. n \in Ids /\ w.v.svc[n] = "free" /\ w.v.tfl[n] = "free" /\ n # 0
  BY FreshIsNew DEF Ids
<1>2. u = [w EXCEPT !.d = g, !.v.svc[n] = y, !.v.tfl[n] = z]
  BY DEF NewTransfer
<1>3. /\ y \in {"open", "none"} /\ y # "free" /\ (y = "open" <=> w.c \in opt.target)
      /\ z \in {"open", "none"} /\ (z = "open" <=> opt.fdx)
  OBVIOUS
<1> HIDE DEF n, u
<1>4. /\ IsRange(g) /\ g.own = n /\ g.verdict = "Wait" /\ g.sig = "Update"
      /\ g.off = 0 /\ g.req = MinOf(d.first, d.size) /\ g.size = d.size
      /\ g.first = d.first /\ g.sid = d.sid /\ g.file = d.file
      /\ g.vid = (IF w.c \in opt.target THEN n ELSE 0)
      /\ g.tfl = (IF opt.fdx THEN n ELSE 0)
  BY DEF IsRange
<1> HIDE DEF y, z
<1>5. /\ IsService(v) /\ v.svc = [w.v.svc EXCEPT ![n] = y]
      /\ v.tfl = [w.v.tfl EXCEPT ![n] = z] /\ v.res = w.v.res
      /\ v.files = w.v.files /\ v.texts = w.v.texts
  BY DEF IsWork, IsService
<1>6. u = [w EXCEPT !.d = g, !.v = v]
  BY ZenonT(60), <1>2 DEF IsWork, IsService
<1> HIDE DEF g, v
<1>7. /\ IsWork(u) /\ u.c = w.c /\ u.x = w.x /\ u.s = w.s
      /\ u.thrown = w.thrown /\ u.d = g /\ u.v = v
  BY <1>4, <1>5, <1>6 DEF IsWork
<1>8. /\ w.v.svc = [j \in Ids |-> w.v.svc[j]] /\ w.v.res[n] = "none"
      /\ w.v.tfl = [j \in Ids |-> w.v.tfl[j]]
  BY <1>1 DEF Held, Services
<1>9. Opens(w.v, v, n) /\ v.svc[n] = y /\ v.tfl[n] = z
  <2>1. v.svc[n] = y /\ \A j \in Ids \ {n} : v.svc[j] = w.v.svc[j]
    BY <1>1, <1>5, <1>8
  <2>2. v.tfl[n] = z /\ \A j \in Ids \ {n} : v.tfl[j] = w.v.tfl[j]
    BY <1>1, <1>5, <1>8
  <2>3. v.svc = [j \in Ids |-> v.svc[j]] /\ v.tfl = [j \in Ids |-> v.tfl[j]]
    BY <1>5, <1>8
  <2> QED BY <1>5, <2>1, <2>2, <2>3 DEF Opens
<1>10. Held(g, v, w.s.keep, o) /\ Elsewhere(w.v, v, o)
  <2> DEFINE k == w.s.keep
             j == w.v
  <2>1. /\ Held(e, j, k, o) /\ j.svc[n] = "free" /\ j.tfl[n] = "free"
        /\ Opens(j, v, n) /\ n \in Ids
    BY <1>1, <1>9
  <2>2. /\ g.vid \in {0, n} /\ g.tfl \in {0, n} /\ (v.svc[n] = "open" <=> g.vid = n)
        /\ v.tfl[n] = "open" <=> g.tfl = n
        /\ v.svc[n] \in {"open", "none"} /\ g.own = n /\ g.verdict = "Wait"
    BY <1>1, <1>3, <1>4, <1>9
  <2> HIDE DEF j, k
  <2>3. Held(g, v, k, o) /\ Elsewhere(j, v, o)
    BY <2>1, <2>2, BeginsHeld
  <2> QED BY <2>3 DEF j, k
<1>11. g.vid # 0 => v.svc[g.vid] = "open" /\ v.res[g.vid] = "none"
  BY <1>3, <1>4, <1>5, <1>8, <1>9
<1>12. g.vid # 0 <=> w.c \in opt.target
  BY <1>1, <1>4
<1> QED BY <1>1, <1>4, <1>7, <1>9, <1>10, <1>11, <1>12 DEF u, Opens

LEMMA RequestedRangeSteps ==
  ASSUME NEW w, NEW o, Good(w, o), Naturals_(w.x, w.d), w.x.st = "RequestedRange",
         Fresh(w.v) # {}, opt \in Options,
         NEW st, st \in {"Range", "GetRange"}, st = "GetRange" <=> Verifies(w.c)
  PROVE  LET u == requested_range_to(w, st)
         IN  /\ Steps(w, u, o) /\ u.x.st = st /\ u.c = w.c /\ u.thrown = w.thrown
             /\ Naturals_(u.x, u.d) /\ u.x.clen = 0 /\ u.x.cpos = 0
             /\ u.x.owed = w.x.owed /\ u.x.cut = w.x.cut /\ u.x.asked = w.x.asked
             /\ u.d.off = 0 /\ u.d.req <= u.d.first /\ u.d.sid = w.d.sid
             /\ u.d.sig = "Update" /\ u.d.verdict = "Wait"
             /\ u.d.vid # 0 => u.v.svc[u.d.vid] = "open"
<1> DEFINE x == [w.x EXCEPT !.clen = 0, !.cpos = 0]
           b == [w EXCEPT !.x = x]
           g == NewTransfer(b, w.d)
           u == SetState(g, {"RequestedRange"}, st)
<1>1. /\ IsWork(w) /\ Settled(w.c, w.x.st, w.d, w.v) /\ w.c \in Sides
      /\ Held(w.d, w.v, w.s.keep, o) /\ w.d.tfl = 0 /\ w.d.vid = 0 /\ IsRange(w.d)
  BY DEF Good, Owned, Settled, Holding, Validating, IsWork
<1>2. /\ IsContext(x) /\ SameLists(w.x, x) /\ x.st = w.x.st /\ x.clen = 0
      /\ x.cpos = 0 /\ x.resp = w.x.resp /\ x.owed = w.x.owed
      /\ x.cut = w.x.cut /\ x.files = w.x.files /\ x.asked = w.x.asked
  BY <1>1 DEF IsWork, IsContext, SameLists
<1>3. requested_range_to(w, st) = u
  BY DEF requested_range_to, IsWork
<1> HIDE DEF x
<1>4. /\ IsWork(b) /\ b.c = w.c /\ b.x = x /\ b.d = w.d /\ b.v = w.v /\ b.s = w.s
      /\ b.thrown = w.thrown
  BY <1>1, <1>2 DEF IsWork
<1> HIDE DEF b
<1>5. /\ IsWork(g) /\ g.c = b.c /\ g.x = b.x /\ g.s = b.s
      /\ g.thrown = b.thrown
      /\ Held(g.d, g.v, g.s.keep, o) /\ Elsewhere(b.v, g.v, o)
      /\ g.d.own \in Ids
      /\ g.d.verdict = "Wait" /\ g.d.sig = "Update" /\ g.d.off = 0
      /\ g.d.req = MinOf(w.d.first, w.d.size) /\ g.d.size = w.d.size
      /\ g.d.first = w.d.first /\ g.d.sid = w.d.sid
      /\ (g.d.vid # 0 <=> b.c \in opt.target)
      /\ g.d.vid # 0 => g.v.svc[g.d.vid] = "open" /\ g.v.res[g.d.vid] = "none"
  <2> DEFINE d == w.d
  <2>1. Held(d, b.v, b.s.keep, o) /\ Fresh(b.v) # {} /\ d.tfl = 0 /\ d.vid = 0
        /\ IsRange(d)
    BY <1>1, <1>4
  <2> HIDE DEF d
  <2>2. LET t == NewTransfer(b, d)
        IN  /\ IsWork(t) /\ t.c = b.c /\ t.x = b.x /\ t.s = b.s
            /\ t.thrown = b.thrown
            /\ Held(t.d, t.v, t.s.keep, o) /\ Elsewhere(b.v, t.v, o)
            /\ t.d.own \in Ids
            /\ t.d.verdict = "Wait" /\ t.d.sig = "Update" /\ t.d.off = 0
            /\ t.d.req = MinOf(d.first, d.size) /\ t.d.size = d.size
            /\ t.d.first = d.first /\ t.d.sid = d.sid
            /\ (t.d.vid # 0 <=> b.c \in opt.target)
            /\ t.d.vid # 0 => t.v.svc[t.d.vid] = "open" /\ t.v.res[t.d.vid] = "none"
    BY SMTT(60), <1>4, <2>1, NewTransferFields
  <2> QED BY <2>2 DEF d
<1> HIDE DEF g
<1>6. /\ IsWork(u) /\ SameRest(g, u) /\ u.d = g.d
      /\ SameContext(g.x, u.x) /\ u.x.st = st /\ u.x.asked = g.x.asked
      /\ SameSeen(g, u) /\ Sound(g, u)
  BY <1>2, <1>4, <1>5, SetStateFields
<1> HIDE DEF u
<1>7. Verifies(w.c) => w.c \in opt.target
  BY OptionsAssumption DEF Verifies
<1>8. Settled(u.c, u.x.st, u.d, u.v)
  BY <1>4, <1>5, <1>6, <1>7
     DEF SameRest, Settled, Holding, Texts, Signing, Waiting, Validating
<1>9. Held(u.d, u.v, u.s.keep, o)
  BY <1>5, <1>6 DEF SameRest, SameSeen
<1>10. Steps(w, u, o)
  <2>1. Good(u, o)
    BY <1>1, <1>4, <1>5, <1>6, <1>8, <1>9 DEF Good, Owned, SameRest
  <2>2. Beside(w, u, o)
    BY <1>2, <1>4, <1>5, <1>6 DEF Beside, SameRest, SameSeen, SameContext, SameLists
  <2> QED BY <2>1, <2>2, <1>4, <1>5, <1>6 DEF Steps, Serves, Sound, SameSeen
<1>11. u.d.req \in Nat /\ u.d.req <= u.d.first
  BY ZenonT(60), <1>5, <1>6, MinIsNat DEF Naturals_
<1>12. Naturals_(u.x, u.d)
  BY <1>2, <1>4, <1>5, <1>6, <1>11 DEF Naturals_, SameContext
<1> QED BY <1>2, <1>3, <1>4, <1>5, <1>6, <1>10, <1>11, <1>12 DEF SameContext, SameRest

(* Data kept until its verdict. *)
LEMMA AccumulateSteps ==
  ASSUME NEW w, NEW o, Good(w, o), NEW n \in Nat, Naturals_(w.x, w.d),
         w.d.vid # 0 => w.v.svc[w.d.vid] = "open", w.x.cpos = 0, w.d.off = w.x.clen
  PROVE  LET u == Accumulate(w, n)
             k == MinOf(n, w.d.req)
         IN  /\ Steps(w, u, o) /\ Naturals_(u.x, u.d) /\ SameRest(w, u)
             /\ SameLists(w.x, u.x) /\ u.x.st = w.x.st /\ u.x.clen = w.x.clen + k
             /\ u.x.cpos = 0 /\ u.x.resp = w.x.resp /\ u.x.owed = w.x.owed
             /\ u.x.cut = w.x.cut /\ u.x.asked = w.x.asked
             /\ SameLink(w.d, u.d) /\ u.d.off = u.x.clen /\ u.d.req = w.d.req - k
             /\ u.d.size = w.d.size /\ u.d.first = w.d.first /\ u.d.sid = w.d.sid
<1> DEFINE k == MinOf(n, w.d.req)
           g == update_file_range_data(w, n)
           a == Asserted(g, w.x.cpos = 0)
           x == [w.x EXCEPT !.clen = @ + k]
           u == Accumulate(w, n)
<1>1. /\ Steps(w, g, o) /\ Naturals_(g.x, g.d) /\ g.x = w.x /\ SameRest(w, g)
      /\ SameLink(w.d, g.d) /\ g.d.off = w.d.off + k
      /\ g.d.req = w.d.req - k /\ g.d.size = w.d.size
      /\ g.d.first = w.d.first /\ g.d.sid = w.d.sid
  BY UpdateSteps
<1>2. k \in Nat
  BY MinIsNat DEF Naturals_
<1> HIDE DEF g, k
<1>3. /\ Serves(g, a, o) /\ SameSeen(g, a) /\ Sound(g, a)
      /\ a.d = g.d /\ a.v = g.v /\ a.x = g.x /\ a.thrown = g.thrown /\ a.c = g.c
  BY ZenonT(60), <1>1, AssertedGood DEF Steps, Serves
<1>4. u = [a EXCEPT !.x.clen = @ + k]
  BY DEF Accumulate, g, k
<1> HIDE DEF a, u
<1>5. u = [a EXCEPT !.x = x]
  BY <1>1, <1>3, <1>4
<1>6. /\ IsContext(x) /\ SameLists(w.x, x) /\ x.st = w.x.st
      /\ x.clen = w.x.clen + k /\ x.cpos = w.x.cpos /\ x.resp = w.x.resp
      /\ x.owed = w.x.owed /\ x.cut = w.x.cut /\ x.files = w.x.files
      /\ x.asked = w.x.asked
  BY DEF Good, Owned, IsWork, IsContext, SameLists
<1> HIDE DEF x
<1>7. /\ IsWork(u) /\ u.c = w.c /\ u.x = x /\ u.d = g.d /\ u.v = w.v /\ u.s = a.s
      /\ u.thrown = w.thrown
  BY <1>1, <1>3, <1>5, <1>6 DEF Serves, Good, Owned, IsWork, SameRest
<1>8. u.s.keep = w.s.keep /\ u.s.text = w.s.text /\ Sound(w, u)
  BY <1>1, <1>3, <1>7 DEF Steps, Serves, Beside, SameSeen, Sound
<1>9. Steps(w, u, o)
  BY <1>1, <1>6, <1>7, <1>8, FieldsSteps
<1>10. Naturals_(u.x, u.d)
  BY <1>1, <1>2, <1>6, <1>7 DEF Naturals_
<1> QED BY <1>1, <1>6, <1>7, <1>9, <1>10 DEF SameRest, u, k

(* The end of the data of a file that waits for its verdict. *)
LEMMA WaitsVerdict ==
  ASSUME NEW w, NEW o, Good(w, o), w.x.st = "GetRange", Naturals_(w.x, w.d),
         Complete(w.d), w.d.vid # 0
  PROVE  LET u == SetState(SendEof(set_finalize_file_transfer(w)), {"GetRange"},
                           "WaitingFileValidator")
         IN  /\ Steps(w, u, o) /\ SameContext(w.x, u.x)
             /\ u.x.st = "WaitingFileValidator" /\ u.x.asked = w.x.asked
             /\ u.c = w.c /\ Naturals_(u.x, u.d) /\ u.d.off = w.d.off
             /\ u.d.sid = w.d.sid
<1> DEFINE f == set_finalize_file_transfer(w)
           e == SendEof(f)
           u == SetState(e, {"GetRange"}, "WaitingFileValidator")
<1>1. /\ Owned(w, o) /\ w.d.sig = "Update" /\ Verifies(w.c) /\ w.c \in Sides
      /\ Settled(w.c, w.x.st, w.d, w.v) /\ w.v.svc[w.d.vid] = "open"
  BY DEF Good, Settled, Signing, Waiting
<1>2. /\ Owned(f, o) /\ f.c = w.c /\ f.x = w.x /\ f.v = w.v
      /\ f.thrown = w.thrown /\ SameSeen(w, f) /\ Sound(w, f)
      /\ f.d.vid = w.d.vid /\ f.d.sig = "Final"
      /\ f.d.off = w.d.off /\ f.d.sid = w.d.sid /\ Naturals_(f.x, f.d)
  BY <1>1, FinalizeMoves
<1> HIDE DEF f
<1>3. Moves(f, e, o) /\ e.d = f.d /\ Sound(f, e)
  BY <1>1, <1>2, EofMoves
<1> HIDE DEF e
<1>4. IsWork(e) /\ e.x = w.x /\ e.c = w.c /\ e.v.res = w.v.res
      /\ Held(e.d, e.v, e.s.keep, o) /\ Elsewhere(w.v, e.v, o)
      /\ SameSeen(w, e) /\ Sound(w, e)
  BY <1>2, <1>3 DEF Moves, Owned, Elsewhere, SameSeen, Sound
<1>5. /\ IsWork(u) /\ SameRest(e, u) /\ u.d = e.d
      /\ SameContext(e.x, u.x) /\ u.x.st = "WaitingFileValidator"
      /\ u.x.asked = e.x.asked /\ SameSeen(e, u) /\ Sound(e, u)
  BY <1>4, SetStateFields
<1> HIDE DEF u
<1>6. Settled(u.c, u.x.st, u.d, u.v)
  BY <1>1, <1>2, <1>3, <1>4, <1>5
     DEF SameRest, Settled, Holding, Texts, Signing, Waiting, Validating
<1>7. Good(u, o)
  BY <1>1, <1>4, <1>5, <1>6 DEF Good, Owned, SameRest, SameSeen
<1>8. Steps(w, u, o)
  BY <1>4, <1>5, <1>7
     DEF Steps, Serves, Beside, Sound, SameRest, SameSeen, SameContext, SameLists
<1>9. Naturals_(u.x, u.d)
  BY <1>2, <1>3, <1>4, <1>5 DEF Naturals_, SameContext
<1> QED BY <1>2, <1>3, <1>4, <1>5, <1>8, <1>9 DEF SameRest, u, e, f

(* More of it is asked. *)
LEMMA AsksMore ==
  ASSUME NEW w, NEW o, Good(w, o), w.x.st = "GetRange", Naturals_(w.x, w.d),
         ~(w.d.size > MaxFile)
  PROVE  LET u == send_file_contents_request(w)
         IN  /\ Steps(w, u, o) /\ SameContext(w.x, u.x) /\ u.x.st = "GetRange"
             /\ u.c = w.c /\ Naturals_(u.x, u.d) /\ u.d.off = w.d.off
             /\ u.d.sid = w.d.sid /\ u.d.req = w.d.first
             /\ \A k \in u.x.asked : k \in w.x.asked \/ k.range
<1> DEFINE n == [sid |-> w.d.sid, range |-> TRUE, len |-> w.d.first]
           x == [w.x EXCEPT !.asked = @ \cup {n}]
           d == [w.d EXCEPT !.req = w.d.first]
           u == send_file_contents_request(w)
<1>1. IsWork(w)
  BY DEF Good, Owned
<1>2. u = [w EXCEPT !.x = x, !.d = d]
  BY <1>1 DEF send_file_contents_request, Asked, IsWork, IsRange
<1>3. IsContext(x) /\ SameContext(w.x, x) /\ x.st = w.x.st
  BY <1>1 DEF IsWork, IsContext, SameContext, SameLists
<1>4. x.asked = w.x.asked \cup {n} /\ n.range
  BY <1>1 DEF IsWork, IsContext
<1>5. /\ IsRange(d) /\ SameLink(w.d, d) /\ d.off = w.d.off /\ d.size = w.d.size
      /\ d.req = w.d.first /\ d.first = w.d.first /\ d.sid = w.d.sid
  BY <1>1 DEF IsWork, IsRange, SameLink
<1> HIDE DEF x, d, u, n
<1>6. IsWork(u) /\ u.x = x /\ u.d = d /\ u.s = w.s /\ u.c = w.c /\ u.v = w.v
  BY <1>1, <1>2, <1>3, <1>5 DEF IsWork
<1>7. Steps(w, u, o)
  BY <1>3, <1>5, <1>6, FieldsSteps DEF Sound, SameContext
<1>8. Naturals_(u.x, u.d)
  BY <1>3, <1>5, <1>6 DEF Naturals_, SameContext
<1>9. \A k \in u.x.asked : k \in w.x.asked \/ k.range
  BY <1>4, <1>6
<1> QED BY <1>3, <1>5, <1>6, <1>7, <1>8, <1>9 DEF u

(* Too large a file is given up. *)
LEMMA TooLarge ==
  ASSUME NEW w, NEW o, Good(w, o), w.x.st = "GetRange", w.d.size > MaxFile
  PROVE  LET u == send_file_contents_request(w)
         IN  Restarts(w, u, o) /\ SameOwed(w, u) /\ Sound(w, u)
<1> DEFINE b == stop_validation_before_transfer(w)
           u == InitEmpty(b)
<1>1. send_file_contents_request(w) = u
  BY DEF send_file_contents_request
<1>2. Moves(w, b, o) /\ b.d.tfl = 0 /\ b.d.vid = 0 /\ Sound(w, b) /\ Owned(w, o)
  BY StopValidationMoves DEF Good
<1> HIDE DEF b
<1>3. Restarts(w, u, o) /\ SameOwed(w, u) /\ Sound(b, u)
  BY <1>2, MovedRestarts
<1> HIDE DEF u
<1> QED BY <1>1, <1>2, <1>3, SoundInTurn

LEMMA HeaderSteps ==
  ASSUME NEW w, NEW o, Good(w, o), NEW len
  PROVE  LET u == Header(w, len)
         IN  /\ Steps(w, u, o) /\ u.c = w.c /\ u.d = w.d /\ u.x.st = w.x.st
             /\ SameLists(w.x, u.x) /\ u.x.clen = w.x.clen /\ u.x.cpos = w.x.cpos
             /\ u.x.resp = len /\ u.x.owed = TRUE /\ u.x.cut = w.x.cut
             /\ u.x.files = w.x.files /\ u.x.asked = w.x.asked
<1> DEFINE x == [w.x EXCEPT !.resp = len, !.owed = TRUE]
           u == Header(w, len)
<1>1. u = [w EXCEPT !.x = x] /\ IsWork(w)
  BY DEF Header, Good, Owned
<1>2. /\ IsContext(x) /\ SameLists(w.x, x) /\ x.st = w.x.st /\ x.clen = w.x.clen
      /\ x.cpos = w.x.cpos /\ x.resp = len /\ x.owed = TRUE
      /\ x.cut = w.x.cut /\ x.files = w.x.files /\ x.asked = w.x.asked
  BY <1>1 DEF IsWork, IsContext, SameLists
<1> HIDE DEF x, u
<1>3. IsWork(u) /\ u.x = x /\ u.d = w.d /\ u.s = w.s /\ u.c = w.c /\ u.v = w.v
  BY <1>1, <1>2 DEF IsWork
<1>4. Steps(w, u, o)
  BY <1>2, <1>3, FieldsSteps DEF Sound, SameLink
<1> QED BY <1>2, <1>3, <1>4 DEF u

(* The accepted data ends the response. *)
LEMMA AcceptedFit ==
  ASSUME NEW w, NEW o, Owned(w, o), w.c \in Sides, Verifies(w.c),
         NEW from, from \in Waiting, w.x.st = from, w.d.vid = 0,
         w.d.sig = "Update" => ~Complete(w.d), Naturals_(w.x, w.d),
         w.x.cpos = 0, w.d.off = w.x.clen, w.x.resp <= w.x.clen, NEW left
  PROVE  LET u == SetState(filecontents_response_data(w), {from}, "SyncRange")
         IN  Good(u, o) /\ Beside(w, u, o) /\ Sound(w, u) /\ u.s.text = w.s.text
             /\ Fit(u, left)
<1> DEFINE p == w.x.cpos = 0 /\ w.x.resp <= w.x.clen
           s == [w.s EXCEPT !.assertion = @ \/ ~p,
                   !.file = @ \/ (Verifies(w.c) /\ w.v.res[w.d.own] # "accept")]
           x == [w.x EXCEPT !.cpos = w.x.resp, !.owed = FALSE, !.cut = FALSE]
           b == filecontents_response_data(w)
           u == SetState(b, {from}, "SyncRange")
<1>1. IsWork(w)
  BY DEF Owned
<1>2. /\ IsSeen(s) /\ s.text = w.s.text
      /\ s.keep = w.s.keep /\ (~w.s.assertion => ~s.assertion)
  BY <1>1 DEF IsWork, IsSeen
<1>3. b = [w EXCEPT !.s = s, !.x = x]
  BY ZenonT(60), <1>1 DEF filecontents_response_data, PassFile, Asserted, IsWork, IsSeen
<1>4. /\ IsContext(x) /\ SameLists(w.x, x) /\ x.st = w.x.st /\ x.clen = w.x.clen
      /\ x.cpos = w.x.resp /\ x.resp = w.x.resp /\ x.owed = FALSE
      /\ x.cut = FALSE /\ x.files = w.x.files /\ x.asked = w.x.asked
  BY <1>1 DEF IsWork, IsContext, SameLists
<1> HIDE DEF s, x, b
<1>5. IsWork(b) /\ SameRest(w, b) /\ b.x = x /\ b.d = w.d /\ b.s = s
  BY <1>1, <1>2, <1>3, <1>4 DEF IsWork, SameRest
<1>6. /\ IsWork(u) /\ SameRest(b, u) /\ u.d = b.d
      /\ SameContext(b.x, u.x) /\ u.x.st = "SyncRange"
      /\ SameSeen(b, u) /\ Sound(b, u)
  BY <1>4, <1>5, SetStateFields
<1> HIDE DEF u
<1>7. Settled(u.c, u.x.st, u.d, u.v)
  BY <1>5, <1>6 DEF SameRest, Settled, Holding, Texts, Signing, Waiting, Validating
<1>8. Good(u, o)
  <2>1. u.d = w.d /\ u.v = w.v /\ u.s.keep = w.s.keep /\ u.c = w.c
    BY <1>2, <1>5, <1>6 DEF SameRest, SameSeen
  <2>2. Held(u.d, u.v, u.s.keep, o)
    BY <2>1 DEF Owned
  <2> QED BY <1>6, <1>7, <2>1, <2>2 DEF Good, Owned
<1>9. Beside(w, u, o) /\ Sound(w, u) /\ u.s.text = w.s.text
  BY <1>2, <1>4, <1>5, <1>6
     DEF Beside, Elsewhere, Sound, SameRest, SameSeen, SameContext, SameLists
<1>10. Naturals_(u.x, u.d)
  BY <1>4, <1>5, <1>6 DEF Naturals_, SameContext
<1>11. Buffered(u.x, u.d, left)
  <2>1. u.d.sig = "Update" => u.d.off < u.d.size
    BY <1>5, <1>6, <1>10 DEF Complete, Naturals_
  <2> QED BY <1>4, <1>5, <1>6, <2>1 DEF Buffered, SameContext, Waiting
<1>12. Answering(u.c, u.x, u.d)
  BY <1>4, <1>5, <1>6 DEF Answering, SameContext
<1> QED BY <1>8, <1>9, <1>10, <1>11, <1>12 DEF Fit, u, b

(* A response that goes on after its announced length is counted. *)
LEMMA LessIsLeft ==
  ASSUME NEW n \in Nat, NEW total \in Nat, n <= total, NEW r \in Nat
  PROVE  /\ MinOf(n, r) \in Nat /\ MinOf(n, r) <= r
         /\ MinOf(total, r) \in Nat
         /\ MinOf(total, r) <= MinOf(n, r) + MinOf(total - n, r - MinOf(n, r))
         /\ n = total => MinOf(total, r) <= MinOf(n, r)
BY DEF MinOf

LEMMA FirstVerifiedReplies ==
  ASSUME NEW w, NEW o, Good(w, o), Naturals_(w.x, w.d), Owing(w.c, w.x, w.d),
         w.x.st = "RequestedRange", Verifies(w.c), Fresh(w.v) # {}, opt \in Options,
         NEW n \in Nat, NEW total \in Nat, n <= total,
         NEW last \in BOOLEAN, last = (n = total)
  PROVE  Replies(w, FirstVerified(w, n, last, total), o, IF last THEN 0 ELSE total - n)
<1> DEFINE left == IF last THEN 0 ELSE total - n
           g == requested_range_to(w, "GetRange")
           a == Accumulate(g, n)
           k == MinOf(n, g.d.req)
           m == send_file_contents_request(a)
           v == SetState(SendEof(set_finalize_file_transfer(a)), {"GetRange"},
                         "WaitingFileValidator")
           u == FirstVerified(w, n, last, total)
<1>1. /\ Steps(w, g, o) /\ g.x.st = "GetRange" /\ g.c = w.c /\ g.thrown = w.thrown
      /\ Naturals_(g.x, g.d) /\ g.x.clen = 0 /\ g.x.cpos = 0
      /\ g.x.owed = w.x.owed /\ g.x.cut = w.x.cut /\ g.x.asked = w.x.asked
      /\ g.d.off = 0 /\ g.d.sid = w.d.sid
      /\ g.d.sig = "Update" /\ g.d.verdict = "Wait"
      /\ g.d.vid # 0 => g.v.svc[g.d.vid] = "open"
  BY RequestedRangeSteps
<1>2. u = IF ~last THEN Header(a, MinOf(total, g.d.req))
          ELSE IF Complete(a.d) THEN Header(v, a.x.clen)
          ELSE IF m.x.st = "Empty" THEN m ELSE Header(m, a.x.clen)
  BY DEF FirstVerified
<1> HIDE DEF g
<1>3. Good(g, o) /\ SameLists(w.x, g.x) /\ g.d.vid # 0
  BY <1>1 DEF Steps, Serves, Beside, Good, Settled
<1>4. /\ Steps(g, a, o) /\ Naturals_(a.x, a.d) /\ SameRest(g, a)
      /\ SameLists(g.x, a.x) /\ a.x.st = g.x.st /\ a.x.clen = g.x.clen + k
      /\ a.x.cpos = 0 /\ a.x.resp = g.x.resp /\ a.x.owed = g.x.owed
      /\ a.x.cut = g.x.cut /\ a.x.asked = g.x.asked
      /\ SameLink(g.d, a.d) /\ a.d.off = a.x.clen /\ a.d.req = g.d.req - k
      /\ a.d.sid = g.d.sid
  BY <1>1, <1>3, AccumulateSteps
<1>5. /\ k \in Nat /\ MinOf(total, g.d.req) \in Nat
      /\ MinOf(total, g.d.req) <= k + MinOf(total - n, g.d.req - k)
  BY <1>1, LessIsLeft DEF Naturals_
<1> HIDE DEF a, k, v, m, u
<1>6. /\ Good(a, o) /\ a.x.st = "GetRange" /\ Steps(w, a, o) /\ a.d.vid # 0
      /\ a.c = w.c /\ a.x.clen = k /\ a.x.fmt = w.x.fmt
      /\ a.x.cut = w.x.cut /\ a.x.owed = w.x.owed
  BY <1>1, <1>3, <1>4, <1>5, StepsInTurn
     DEF Steps, Serves, SameLink, SameRest, SameLists
<1>7. /\ w.x.fmt # "none" => w.x.cut
      /\ \A j \in w.x.asked : j.sid = w.d.sid => j.range
  BY DEF Owing
<1>8. ASSUME NEW y, Good(y, o), Steps(a, y, o), SameContext(a.x, y.x), y.c = a.c,
             Naturals_(y.x, y.d), y.d.off = a.d.off, y.d.sid = a.d.sid,
             y.x.st \in Waiting, \A j \in y.x.asked : j \in a.x.asked \/ j.range,
             NEW len \in Nat,
             y.x.st = "WaitingFileValidator" => len <= y.x.clen,
             y.x.st = "GetRange" => len <= y.x.clen + MinOf(left, y.d.req)
      PROVE  Replies(w, Header(y, len), o, left)
  <2> DEFINE h == Header(y, len)
  <2> HIDE DEF left
  <2>1. /\ Steps(y, h, o) /\ h.c = y.c /\ h.d = y.d /\ h.x.st = y.x.st
        /\ SameLists(y.x, h.x) /\ h.x.clen = y.x.clen /\ h.x.cpos = y.x.cpos
        /\ h.x.resp = len /\ h.x.owed = TRUE /\ h.x.cut = y.x.cut
        /\ h.x.files = y.x.files /\ h.x.asked = y.x.asked
    BY ZenonT(60), <1>8, HeaderSteps
  <2> HIDE DEF h
  <2>2. Naturals_(h.x, h.d)
    BY <1>8, <2>1 DEF Naturals_
  <2>3. Buffered(h.x, h.d, left)
    BY <1>4, <1>8, <2>1 DEF Buffered, Waiting, SameContext
  <2>4. Owing(h.c, h.x, h.d)
    <3>1. h.x.fmt = w.x.fmt /\ h.x.cut = w.x.cut /\ h.d.sid = w.d.sid
          /\ h.x.st \in Waiting /\ Verifies(h.c)
      BY <1>1, <1>4, <1>6, <1>8, <2>1 DEF SameContext, SameLists
    <3>2. \A j \in h.x.asked : j.sid = h.d.sid => j.range
      BY <1>1, <1>4, <1>7, <1>8, <2>1, <3>1
    <3> QED BY <1>7, <3>1, <3>2 DEF Owing, Waiting
  <2>5. Fit(h, left)
    BY <1>8, <2>1, <2>2, <2>3, <2>4, ReadyFit DEF Ready, Waiting
  <2>6. Steps(w, h, o)
    BY <1>6, <1>8, <2>1, StepsInTurn
  <2>7. Replies(w, h, o, left)
    BY <2>5, <2>6, StepsReplies
  <2> QED BY <2>7 DEF h
<1>9. CASE ~last
  <2> DEFINE len == MinOf(total, g.d.req)
  <2>1. u = Header(a, len) /\ left = total - n
    BY <1>2, <1>9
  <2>2. len \in Nat /\ len <= a.x.clen + MinOf(left, a.d.req)
    BY <1>4, <1>5, <1>6, <2>1
  <2>3. Steps(a, a, o) /\ SameContext(a.x, a.x)
    BY <1>6, ServesItself DEF Steps, SameContext, SameLists
  <2> HIDE DEF len, left
  <2>4. Replies(w, Header(a, len), o, left)
    BY <1>4, <1>6, <1>8, <2>2, <2>3 DEF Waiting
  <2> QED BY <2>1, <2>4 DEF u, left
<1>10. CASE last /\ Complete(a.d)
  <2>1. u = Header(v, a.x.clen)
    BY <1>2, <1>10
  <2>2. /\ Steps(a, v, o) /\ SameContext(a.x, v.x)
        /\ v.x.st = "WaitingFileValidator" /\ v.x.asked = a.x.asked
        /\ v.c = a.c /\ Naturals_(v.x, v.d) /\ v.d.off = a.d.off
        /\ v.d.sid = a.d.sid
    BY <1>4, <1>6, <1>10, WaitsVerdict DEF v
  <2>3. Good(v, o) /\ v.x.clen = a.x.clen /\ a.x.clen \in Nat /\ v.x.st \in Waiting
    BY <1>4, <2>2 DEF Steps, Serves, SameContext, Naturals_, Waiting
  <2> HIDE DEF left
  <2>4. Replies(w, Header(v, a.x.clen), o, left)
    BY <1>8, <2>2, <2>3
  <2> QED BY <2>1, <2>4 DEF u, left
<1>11. CASE last /\ ~Complete(a.d) /\ a.d.size > MaxFile
  <2>1. Restarts(a, m, o) /\ SameOwed(a, m) /\ Sound(a, m)
    BY <1>6, <1>11, TooLarge DEF m
  <2>2. IsWork(a) /\ a.c \in Sides
    BY <1>6 DEF Good, Owned
  <2>3. m.x.st = "Empty"
    BY <2>1, <2>2, RestartsServes
  <2>4. u = m
    BY <1>2, <1>11, <2>3
  <2>5. a.x.fmt # "none" => a.x.cut
    BY <1>6, <1>7
  <2> HIDE DEF left
  <2>6. Replies(a, m, o, left)
    BY <1>4, <1>6, <1>11, <2>1, <2>2, <2>5, RestartsReplies DEF SameOwed
  <2>7. Replies(w, m, o, left)
    BY <1>6, <2>6, RepliesInTurn
  <2> QED BY <2>4, <2>7 DEF u, left
<1>12. CASE last /\ ~Complete(a.d) /\ ~(a.d.size > MaxFile)
  <2>1. /\ Steps(a, m, o) /\ SameContext(a.x, m.x) /\ m.x.st = "GetRange"
        /\ m.c = a.c /\ Naturals_(m.x, m.d) /\ m.d.off = a.d.off
        /\ m.d.sid = a.d.sid /\ m.d.req = a.d.first
        /\ \A j \in m.x.asked : j \in a.x.asked \/ j.range
    BY <1>4, <1>6, <1>12, AsksMore DEF m
  <2>2. u = Header(m, a.x.clen) /\ left = 0
    BY <1>2, <1>12, <2>1
  <2>3. Good(m, o) /\ m.x.clen = a.x.clen /\ a.x.clen \in Nat /\ m.x.st \in Waiting
    BY <1>4, <2>1 DEF Steps, Serves, SameContext, Naturals_, Waiting
  <2>4. a.x.clen <= m.x.clen + MinOf(left, m.d.req)
    <3>1. m.d.req \in Nat
      BY <2>1 DEF Naturals_
    <3>2. MinOf(left, m.d.req) = 0
      BY <2>2, <3>1 DEF MinOf
    <3> QED BY <2>3, <3>2
  <2> HIDE DEF left
  <2>5. Replies(w, Header(m, a.x.clen), o, left)
    BY <1>8, <2>1, <2>3, <2>4
  <2> QED BY <2>2, <2>5 DEF u, left
<1> QED BY <1>9, <1>10, <1>11, <1>12 DEF u

LEMMA GetChunkReplies ==
  ASSUME NEW w, NEW o, Good(w, o), NEW total \in Nat, Ready(w, total),
         w.x.st = "GetRange", NEW n \in Nat, n <= total,
         NEW last \in BOOLEAN, last = (n = total)
  PROVE  Replies(w, GetChunk(w, n, last), o, IF last THEN 0 ELSE total - n)
<1> DEFINE left == IF last THEN 0 ELSE total - n
           a == Accumulate(w, n)
           k == MinOf(n, w.d.req)
           f == set_finalize_file_transfer(a)
           closed == close_file_rng_tfl(f)
           h == IF Complete(a.d) THEN closed ELSE f
           b == close_file_rng_tfl(log_file_info(f))
           z == InitEmpty(ZeroData(b))
           y == SetState(filecontents_response_data(h), {"GetRange"}, "SyncRange")
           v == SetState(SendEof(f), {"GetRange"}, "WaitingFileValidator")
           m == send_file_contents_request(a)
           u == GetChunk(w, n, last)
<1>1. /\ Naturals_(w.x, w.d) /\ Buffered(w.x, w.d, total) /\ Owing(w.c, w.x, w.d)
      /\ w.x.cpos = 0 /\ w.d.off = w.x.clen /\ Verifies(w.c)
      /\ w.x.resp <= w.x.clen + MinOf(total, w.d.req)
      /\ w.d.vid # 0 => w.v.svc[w.d.vid] = "open"
      /\ w.d.sig = "Update"
      /\ IF w.d.vid # 0 THEN w.d.verdict = "Wait"
         ELSE w.d.verdict \in {"Success", "Failure"}
  BY DEF Ready, Good, Owned, Held, Linked, Settled, Buffered, Waiting, Signing
<1>2. /\ Steps(w, a, o) /\ Naturals_(a.x, a.d) /\ SameRest(w, a)
      /\ SameLists(w.x, a.x) /\ a.x.st = w.x.st /\ a.x.clen = w.x.clen + k
      /\ a.x.cpos = 0 /\ a.x.resp = w.x.resp /\ a.x.owed = w.x.owed
      /\ a.x.cut = w.x.cut /\ a.x.asked = w.x.asked
      /\ SameLink(w.d, a.d) /\ a.d.off = a.x.clen /\ a.d.req = w.d.req - k
      /\ a.d.size = w.d.size /\ a.d.sid = w.d.sid
  BY <1>1, AccumulateSteps
<1>3. u = IF ~last THEN a
          ELSE IF a.d.verdict = "Failure" THEN z
          ELSE IF a.d.verdict = "Success" THEN y
          ELSE IF Complete(a.d) THEN v ELSE m
  BY DEF GetChunk, EarlyVerdict
<1>4. /\ k \in Nat /\ MinOf(total, w.d.req) \in Nat
      /\ MinOf(total, w.d.req) <= k + MinOf(total - n, w.d.req - k)
      /\ last => MinOf(total, w.d.req) <= k
  BY <1>1, LessIsLeft DEF Naturals_
<1> HIDE DEF a, k, u
<1>5. /\ Good(a, o) /\ Owned(a, o) /\ a.x.st = "GetRange" /\ a.c = w.c /\ a.c \in Sides
      /\ IsWork(a) /\ a.d.sig = "Update"
      /\ IF a.d.vid # 0 THEN a.d.verdict = "Wait"
         ELSE a.d.verdict \in {"Success", "Failure"}
      /\ a.x.fmt = w.x.fmt
  BY <1>1, <1>2 DEF Steps, Serves, Good, Owned, SameLink, SameRest, SameLists
<1>6. Owing(a.c, a.x, a.d)
  BY <1>1, <1>2, <1>5 DEF Owing, SameRest
<1>7. last => a.x.resp <= a.x.clen
  <2>1. w.x.resp \in Nat /\ w.x.clen \in Nat
    BY <1>1 DEF Naturals_
  <2> QED BY <1>1, <1>2, <1>4, <2>1
<1>8. CASE ~last
  <2>1. left = total - n /\ u = a
    BY <1>3, <1>8
  <2>2. a.x.resp <= a.x.clen + MinOf(left, a.d.req)
    <3>1. total - n \in Nat /\ w.d.req - k \in Nat
      BY <1>2, <1>8 DEF Naturals_
    <3>2. MinOf(total - n, w.d.req - k) \in Nat
      BY <3>1, MinIsNat
    <3>3. w.x.resp \in Nat /\ w.x.clen \in Nat
      BY <1>1 DEF Naturals_
    <3> QED BY <1>1, <1>2, <1>4, <2>1, <3>2, <3>3
  <2> HIDE DEF left
  <2>3. Buffered(a.x, a.d, left)
    BY <1>2, <1>5, <2>2 DEF Buffered, Waiting
  <2>4. Fit(a, left)
    BY <1>2, <1>5, <1>6, <2>3, ReadyFit DEF Ready
  <2>5. Replies(w, a, o, left)
    BY <1>2, <2>4, StepsReplies
  <2> QED BY <2>1, <2>5 DEF u, left
<1>9. ASSUME Complete(a.d)
      PROVE  /\ Owned(f, o) /\ f.c = a.c /\ f.x = a.x /\ f.v = a.v
             /\ f.thrown = a.thrown /\ SameSeen(a, f) /\ Sound(a, f)
             /\ f.d.own = a.d.own /\ f.d.verdict = a.d.verdict
             /\ f.d.vid = a.d.vid /\ f.d.tfl = a.d.tfl /\ f.d.sig = "Final"
             /\ f.d.off = a.d.off /\ Naturals_(f.x, f.d)
  BY <1>2, <1>5, <1>9, FinalizeMoves
<1>10. ~Complete(a.d) => f = a
  BY DEF set_finalize_file_transfer
<1>11. /\ Owned(f, o) /\ f.c = a.c /\ f.x = a.x /\ f.v = a.v
       /\ f.thrown = a.thrown /\ SameSeen(a, f) /\ Sound(a, f)
       /\ f.d.vid = a.d.vid
       /\ f.d.off = a.d.off /\ Naturals_(f.x, f.d)
  BY <1>2, <1>5, <1>9, <1>10 DEF SameSeen, Sound
<1> HIDE DEF f
<1>12. CASE last /\ a.d.verdict = "Failure"
  <2> DEFINE l == log_file_info(f)
             q == ZeroData(b)
  <2>1. u = z
    BY <1>3, <1>12
  <2>2. Moves(f, l, o) /\ l.d.sig # "Update" /\ Sound(f, l) /\ Owned(l, o)
        /\ l.d.vid = f.d.vid
    BY <1>11, LogMoves, MovedOwned
  <2>3. b = close_file_rng_tfl(l)
    OBVIOUS
  <2> HIDE DEF l
  <2>4. Moves(l, b, o) /\ b.d.tfl = 0 /\ b.d.vid = l.d.vid /\ Sound(l, b)
    BY <2>2, <2>3, CloseTflMoves
  <2> HIDE DEF b
  <2>5. Moves(f, b, o) /\ Sound(f, b) /\ Owned(b, o) /\ b.d.vid = 0 /\ b.d.tfl = 0
    BY <1>5, <1>11, <1>12, <2>2, <2>4, MovesInTurn, SoundInTurn, MovedOwned
  <2>6. /\ Owned(q, o) /\ q.c = b.c /\ q.d = b.d /\ q.v = b.v /\ q.s = b.s
    BY <2>5, ZeroOwned
  <2>7. z = InitEmpty(q)
    OBVIOUS
  <2>8. Restarts(q, z, o) /\ SameOwed(q, z) /\ Sound(q, z)
    <3> HIDE DEF q, z
    <3> QED BY <2>5, <2>6, <2>7, InitEmptyRestarts
  <2>9. Restarts(b, z, o) /\ z.x.owed = FALSE /\ z.x.cut = FALSE
    <3> HIDE DEF z
    <3> QED BY <2>5, <2>8, ZeroRestarts
  <2>10. Sound(b, z)
    BY <2>6, <2>8 DEF Sound
  <2> HIDE DEF z, q, left
  <2>11. Restarts(f, z, o) /\ Sound(f, z)
    BY <2>5, <2>9, <2>10, MovesRestarts, SoundInTurn
  <2>12. IsWork(f) /\ f.c \in Sides
    BY <1>5, <1>11 DEF Owned
  <2>13. Replies(f, z, o, left)
    BY <1>11, <2>9, <2>11, <2>12, RestartsReplies
  <2>14. Beside(a, f, o)
    BY <1>11 DEF Beside, SameSeen, Elsewhere, SameLists
  <2>15. Replies(a, z, o, left)
    BY <1>11, <2>13, <2>14, BesideInTurn, SoundInTurn DEF Replies, Serves, SameSeen
  <2>16. Replies(w, z, o, left)
    BY <1>2, <2>15, RepliesInTurn
  <2> QED BY <2>1, <2>16 DEF u, left
<1>13. CASE last /\ a.d.verdict = "Success"
  <2>1. u = y
    BY <1>3, <1>13
  <2>2. /\ Owned(h, o) /\ h.c = a.c /\ h.x = a.x /\ h.d.vid = 0
        /\ Sound(a, h) /\ SameSeen(a, h) /\ Elsewhere(a.v, h.v, o)
        /\ h.d.off = a.d.off /\ Naturals_(h.x, h.d)
        /\ h.d.sig = "Update" => ~Complete(h.d)
    <3>1. CASE Complete(a.d)
      <4>1. h = closed
        BY <3>1
      <4>2. /\ Moves(f, h, o) /\ h.d.tfl = 0 /\ h.d.vid = f.d.vid
            /\ h.d.sig = f.d.sig /\ Sound(f, h)
        BY <1>9, <1>11, <3>1, <4>1, CloseTflMoves
      <4> HIDE DEF h
      <4>3. h.d.off = f.d.off /\ h.d.req = f.d.req /\ h.d.size = f.d.size
            /\ h.d.first = f.d.first /\ h.x = f.x /\ h.c = f.c /\ Owned(h, o)
        BY <4>2 DEF Moves, SameFile
      <4>4. Naturals_(h.x, h.d)
        BY <1>11, <4>3 DEF Naturals_
      <4>5. SameSeen(a, h) /\ Sound(a, h) /\ Elsewhere(a.v, h.v, o)
        BY <1>11, <4>2 DEF Moves, SameSeen, Sound
      <4> QED BY <1>5, <1>9, <1>11, <1>13, <3>1, <4>2, <4>3, <4>4, <4>5
    <3>2. CASE ~Complete(a.d)
      <4>1. h = a
        BY <1>10, <3>2
      <4> HIDE DEF h
      <4> QED BY <1>2, <1>5, <1>13, <3>2, <4>1 DEF Sound, SameSeen, Elsewhere
    <3> QED BY <3>1, <3>2
  <2> HIDE DEF h, left
  <2>3. Good(y, o) /\ Beside(h, y, o) /\ Sound(h, y) /\ y.s.text = h.s.text
        /\ Fit(y, left)
    <3>1. h.x.cpos = 0 /\ h.d.off = h.x.clen /\ h.x.resp <= h.x.clen
          /\ h.x.st = "GetRange" /\ h.c \in Sides /\ Verifies(h.c)
      BY <1>1, <1>2, <1>5, <1>7, <1>13, <2>2
    <3> QED BY <2>2, <3>1, AcceptedFit DEF Waiting
  <2> HIDE DEF y
  <2>4. Beside(a, h, o)
    BY <2>2 DEF Beside, SameSeen, SameLists
  <2>5. Replies(a, y, o, left)
    BY <2>2, <2>3, <2>4, BesideInTurn, SoundInTurn DEF Replies, Serves, SameSeen
  <2>6. Replies(w, y, o, left)
    BY <1>2, <2>5, RepliesInTurn
  <2> QED BY <2>1, <2>6 DEF u, left
<1>14. CASE last /\ a.d.verdict \notin {"Failure", "Success"} /\ Complete(a.d) /\ a.d.vid # 0
  <2>1. u = v
    BY <1>3, <1>14
  <2>2. /\ Steps(a, v, o) /\ SameContext(a.x, v.x)
        /\ v.x.st = "WaitingFileValidator" /\ v.x.asked = a.x.asked
        /\ v.c = a.c /\ Naturals_(v.x, v.d) /\ v.d.off = a.d.off
    BY <1>2, <1>5, <1>14, WaitsVerdict DEF f
  <2> HIDE DEF v, left
  <2>3. Buffered(v.x, v.d, left)
    BY <1>2, <1>7, <1>14, <2>2 DEF Buffered, Waiting, SameContext
  <2>4. Answering(v.c, v.x, v.d)
    BY <1>5, <1>6, <2>2 DEF Owing, Answering, Waiting, SameContext, SameLists
  <2>5. Steps(w, v, o)
    BY <1>2, <2>2, StepsInTurn
  <2>6. Replies(w, v, o, left)
    BY <2>2, <2>3, <2>4, <2>5, StepsReplies DEF Fit
  <2> QED BY <2>1, <2>6 DEF u, left
<1>15. CASE last /\ a.d.verdict \notin {"Failure", "Success"} /\ ~Complete(a.d)
            /\ a.d.size > MaxFile
  <2>1. u = m
    BY <1>3, <1>15
  <2>2. Restarts(a, m, o) /\ SameOwed(a, m) /\ Sound(a, m)
    BY <1>5, <1>15, TooLarge
  <2> HIDE DEF m, left
  <2>3. /\ ~Verifies(a.c) => ~m.x.owed
        /\ m.x.owed => m.x.cut \/ a.d.size > MaxFile
        /\ m.x.owed /\ a.x.fmt # "none" => m.x.cut
    BY <1>6, <1>15, <2>2 DEF Owing, SameOwed
  <2>4. Replies(a, m, o, left)
    BY <1>2, <1>5, <2>2, <2>3, RestartsReplies
  <2>5. Replies(w, m, o, left)
    BY <1>2, <2>4, RepliesInTurn
  <2> QED BY <2>1, <2>5 DEF u, left
<1>16. CASE last /\ a.d.verdict \notin {"Failure", "Success"} /\ ~Complete(a.d)
            /\ ~(a.d.size > MaxFile)
  <2>1. u = m /\ left = 0
    BY <1>3, <1>16
  <2>2. /\ Steps(a, m, o) /\ SameContext(a.x, m.x) /\ m.x.st = "GetRange"
        /\ m.c = a.c /\ Naturals_(m.x, m.d) /\ m.d.off = a.d.off
        /\ m.d.sid = a.d.sid /\ m.d.req = a.d.first
        /\ \A j \in m.x.asked : j \in a.x.asked \/ j.range
    BY <1>2, <1>5, <1>16, AsksMore
  <2> HIDE DEF m
  <2>3. Buffered(m.x, m.d, left)
    <3>1. MinOf(left, m.d.req) = 0
      BY <2>1, <2>2 DEF MinOf, Naturals_
    <3>2. m.x.resp <= m.x.clen + MinOf(left, m.d.req)
      BY <1>7, <1>16, <2>2, <3>1 DEF SameContext, Naturals_
    <3> HIDE DEF left
    <3> QED BY <1>2, <2>2, <3>2 DEF Buffered, Waiting, SameContext
  <2> HIDE DEF left
  <2>4. Owing(m.c, m.x, m.d)
    <3>1. \A j \in a.x.asked : j.sid = a.d.sid => j.range
      BY <1>1, <1>5, <1>6 DEF Owing
    <3>2. \A j \in m.x.asked : j.sid = m.d.sid => j.range
      BY <2>2, <3>1
    <3> QED BY <1>5, <1>6, <2>2, <3>2 DEF Owing, Waiting, SameContext, SameLists
  <2>5. Fit(m, left)
    BY <2>2, <2>3, <2>4, ReadyFit DEF Ready
  <2>6. Steps(w, m, o)
    BY <1>2, <2>2, StepsInTurn
  <2>7. Replies(w, m, o, left)
    BY <2>5, <2>6, StepsReplies
  <2> QED BY <2>1, <2>7 DEF u, left
<1> HIDE DEF left
<1> QED BY <1>5, <1>8, <1>12, <1>13, <1>14, <1>15, <1>16 DEF u

LEMMA NoLockFailReplies ==
  ASSUME NEW w, NEW o, Good(w, o), NEW before, Ready(w, before), NEW left
  PROVE  Replies(w, NoLockFail(w), o, left)
<1> DEFINE u == NoLockFail(w)
<1>1. /\ Owned(w, o) /\ IsWork(w) /\ w.c \in Sides /\ Settled(w.c, w.x.st, w.d, w.v)
      /\ Naturals_(w.x, w.d) /\ Owing(w.c, w.x, w.d)
  BY DEF Good, Owned, Ready
<1>2. CASE w.x.st \in {"Size", "RequestedRange"}
  <2>1. u = InitEmpty(w)
    BY <1>2 DEF NoLockFail
  <2>2. w.d.tfl = 0 /\ w.d.vid = 0
    BY <1>1, <1>2 DEF Settled, Holding, Validating
  <2> HIDE DEF u
  <2>3. Restarts(w, u, o) /\ SameOwed(w, u) /\ Sound(w, u)
    BY <1>1, <2>1, <2>2, InitEmptyRestarts
  <2>4. Replies(w, u, o, left)
    BY <1>1, <1>2, <2>3, OverReplies DEF Waiting
  <2> QED BY <2>4 DEF u
<1>3. CASE w.x.st = "Range"
  <2> DEFINE b == broken_file_transfer(w)
  <2>1. u = InitEmpty(b)
    BY <1>3 DEF NoLockFail
  <2>2. w.d.sig = "Update" /\ (w.d.vid # 0 => w.v.svc[w.d.vid] = "open")
    BY <1>1, <1>3 DEF Settled, Signing
  <2>3. Moves(w, b, o) /\ b.d.tfl = 0 /\ b.d.vid = 0 /\ Sound(w, b)
    BY <1>1, <2>2, BrokenMoves
  <2> HIDE DEF u, b
  <2>4. Restarts(w, u, o) /\ SameOwed(w, u) /\ Sound(b, u)
    BY <1>1, <2>1, <2>3, MovedRestarts
  <2>5. Replies(w, u, o, left)
    BY <1>1, <1>3, <2>3, <2>4, SoundInTurn, OverReplies DEF Waiting
  <2> QED BY <2>5 DEF u
<1>4. CASE w.x.st = "RequestedSyncRange"
  <2> DEFINE b == stop_valid_transfer(w)
  <2>1. u = InitEmpty(b)
    BY <1>4 DEF NoLockFail
  <2>2. w.d.vid = 0
    BY <1>1, <1>4 DEF Settled, Validating
  <2>3. Moves(w, b, o) /\ b.d.tfl = 0 /\ b.d.vid = 0 /\ Sound(w, b)
    BY <1>1, <2>2, StopValidMoves
  <2> HIDE DEF u, b
  <2>4. Restarts(w, u, o) /\ SameOwed(w, u) /\ Sound(b, u)
    BY <1>1, <2>1, <2>3, MovedRestarts
  <2>5. Replies(w, u, o, left)
    BY <1>1, <1>4, <2>3, <2>4, SoundInTurn, OverReplies DEF Waiting
  <2> QED BY <2>5 DEF u
<1>5. CASE w.x.st = "GetRange"
  <2> DEFINE b == stop_validation_before_transfer(w)
             q == ZeroData(b)
  <2>1. u = InitEmpty(q)
    BY <1>5 DEF NoLockFail
  <2>2. Moves(w, b, o) /\ b.d.tfl = 0 /\ b.d.vid = 0 /\ Sound(w, b) /\ Owned(b, o)
    BY <1>1, StopValidationMoves, MovedOwned
  <2> HIDE DEF u, b
  <2>3. Owned(q, o) /\ q.d = b.d /\ q.s = b.s
    BY <2>2, ZeroOwned
  <2>4. Restarts(q, u, o) /\ SameOwed(q, u) /\ Sound(q, u)
    <3> HIDE DEF q
    <3> QED BY <2>1, <2>2, <2>3, InitEmptyRestarts
  <2>5. Restarts(b, u, o) /\ u.x.owed = FALSE
    BY <2>2, <2>4, ZeroRestarts
  <2> HIDE DEF q
  <2>6. Restarts(w, u, o) /\ Sound(w, u)
    BY <2>2, <2>3, <2>4, <2>5, MovesRestarts DEF Sound
  <2>7. Replies(w, u, o, left)
    BY <1>1, <2>5, <2>6, RestartsReplies
  <2> QED BY <2>7 DEF u
<1>6. CASE w.x.st \notin {"Size", "RequestedRange", "Range", "RequestedSyncRange",
                          "GetRange"}
  <2>1. u = Throw(w)
    BY <1>6 DEF NoLockFail
  <2> QED BY <2>1, ThrowReplies
<1> HIDE DEF u
<1>7. Replies(w, u, o, left)
  BY <1>2, <1>3, <1>4, <1>5, <1>6 DEF u
<1> QED BY <1>7 DEF u

LEMMA StaysSequence ==
  ASSUME NEW S, NEW s \in Seq(S), NEW i, NEW e \in S
  PROVE  [s EXCEPT ![i] = e] \in Seq(S)
<1>1. s \in [1 .. Len(s) -> S] /\ DOMAIN s = 1 .. Len(s)
  BY LenProperties
<1>2. CASE i \in 1 .. Len(s)
  BY <1>2, ExceptSeq
<1>3. CASE i \notin 1 .. Len(s)
  <2>1. [s EXCEPT ![i] = e] = s
    BY <1>1, <1>3
  <2> QED BY <2>1
<1> QED BY <1>2, <1>3

LEMMA SizeReplies ==
  ASSUME NEW w, NEW o, Good(w, o), NEW before, Ready(w, before), w.x.st = "Size",
         NEW total \in Nat, NEW left
  PROVE  Replies(w, InitEmpty([Asserted(w, w.d.file \in DOMAIN w.x.files)
                             EXCEPT !.x.files[w.d.file] = total]), o, left)
<1> DEFINE p == w.d.file \in DOMAIN w.x.files
           a == Asserted(w, p)
           x == [w.x EXCEPT !.files[w.d.file] = total]
           b == [a EXCEPT !.x.files[w.d.file] = total]
           u == InitEmpty(b)
<1>1. /\ Owned(w, o) /\ IsWork(w) /\ w.c \in Sides /\ Settled(w.c, w.x.st, w.d, w.v)
      /\ Naturals_(w.x, w.d) /\ Owing(w.c, w.x, w.d) /\ w.d.tfl = 0 /\ w.d.vid = 0
  BY DEF Good, Owned, Ready, Settled, Holding, Validating
<1>2. Calm(opt) => p
  BY DEF Ready, Buffered
<1>3. /\ Serves(w, a, o) /\ SameSeen(w, a) /\ (p => Sound(w, a))
      /\ a.d = w.d /\ a.v = w.v /\ a.x = w.x /\ a.thrown = w.thrown /\ a.c = w.c
  BY AssertedGood
<1> HIDE DEF a, p
<1>4. b = [a EXCEPT !.x = x]
  BY <1>3
<1>5. /\ IsContext(x) /\ SameLists(w.x, x) /\ x.st = w.x.st /\ x.clen = w.x.clen
      /\ x.cpos = w.x.cpos /\ x.resp = w.x.resp /\ x.owed = w.x.owed
      /\ x.cut = w.x.cut /\ x.asked = w.x.asked
      /\ x.files = [w.x.files EXCEPT ![w.d.file] = total]
  BY <1>1 DEF IsWork, IsContext, SameLists
<1>6. x.files \in Seq(Nat)
  <2> DEFINE fs == w.x.files
  <2>1. fs \in Seq(Nat)
    BY <1>1 DEF Naturals_
  <2> HIDE DEF fs
  <2>2. [fs EXCEPT ![w.d.file] = total] \in Seq(Nat)
    BY <2>1, StaysSequence
  <2> QED BY <1>5, <2>2 DEF fs
<1> HIDE DEF x, b
<1>7. IsWork(b) /\ b.x = x /\ b.d = w.d /\ b.s = a.s /\ b.c = w.c /\ b.v = w.v
  BY <1>3, <1>4, <1>5 DEF Serves, Good, Owned, IsWork
<1>8. Serves(w, b, o)
  <2>1. Settled(b.c, b.x.st, b.d, b.v)
    BY <1>1, <1>5, <1>7
  <2> QED BY <1>3, <1>5, <1>7, <2>1, FieldsGood DEF SameSeen
<1>9. Owned(b, o) /\ b.d.tfl = 0 /\ b.d.vid = 0 /\ b.x.st = "Size" /\ b.c \in Sides
  BY <1>1, <1>5, <1>7, <1>8 DEF Serves, Good
<1>10. Restarts(b, u, o) /\ SameOwed(b, u) /\ Sound(b, u)
  BY <1>9, InitEmptyRestarts
<1> HIDE DEF u
<1>11. Naturals_(b.x, b.d) /\ Owing(b.c, b.x, b.d)
  BY <1>1, <1>5, <1>6, <1>7 DEF Naturals_, Owing, SameLists
<1>12. Replies(b, u, o, left)
  BY <1>7, <1>9, <1>10, <1>11, OverReplies DEF Waiting
<1>13. (Calm(opt) => Sound(w, b)) /\ b.s.text = w.s.text
  BY <1>2, <1>3, <1>7 DEF Sound, SameSeen
<1>14. Replies(w, u, o, left)
  BY <1>8, <1>12, <1>13, ServesInTurn, SoundInTurn DEF Replies
<1> QED BY <1>14 DEF u, b, a, p

LEMMA NoLockResponseReplies ==
  ASSUME NEW w, NEW o, Good(w, o), NEW total \in Nat, Ready(w, total), ~w.thrown,
         opt \in Options, w.x.st = "RequestedRange" => Fresh(w.v) # {},
         NEW sid, NEW n \in Nat, NEW last \in BOOLEAN,
         w.x.st \in {"RequestedRange", "GetRange"} /\ Verifies(w.c) /\ sid = w.d.sid
           => n <= total /\ last = (n = total)
  PROVE  Replies(w, NoLockResponse(w, sid, n, last, total), o,
                 IF last THEN 0 ELSE total - n)
<1> DEFINE left == IF last THEN 0 ELSE total - n
           u == NoLockResponse(w, sid, n, last, total)
<1>1. /\ Settled(w.c, w.x.st, w.d, w.v) /\ Naturals_(w.x, w.d) /\ Owing(w.c, w.x, w.d)
  BY DEF Good, Ready
<1>2. Replies(w, Throw(w), o, left)
  BY ThrowReplies
<1>3. CASE w.x.st \in {"Size", "RequestedRange", "Range", "RequestedSyncRange",
                   "GetRange"} /\ sid # w.d.sid
  BY <1>2, <1>3 DEF NoLockResponse
<1>4. CASE w.x.st = "Size" /\ sid = w.d.sid
  <2>1. u = InitEmpty([Asserted(w, w.d.file \in DOMAIN w.x.files)
                             EXCEPT !.x.files[w.d.file] = total])
    BY <1>4 DEF NoLockResponse
  <2> HIDE DEF u, left
  <2>2. Replies(w, u, o, left)
    BY <1>4, <2>1, SizeReplies
  <2> QED BY <2>2 DEF u, left
<1>5. CASE w.x.st = "RequestedRange" /\ sid = w.d.sid /\ Verifies(w.c)
  <2>1. u = FirstVerified(w, n, last, total)
    BY <1>5 DEF NoLockResponse
  <2> HIDE DEF u
  <2>2. Replies(w, u, o, left)
    BY <1>1, <1>5, <2>1, FirstVerifiedReplies
  <2> QED BY <2>2 DEF u
<1>6. CASE w.x.st = "RequestedRange" /\ sid = w.d.sid /\ ~Verifies(w.c)
  <2> DEFINE g == requested_range_to(w, "Range")
  <2>1. u = RangeChunk(g, n, last)
    BY <1>6 DEF NoLockResponse
  <2>2. /\ Steps(w, g, o) /\ g.x.st = "Range" /\ g.c = w.c
        /\ Naturals_(g.x, g.d) /\ g.x.owed = w.x.owed /\ g.x.cut = w.x.cut
    BY <1>1, <1>6, RequestedRangeSteps
  <2> HIDE DEF u, g, left
  <2>3. Good(g, o) /\ Owing(g.c, g.x, g.d)
    BY <1>1, <1>6, <2>2 DEF Steps, Serves, Owing
  <2>4. Replies(g, u, o, left)
    BY <2>1, <2>2, <2>3, RangeChunkReplies
  <2>5. Replies(w, u, o, left)
    BY <2>2, <2>4, RepliesInTurn
  <2> QED BY <2>5 DEF u, left
<1>7. CASE w.x.st = "Range" /\ sid = w.d.sid
  <2>1. u = RangeChunk(w, n, last)
    BY <1>7 DEF NoLockResponse
  <2> HIDE DEF u, left
  <2>2. Replies(w, u, o, left)
    BY <1>1, <1>7, <2>1, RangeChunkReplies
  <2> QED BY <2>2 DEF u, left
<1>8. CASE w.x.st = "RequestedSyncRange" /\ sid = w.d.sid
  <2>1. u = SyncChunk(w, n, last)
    BY <1>8 DEF NoLockResponse
  <2> HIDE DEF u, left
  <2>2. Replies(w, u, o, left)
    BY <1>1, <1>8, <2>1, SyncChunkReplies
  <2> QED BY <2>2 DEF u, left
<1>9. CASE w.x.st = "GetRange" /\ sid = w.d.sid
  <2>1. u = GetChunk(w, n, last)
    BY <1>9 DEF NoLockResponse
  <2>2. Verifies(w.c)
    BY <1>1, <1>9 DEF Settled, Waiting
  <2> HIDE DEF u
  <2>3. Replies(w, u, o, left)
    BY <1>9, <2>1, <2>2, GetChunkReplies
  <2> QED BY <2>3 DEF u
<1>10. CASE w.x.st \notin {"Size", "RequestedRange", "Range", "RequestedSyncRange",
                   "GetRange"}
  <2>1. u = Throw(w)
    BY <1>10 DEF NoLockResponse
  <2> QED BY <1>2, <2>1
<1> HIDE DEF u, left
<1>11. Replies(w, u, o, left)
  BY <1>3, <1>4, <1>5, <1>6, <1>7, <1>8, <1>9, <1>10 DEF u, left
<1> QED BY <1>11 DEF u, left

----------------------------------------------------------------------------
(* The chunks of a text or a list. *)

(* What is owed to a side that asked for other data was cut. *)
LEMMA OtherFormatCut ==
  ASSUME NEW c, NEW x, NEW d, Answering(c, x, d), x.fmt # "none"
  PROVE  (x.owed => x.cut) /\ (~Verifies(c) => ~x.owed)
BY DEF Answering

LEMMA OpenTextSteps ==
  ASSUME NEW w, NEW o, Good(w, o), w.x.st = "Empty", Fresh(w.v) # {}, NEW big \in BOOLEAN
  PROVE  LET u == OpenText(w, big)
         IN  /\ Steps(w, u, o) /\ u.c = w.c /\ u.thrown = w.thrown
             /\ SameContext(w.x, u.x) /\ u.x.asked = w.x.asked
             /\ u.x.st \in {"Text", "TextAccumulate", "RejectedText"}
             /\ u.d.off = w.d.off /\ u.d.req = w.d.req /\ u.d.size = w.d.size
             /\ u.d.first = w.d.first
<1> DEFINE n == NewId(w.v)
           d == [w.d EXCEPT !.vid = n, !.own = n]
           v == [w.v EXCEPT !.svc[n] = "open"]
           b == [w EXCEPT !.v.svc[n] = "open", !.d.vid = n, !.d.own = n]
           u == OpenText(w, big)
<1>1. /\ IsWork(w) /\ Settled(w.c, w.x.st, w.d, w.v) /\ w.c \in Sides
      /\ Held(w.d, w.v, w.s.keep, o) /\ w.d.tfl = 0 /\ w.d.vid = 0
      /\ w.d.verdict = "Wait"
  BY DEF Good, Owned, Settled, Holding, Validating
<1>2. n \in Ids /\ w.v.svc[n] = "free" /\ w.v.tfl[n] = "free" /\ n # 0
  BY FreshIsNew DEF Ids
<1>3. u = IF VerifiesText(w.c) /\ big THEN SetState(w, {"Empty"}, "RejectedText")
          ELSE IF VerifiesText(w.c) THEN SetState(b, {"Empty"}, "TextAccumulate")
          ELSE SetState(b, {"Empty"}, "Text")
  BY DEF OpenText
<1> HIDE DEF n, u
<1>4. /\ IsRange(d) /\ d.own = n /\ d.vid = n /\ d.tfl = 0 /\ d.verdict = "Wait"
      /\ d.sig = w.d.sig
      /\ d.off = w.d.off /\ d.req = w.d.req /\ d.size = w.d.size /\ d.first = w.d.first
  BY <1>1 DEF IsWork, IsRange
<1>5. /\ IsService(v) /\ v.svc = [w.v.svc EXCEPT ![n] = "open"]
      /\ v.tfl = w.v.tfl /\ v.res = w.v.res
      /\ v.files = w.v.files /\ v.texts = w.v.texts
  BY <1>1 DEF IsWork, IsService
<1>6. b = [w EXCEPT !.v = v, !.d = d]
  BY <1>1 DEF IsWork, IsService, IsRange
<1> HIDE DEF d, v, b
<1>7. /\ IsWork(b) /\ b.c = w.c /\ b.x = w.x /\ b.s = w.s /\ b.d = d /\ b.v = v
      /\ b.thrown = w.thrown
  BY <1>1, <1>4, <1>5, <1>6 DEF IsWork
<1>8. /\ w.v.svc = [j \in Ids |-> w.v.svc[j]] /\ w.v.res[n] = "none"
      /\ w.v.tfl = [j \in Ids |-> w.v.tfl[j]]
  BY <1>1, <1>2 DEF Held, Services
<1>9. Opens(w.v, v, n) /\ v.svc[n] = "open" /\ v.tfl[n] = "free" /\ v.res[n] = "none"
  <2>1. v.svc[n] = "open" /\ \A j \in Ids \ {n} : v.svc[j] = w.v.svc[j]
    BY <1>2, <1>5, <1>8
  <2>2. v.svc = [j \in Ids |-> v.svc[j]]
    BY <1>5, <1>8
  <2> QED BY <1>2, <1>5, <1>8, <2>1, <2>2 DEF Opens
<1>10. Held(d, v, w.s.keep, o) /\ Elsewhere(w.v, v, o)
  <2> DEFINE k == w.s.keep
             j == w.v
             e == w.d
  <2>1. /\ Held(e, j, k, o) /\ j.svc[n] = "free" /\ j.tfl[n] = "free"
        /\ Opens(j, v, n) /\ n \in Ids /\ e.tfl = 0 /\ e.vid = 0
    BY <1>1, <1>2, <1>9
  <2>2. /\ d.vid \in {0, n} /\ d.tfl \in {0, n} /\ (v.svc[n] = "open" <=> d.vid = n)
        /\ v.tfl[n] = "open" <=> d.tfl = n
        /\ v.svc[n] \in {"open", "none"} /\ d.own = n /\ d.verdict = "Wait"
    BY <1>2, <1>4, <1>9
  <2> HIDE DEF j, k, e
  <2>3. Held(d, v, k, o) /\ Elsewhere(j, v, o)
    BY <2>1, <2>2, BeginsHeld
  <2> QED BY <2>3 DEF j, k
<1> DEFINE st == IF VerifiesText(w.c) THEN "TextAccumulate" ELSE "Text"
<1>11. ASSUME ~(VerifiesText(w.c) /\ big)
       PROVE  /\ Steps(w, u, o) /\ u.c = w.c /\ u.thrown = w.thrown
              /\ SameContext(w.x, u.x) /\ u.x.asked = w.x.asked /\ u.x.st = st
              /\ u.d = d
  <2>0. u = SetState(b, {"Empty"}, st)
    BY <1>3, <1>11
  <2>1. /\ IsWork(u) /\ SameRest(b, u) /\ u.d = b.d
        /\ SameContext(b.x, u.x) /\ u.x.st = st /\ u.x.asked = b.x.asked
        /\ SameSeen(b, u) /\ Sound(b, u)
    BY <1>7, <2>0, SetStateFields
  <2>2. Settled(u.c, u.x.st, u.d, u.v)
    BY <1>2, <1>4, <1>7, <1>9, <1>11, <2>1
       DEF SameRest, Settled, Holding, Texts, Signing, Waiting, Validating
  <2>3. Good(u, o)
    <3>1. u.d = d /\ u.v = v /\ u.s.keep = w.s.keep /\ u.c = w.c
      BY <1>7, <2>1 DEF SameRest, SameSeen
    <3>2. Held(u.d, u.v, u.s.keep, o)
      BY <1>10, <3>1
    <3> QED BY <1>1, <2>1, <2>2, <3>1, <3>2 DEF Good, Owned
  <2>4. Beside(w, u, o)
    BY <1>7, <1>10, <2>1 DEF Beside, SameRest, SameSeen, SameContext
  <2> QED BY <1>7, <2>1, <2>3, <2>4 DEF Steps, Serves, Sound, SameSeen, SameRest
<1>12. ASSUME u = SetState(w, {"Empty"}, "RejectedText")
       PROVE  /\ Steps(w, u, o) /\ u.c = w.c /\ u.thrown = w.thrown
              /\ SameContext(w.x, u.x) /\ u.x.asked = w.x.asked
              /\ u.x.st = "RejectedText" /\ u.d = w.d
  <2>1. /\ IsWork(u) /\ SameRest(w, u) /\ u.d = w.d
        /\ SameContext(w.x, u.x) /\ u.x.st = "RejectedText" /\ u.x.asked = w.x.asked
        /\ SameSeen(w, u) /\ Sound(w, u)
    BY <1>1, <1>12, SetStateFields
  <2>2. Settled(u.c, u.x.st, u.d, u.v)
    BY <1>1, <2>1
       DEF SameRest, Settled, Holding, Texts, Signing, Waiting, Validating
  <2>3. Serves(w, u, o)
    BY <2>1, <2>2, FieldsGood DEF SameRest, SameSeen, SameContext
  <2> QED BY <2>1, <2>3 DEF Steps, SameRest, SameSeen
<1>13. CASE VerifiesText(w.c) /\ big
  BY <1>3, <1>12, <1>13 DEF u
<1>14. CASE ~(VerifiesText(w.c) /\ big)
  BY <1>4, <1>11, <1>14 DEF u
<1> QED BY <1>13, <1>14

LEMMA PassTextServes ==
  ASSUME NEW w, NEW o, Good(w, o)
  PROVE  LET u == PassText(w)
         IN  /\ Serves(w, u, o) /\ Sound(w, u)
             /\ u.d = w.d /\ u.v = w.v /\ u.x = w.x /\ u.thrown = w.thrown
             /\ u.c = w.c
             /\ (VerifiesText(w.c) => w.v.res[w.d.own] = "accept") /\ ~w.s.text
                  => ~u.s.text
<1> DEFINE s == [w.s EXCEPT !.text =
                   @ \/ (VerifiesText(w.c) /\ w.v.res[w.d.own] # "accept")]
           u == PassText(w)
<1>1. /\ IsSeen(s) /\ s.keep = w.s.keep /\ s.assertion = w.s.assertion
      /\ (VerifiesText(w.c) => w.v.res[w.d.own] = "accept") /\ ~w.s.text => ~s.text
  BY DEF Good, Owned, IsWork, IsSeen
<1>2. u = [w EXCEPT !.s = s]
  BY DEF PassText
<1> HIDE DEF s, u
<1>3. /\ IsWork(u) /\ u.c = w.c /\ u.x = w.x /\ u.thrown = w.thrown
      /\ u.v = w.v /\ u.d = w.d /\ u.s = s
  BY <1>1, <1>2 DEF Good, Owned, IsWork
<1>4. Serves(w, u, o) /\ Sound(w, u)
  BY <1>1, <1>3 DEF Serves, Good, Owned, Beside, Elsewhere, SameLists, Sound
<1> QED BY <1>1, <1>3, <1>4 DEF u

(* Between two chunks of a text: a request for a file may have come, and when
   the text was accepted on the way the rest of it goes on at once. *)
Amid(w) ==
    /\ w.x.st \in {"Text", "TextAccumulate", "RejectedText", "Empty", "Size",
                   "RequestedRange"}
    /\ ~opt.overlap => w.x.st \notin {"Size", "RequestedRange"}
    /\ Faithful(opt) /\ VerifiesText(w.c)
       /\ w.x.st \in {"Empty", "Size", "RequestedRange"} =>
         w.d.own \in Ids /\ w.v.res[w.d.own] = "accept"

(* What a chunk ends with; to is what is left of the response. *)
Chunks(w, u, o, to) ==
    /\ Serves(w, u, o) /\ (Calm(opt) => Sound(w, u))
    /\ Faithful(opt) /\ ~w.s.text => ~u.s.text
    /\ u.thrown \/ Fit(u, to)

LEMMA RepliesChunks ==
  ASSUME NEW w, NEW u, NEW o, NEW to, Replies(w, u, o, to)
  PROVE  Chunks(w, u, o, to)
BY DEF Replies, Chunks

LEMMA ChunksInTurn ==
  ASSUME NEW w, NEW u, NEW t, NEW o, NEW to, Steps(w, u, o), Chunks(u, t, o, to)
  PROVE  Chunks(w, t, o, to)
BY ServesInTurn DEF Steps, Chunks, Sound

(* The end of a text that waits for its verdict. *)
LEMMA TextWaits ==
  ASSUME NEW w, NEW o, Good(w, o), NEW to, Fit(w, to), w.x.st = "TextAccumulate"
  PROVE  Replies(w, SetState(SendEof(w), {"TextAccumulate"}, "WaitingTextValidator"),
                 o, to)
<1> DEFINE b == SendEof(w)
           u == SetState(b, {"TextAccumulate"}, "WaitingTextValidator")
<1>1. /\ Owned(w, o) /\ IsWork(w) /\ w.c \in Sides /\ Settled(w.c, w.x.st, w.d, w.v)
      /\ w.d.vid # 0 /\ w.v.svc[w.d.vid] = "open" /\ VerifiesText(w.c)
  BY DEF Good, Owned, Settled, Texts
<1>2. Moves(w, b, o) /\ b.d = w.d /\ Sound(w, b)
  BY <1>1, EofMoves
<1> HIDE DEF b
<1>3. IsWork(b) /\ b.x.st \in {"TextAccumulate"}
  BY <1>2 DEF Moves, Owned
<1>4. /\ IsWork(u) /\ SameRest(b, u) /\ u.d = b.d
      /\ SameContext(b.x, u.x) /\ u.x.st = "WaitingTextValidator"
      /\ u.x.asked = b.x.asked /\ SameSeen(b, u) /\ Sound(b, u)
  BY <1>3, SetStateFields
<1> HIDE DEF u
<1>5. u.d = w.d /\ u.c = w.c /\ u.v = b.v /\ u.v.res = w.v.res
  BY <1>2, <1>4 DEF SameRest, Moves, Elsewhere
<1>6. Settled(u.c, u.x.st, u.d, u.v)
  BY <1>1, <1>4, <1>5 DEF Settled, Holding, Texts, Signing, Waiting, Validating
<1>7. Good(u, o)
  <2>1. Held(u.d, u.v, u.s.keep, o)
    BY <1>2, <1>4, <1>5 DEF Moves, Owned, SameSeen
  <2> QED BY <1>1, <1>4, <1>5, <1>6, <2>1 DEF Good, Owned
<1>8. Beside(w, u, o)
  BY <1>2, <1>4, <1>5 DEF Beside, Moves, SameRest, SameSeen, SameContext
<1>9. Sound(w, u) /\ u.s.text = w.s.text
  BY <1>2, <1>4 DEF Sound, SameSeen, Moves
<1>10. Fit(u, to)
  <2>1. SameContext(w.x, u.x)
    BY <1>2, <1>4 DEF Moves
  <2> QED BY <1>4, <1>5, <2>1
          DEF Fit, Naturals_, Buffered, Answering, SameContext, SameLists, Waiting
<1> QED BY <1>7, <1>8, <1>9, <1>10 DEF Replies, Serves, u, b

(* A chunk of text in the state it finds. *)
TextGoes(w, last) ==
    CASE w.x.st = "Text" ->
           IF last THEN InitEmpty(finalize_text_transfer(w)) ELSE w
      [] w.x.st = "TextAccumulate" ->
           IF last THEN SetState(SendEof(w), {"TextAccumulate"},
                                 "WaitingTextValidator") ELSE w
      [] w.x.st = "RejectedText" -> IF last THEN InitEmpty(w) ELSE w
      [] w.x.st = "Empty" -> PassText(w)
      [] OTHER -> Asserted(w, FALSE)

LEMMA TextGoesOn ==
  ASSUME NEW w, NEW o, Good(w, o), NEW to, Fit(w, to), w.x.fmt # "none", Amid(w),
         w.c \in opt.text, NEW last \in BOOLEAN
  PROVE  LET u == TextGoes(w, last)
         IN  Chunks(w, u, o, to) /\ (~last => Amid(u))
<1> DEFINE u == TextGoes(w, last)
           End == Chunks(w, u, o, to) /\ (~last => Amid(u))
<1> SUFFICES End
  OBVIOUS
<1>1. /\ Owned(w, o) /\ IsWork(w) /\ w.c \in Sides /\ Settled(w.c, w.x.st, w.d, w.v)
      /\ Naturals_(w.x, w.d) /\ Answering(w.c, w.x, w.d)
  BY DEF Good, Owned, Fit
<1>2. (w.x.owed => w.x.cut) /\ (~Verifies(w.c) => ~w.x.owed)
  BY <1>1, OtherFormatCut
<1>3. Chunks(w, w, o, to)
  BY ServesItself DEF Chunks
<1>4. ASSUME NEW t, Restarts(w, t, o), SameOwed(w, t), Sound(w, t)
      PROVE  Chunks(w, t, o, to)
  <2>1. Replies(w, t, o, to)
    BY <1>1, <1>2, <1>4, RestartsReplies DEF SameOwed
  <2> QED BY <2>1, RepliesChunks
<1>5. CASE w.x.st \in {"Text", "TextAccumulate", "RejectedText"} /\ ~last
  <2>1. u = w
    BY <1>5 DEF TextGoes
  <2> QED BY <1>3, <2>1
<1>6. CASE w.x.st = "Text" /\ last
  <2>1. u = InitEmpty(finalize_text_transfer(w))
    BY <1>6 DEF TextGoes
  <2>2. w.d.tfl = 0 /\ w.d.vid # 0 /\ w.v.svc[w.d.vid] = "open"
    BY <1>1, <1>6 DEF Settled, Texts, Holding
  <2> HIDE DEF u
  <2>3. Restarts(w, u, o) /\ SameOwed(w, u) /\ Sound(w, u)
    BY <1>1, <2>1, <2>2, FinalizeTextRestarts
  <2> QED BY <1>4, <1>6, <2>3
<1>7. CASE w.x.st = "TextAccumulate" /\ last
  <2>1. u = SetState(SendEof(w), {"TextAccumulate"}, "WaitingTextValidator")
    BY <1>7 DEF TextGoes
  <2> HIDE DEF u
  <2> QED BY <1>7, <2>1, TextWaits, RepliesChunks
<1>8. CASE w.x.st = "RejectedText" /\ last
  <2>1. u = InitEmpty(w)
    BY <1>8 DEF TextGoes
  <2>2. w.d.tfl = 0 /\ (Faithful(opt) /\ w.d.vid # 0 => w.v.res[w.d.vid] # "none")
    BY <1>1, <1>8 DEF Settled, Holding
  <2> HIDE DEF u
  <2>3. Restarts(w, u, o) /\ SameOwed(w, u) /\ Sound(w, u)
    BY <1>1, <2>1, <2>2, InitEmptyRestarts
  <2> QED BY <1>4, <1>8, <2>3
<1>9. CASE w.x.st = "Empty"
  <2>1. u = PassText(w)
    BY <1>9 DEF TextGoes
  <2> HIDE DEF u
  <2>2. /\ Serves(w, u, o) /\ Sound(w, u)
        /\ u.d = w.d /\ u.v = w.v /\ u.x = w.x /\ u.thrown = w.thrown /\ u.c = w.c
        /\ (VerifiesText(w.c) => w.v.res[w.d.own] = "accept") /\ ~w.s.text
             => ~u.s.text
    BY <2>1, PassTextServes
  <2>3. Faithful(opt) /\ ~w.s.text => ~u.s.text
    BY <1>9, <2>2 DEF Amid
  <2> QED BY <2>2, <2>3 DEF Chunks, Fit, Amid
<1>10. CASE w.x.st \in {"Size", "RequestedRange"}
  <2>1. u = Asserted(w, FALSE)
    BY <1>10 DEF TextGoes
  <2> HIDE DEF u
  <2>2. /\ Serves(w, u, o) /\ SameSeen(w, u)
        /\ u.d = w.d /\ u.v = w.v /\ u.x = w.x /\ u.thrown = w.thrown /\ u.c = w.c
    BY <2>1, AssertedGood
  <2>3. ~Calm(opt)
    BY <1>10 DEF Amid, Calm
  <2> QED BY <2>2, <2>3 DEF Chunks, Fit, Amid, SameSeen
<1> HIDE DEF u
<1> QED BY <1>5, <1>6, <1>7, <1>8, <1>9, <1>10 DEF Amid

LEMMA TextChunkServes ==
  ASSUME NEW w, NEW o, Good(w, o), NEW left, Fit(w, left), ~w.thrown,
         w.x.fmt # "none", w.c \in opt.text, NEW first \in BOOLEAN,
         NEW last \in BOOLEAN, NEW big \in BOOLEAN, first => Fresh(w.v) # {},
         ~first => Amid(w), NEW to
  PROVE  LET u == TextChunk(w, first, last, big)
         IN  Chunks(w, u, o, to) /\ (~last /\ ~u.thrown => Amid(u))
<1> DEFINE r == IF first THEN reset_nolock_data(w) ELSE w
           b == IF first THEN OpenText(r, big) ELSE r
           u == TextChunk(w, first, last, big)
           End == Chunks(w, u, o, to) /\ (~last /\ ~u.thrown => Amid(u))
<1> SUFFICES End
  OBVIOUS
<1>1. u = IF r.thrown THEN r ELSE TextGoes(b, last)
  BY DEF TextChunk, TextGoes
<1>2. /\ Owned(w, o) /\ IsWork(w) /\ w.c \in Sides /\ Naturals_(w.x, w.d)
      /\ Answering(w.c, w.x, w.d)
  BY DEF Good, Owned, Fit
<1>3. (w.x.owed => w.x.cut) /\ (~Verifies(w.c) => ~w.x.owed)
  BY <1>2, OtherFormatCut
<1> HIDE DEF u
<1>4. CASE ~first
  <2>1. u = TextGoes(w, last)
    BY <1>1, <1>4
  <2>2. Fit(w, to)
    BY <1>4 DEF Fit, Buffered, Amid
  <2> QED BY <1>4, <2>1, <2>2, TextGoesOn
<1>5. CASE first
  <2>1. /\ Serves(w, r, o) /\ Sound(w, r) /\ r.s.text = w.s.text
        /\ ~r.thrown => /\ r = w \/ (Restarts(w, r, o) /\ SameOwed(w, r))
                        /\ r.x.st = "Empty"
    BY <1>5, ResetNolockServes
  <2>2. b = OpenText(r, big)
    BY <1>5
  <2> HIDE DEF r, b
  <2>3. CASE r.thrown
    <3>1. u = r
      BY <1>1, <2>3
    <3> QED BY <2>1, <2>3, <3>1 DEF Chunks
  <2>4. CASE ~r.thrown
    <3>1. /\ Fresh(r.v) # {} /\ r.s.text = w.s.text /\ r.c = w.c
          /\ Naturals_(r.x, r.d) /\ SameOwed(w, r) /\ r.x.fmt = w.x.fmt
      <4>1. CASE r = w
        BY <1>2, <1>5, <4>1 DEF SameOwed
      <4>2. CASE Restarts(w, r, o) /\ SameOwed(w, r)
        <5>1. Fresh(w.v) \subseteq Fresh(r.v) /\ r.s.text = w.s.text /\ r.c = w.c
          BY <4>2 DEF Restarts, SameSeen
        <5>2. Fit(r, to)
          BY <1>2, <1>3, <4>2, RestartsFit DEF SameOwed
        <5> QED BY <1>5, <2>1, <4>2, <5>1, <5>2 DEF Fit, Serves, Beside, SameLists
      <4> QED BY <2>1, <2>4, <4>1, <4>2
    <3>2. Good(r, o) /\ r.x.st = "Empty"
      BY <2>1, <2>4 DEF Serves
    <3>3. /\ Steps(r, b, o) /\ b.c = r.c /\ b.thrown = r.thrown
          /\ SameContext(r.x, b.x) /\ b.x.asked = r.x.asked
          /\ b.x.st \in {"Text", "TextAccumulate", "RejectedText"}
          /\ b.d.off = r.d.off /\ b.d.req = r.d.req /\ b.d.size = r.d.size
          /\ b.d.first = r.d.first
      BY <2>2, <3>1, <3>2, OpenTextSteps
    <3>4. Good(b, o) /\ b.x.fmt # "none" /\ b.c \in opt.text /\ Amid(b)
      BY <3>1, <3>3 DEF Steps, Serves, SameContext, SameLists, Amid
    <3>5. Fit(b, to)
      <4>1. Naturals_(b.x, b.d) /\ Buffered(b.x, b.d, to)
        BY <3>1, <3>3 DEF Naturals_, Buffered, SameContext, Waiting
      <4>2. Answering(b.c, b.x, b.d)
        BY <1>3, <3>1, <3>3 DEF Answering, SameContext, SameOwed
      <4> QED BY <4>1, <4>2 DEF Fit
    <3>6. u = TextGoes(b, last)
      BY <1>1, <2>4
    <3>7. Chunks(b, u, o, to) /\ (~last => Amid(u))
      BY <3>4, <3>5, <3>6, TextGoesOn
    <3>8. Steps(w, b, o)
      <4>1. Steps(w, r, o)
        BY <2>1, <3>1 DEF Steps
      <4> QED BY <3>3, <4>1, StepsInTurn
    <3> QED BY <3>7, <3>8, ChunksInTurn
  <2> QED BY <2>3, <2>4
<1> QED BY <1>4, <1>5

(* What a chunk of a list, a text or any format ends with. *)
Delivers(w, u, o, to) ==
    /\ Good(u, o) /\ u.c = w.c /\ u.s.keep = w.s.keep /\ Elsewhere(w.v, u.v, o)
    /\ u.x.ranges = w.x.ranges /\ (LockList(w.x) => LockList(u.x))
    /\ u.x.lock = w.x.lock \/ (w.x.lock = "HasLock" /\ u.x.lock = "LockIsUsed")
    /\ u.x.fmt = w.x.fmt /\ u.x.flist = w.x.flist
    /\ (Calm(opt) => Sound(w, u)) /\ (Faithful(opt) /\ ~w.s.text => ~u.s.text)
    /\ u.thrown \/ Fit(u, to)

LEMMA ChunksDelivers ==
  ASSUME NEW w, NEW u, NEW o, NEW to, Chunks(w, u, o, to)
  PROVE  Delivers(w, u, o, to)
BY DEF Chunks, Delivers, Serves, Beside, SameLists, LockList

LEMMA ResetFits ==
  ASSUME NEW w, NEW o, Good(w, o), NEW left, Fit(w, left), ~w.thrown, w.x.fmt # "none"
  PROVE  LET u == reset_nolock_data(w)
         IN  /\ Steps(w, u, o)
             /\ ~u.thrown => Fit(u, left) /\ u.x.st = "Empty"
<1> DEFINE r == reset_nolock_data(w)
<1>1. /\ Owned(w, o) /\ IsWork(w) /\ w.c \in Sides /\ Naturals_(w.x, w.d)
      /\ Answering(w.c, w.x, w.d)
  BY DEF Good, Owned, Fit
<1>2. (w.x.owed => w.x.cut) /\ (~Verifies(w.c) => ~w.x.owed)
  BY <1>1, OtherFormatCut
<1>3. /\ Serves(w, r, o) /\ Sound(w, r) /\ r.s.text = w.s.text
      /\ ~r.thrown => /\ r = w \/ (Restarts(w, r, o) /\ SameOwed(w, r))
                      /\ r.x.st = "Empty"
  BY ResetNolockServes
<1> HIDE DEF r
<1>4. ASSUME ~r.thrown PROVE Fit(r, left)
  <2>1. CASE r = w
    BY <2>1
  <2>2. CASE Restarts(w, r, o) /\ SameOwed(w, r)
    BY <1>1, <1>2, <2>2, RestartsFit DEF SameOwed
  <2> QED BY <1>3, <1>4, <2>1, <2>2
<1> QED BY <1>3, <1>4 DEF Steps, r

(* A longer list has the files of the shorter one. *)
LEMMA PrefixDomain ==
  ASSUME NEW s \in Seq(Nat), NEW t \in Seq(Nat), IsPrefix(s, t)
  PROVE  DOMAIN s \subseteq DOMAIN t
BY DEF IsPrefix

(* The files of the context, in the middle of a list and at its end. *)
LEMMA FilesFields ==
  ASSUME NEW w, IsWork(w), NEW files
  PROVE  LET u == [w EXCEPT !.x.files = files]
         IN  /\ IsWork(u) /\ u.c = w.c /\ u.d = w.d /\ u.v = w.v /\ u.s = w.s
             /\ u.thrown = w.thrown /\ u.x.files = files /\ u.x.locks = w.x.locks
             /\ u.x.lock = w.x.lock /\ u.x.st = w.x.st /\ u.x.clen = w.x.clen
             /\ u.x.cpos = w.x.cpos /\ u.x.resp = w.x.resp /\ u.x.owed = w.x.owed
             /\ u.x.cut = w.x.cut /\ u.x.fmt = w.x.fmt /\ u.x.flist = w.x.flist
             /\ u.x.lid = w.x.lid /\ u.x.slot = w.x.slot /\ u.x.sizes = w.x.sizes
             /\ u.x.ranges = w.x.ranges /\ u.x.asked = w.x.asked
<1> DEFINE x == [w.x EXCEPT !.files = files]
           u == [w EXCEPT !.x.files = files]
<1>1. u = [w EXCEPT !.x = x]
  BY DEF IsWork, IsContext
<1>2. /\ IsContext(x) /\ x.files = files /\ x.locks = w.x.locks
      /\ x.lock = w.x.lock /\ x.st = w.x.st /\ x.clen = w.x.clen
      /\ x.cpos = w.x.cpos /\ x.resp = w.x.resp /\ x.owed = w.x.owed
      /\ x.cut = w.x.cut /\ x.fmt = w.x.fmt /\ x.flist = w.x.flist
      /\ x.lid = w.x.lid /\ x.slot = w.x.slot /\ x.sizes = w.x.sizes
      /\ x.ranges = w.x.ranges /\ x.asked = w.x.asked
  BY DEF IsWork, IsContext
<1> HIDE DEF x, u
<1>3. /\ IsWork(u) /\ u.c = w.c /\ u.d = w.d /\ u.v = w.v /\ u.s = w.s
      /\ u.thrown = w.thrown /\ u.x = x
  BY <1>1, <1>2 DEF IsWork
<1> QED BY <1>2, <1>3 DEF u

LockEntry(l, files) == [lock |-> l, files |-> files]

KeepFiles(w, files) ==
    [w EXCEPT !.x.locks = Append(@, LockEntry(w.x.lid, files)),
              !.x.files = << >>, !.x.lock = "LockIsUsed"]

LEMMA LockedFields ==
  ASSUME NEW w, IsWork(w), NEW files
  PROVE  LET u == KeepFiles(w, files)
         IN  /\ IsWork(u) /\ u.c = w.c /\ u.d = w.d /\ u.v = w.v /\ u.s = w.s
             /\ u.thrown = w.thrown /\ u.x.files = << >>
             /\ u.x.locks = Append(w.x.locks, LockEntry(w.x.lid, files))
             /\ u.x.lock = "LockIsUsed" /\ u.x.st = w.x.st /\ u.x.clen = w.x.clen
             /\ u.x.cpos = w.x.cpos /\ u.x.resp = w.x.resp /\ u.x.owed = w.x.owed
             /\ u.x.cut = w.x.cut /\ u.x.fmt = w.x.fmt /\ u.x.flist = w.x.flist
             /\ u.x.lid = w.x.lid /\ u.x.slot = w.x.slot /\ u.x.sizes = w.x.sizes
             /\ u.x.ranges = w.x.ranges /\ u.x.asked = w.x.asked
<1> DEFINE x == [w.x EXCEPT
                   !.locks = Append(@, LockEntry(w.x.lid, files)),
                   !.files = << >>, !.lock = "LockIsUsed"]
           u == KeepFiles(w, files)
<1>1. u = [w EXCEPT !.x = x]
  BY DEF KeepFiles, IsWork, IsContext
<1>2. /\ IsContext(x) /\ x.files = << >>
      /\ x.locks = Append(w.x.locks, LockEntry(w.x.lid, files))
      /\ x.lock = "LockIsUsed" /\ x.st = w.x.st /\ x.clen = w.x.clen
      /\ x.cpos = w.x.cpos /\ x.resp = w.x.resp /\ x.owed = w.x.owed
      /\ x.cut = w.x.cut /\ x.fmt = w.x.fmt /\ x.flist = w.x.flist
      /\ x.lid = w.x.lid /\ x.slot = w.x.slot /\ x.sizes = w.x.sizes
      /\ x.ranges = w.x.ranges /\ x.asked = w.x.asked
  BY DEF IsWork, IsContext
<1> HIDE DEF x, u
<1>3. /\ IsWork(u) /\ u.c = w.c /\ u.d = w.d /\ u.v = w.v /\ u.s = w.s
      /\ u.thrown = w.thrown /\ u.x = x
  BY <1>1, <1>2 DEF IsWork
<1> QED BY <1>2, <1>3 DEF u

LEMMA AppendedLocks ==
  ASSUME NEW ls \in Seq([lock : Locks, files : Seq(Nat)]), NEW l \in Locks,
         NEW files \in Seq(Nat)
  PROVE  LET t == Append(ls, LockEntry(l, files))
         IN  /\ t \in Seq([lock : Locks, files : Seq(Nat)])
             /\ \A k : HasLock(ls, k) => HasLock(t, k)
<1> DEFINE e == LockEntry(l, files)
           t == Append(ls, e)
<1>1. e \in [lock : Locks, files : Seq(Nat)]
  BY DEF LockEntry
<1> HIDE DEF e
<1>2. /\ t \in Seq([lock : Locks, files : Seq(Nat)]) /\ Len(t) = Len(ls) + 1
      /\ \A i \in 1 .. Len(ls) : t[i] = ls[i]
  BY <1>1
<1>3. DOMAIN ls \subseteq DOMAIN t /\ \A i \in DOMAIN ls : t[i] = ls[i]
  BY <1>2
<1> QED BY <1>2, <1>3 DEF HasLock, e

LEMMA FileListServes ==
  ASSUME NEW w, NEW o, Good(w, o), NEW left, Fit(w, left), ~w.thrown,
         w.x.fmt # "none", NEW first \in BOOLEAN, NEW last \in BOOLEAN,
         NEW files \in Seq(Nat),
         ~first => IsPrefix(w.x.files, files) /\ (~opt.overlap => w.x.st = "Empty"),
         Unlocked(opt) => w.x.lock # "HasLock"
  PROVE  LET u == FileListChunk(w, first, last, files)
         IN  /\ Delivers(w, u, o, left)
             /\ ~u.thrown /\ ~opt.overlap => u.x.st = "Empty"
<1> DEFINE r == IF first THEN reset_nolock_data(w) ELSE w
           f == [r EXCEPT !.x.files = files]
           over == last /\ r.x.lock = "HasLock"
           fs == IF over THEN << >> ELSE files
           ls == IF over THEN Append(r.x.locks, LockEntry(r.x.lid, files))
                 ELSE r.x.locks
           lk == IF over THEN "LockIsUsed" ELSE r.x.lock
           g == KeepFiles(f, files)
           u == FileListChunk(w, first, last, files)
           End == /\ Delivers(w, u, o, left)
                  /\ ~u.thrown /\ ~opt.overlap => u.x.st = "Empty"
<1> SUFFICES End
  OBVIOUS
<1>1. /\ Steps(w, r, o)
      /\ ~r.thrown => /\ Fit(r, left)
                      /\ r = w \/ r.x.st = "Empty"
                      /\ first => r.x.st = "Empty"
  <2>1. CASE first
    BY <2>1, ResetFits
  <2>2. CASE ~first
    BY <2>2, ServesItself DEF Steps
  <2> QED BY <2>1, <2>2
<1>2. Good(r, o) /\ IsWork(r)
  BY <1>1 DEF Steps, Serves, Good, Owned
<1>3. u = IF r.thrown THEN r ELSE IF last /\ f.x.lock = "HasLock" THEN g ELSE f
  BY DEF FileListChunk, KeepFiles, LockEntry
<1>4. first \/ r = w
  OBVIOUS
<1> HIDE DEF r, u
<1>5. CASE r.thrown
  <2>1. u = r
    BY <1>3, <1>5
  <2> QED BY <1>1, <1>5, <2>1
          DEF Delivers, Steps, Serves, Beside, SameLists, LockList
<1>6. CASE ~r.thrown
  <2>1. /\ IsWork(f) /\ f.c = r.c /\ f.d = r.d /\ f.v = r.v /\ f.s = r.s
        /\ f.thrown = r.thrown /\ f.x.files = files /\ f.x.locks = r.x.locks
        /\ f.x.lock = r.x.lock /\ f.x.st = r.x.st /\ f.x.clen = r.x.clen
        /\ f.x.cpos = r.x.cpos /\ f.x.resp = r.x.resp /\ f.x.owed = r.x.owed
        /\ f.x.cut = r.x.cut /\ f.x.fmt = r.x.fmt /\ f.x.flist = r.x.flist
        /\ f.x.lid = r.x.lid /\ f.x.slot = r.x.slot /\ f.x.sizes = r.x.sizes
        /\ f.x.ranges = r.x.ranges /\ f.x.asked = r.x.asked
    BY ZenonT(60), <1>2, FilesFields
  <2> HIDE DEF f
  <2>11. /\ IsWork(g) /\ g.c = f.c /\ g.d = f.d /\ g.v = f.v /\ g.s = f.s
         /\ g.thrown = f.thrown /\ g.x.files = << >>
         /\ g.x.locks = Append(f.x.locks, LockEntry(f.x.lid, files))
         /\ g.x.lock = "LockIsUsed" /\ g.x.st = f.x.st /\ g.x.clen = f.x.clen
         /\ g.x.cpos = f.x.cpos /\ g.x.resp = f.x.resp /\ g.x.owed = f.x.owed
         /\ g.x.cut = f.x.cut /\ g.x.fmt = f.x.fmt /\ g.x.flist = f.x.flist
         /\ g.x.lid = f.x.lid /\ g.x.slot = f.x.slot /\ g.x.sizes = f.x.sizes
         /\ g.x.ranges = f.x.ranges /\ g.x.asked = f.x.asked
    BY <2>1, LockedFields
  <2> HIDE DEF g
  <2>2. /\ IsWork(u) /\ u.c = r.c /\ u.d = r.d /\ u.v = r.v /\ u.s = r.s
        /\ u.thrown = r.thrown /\ u.x.files = fs /\ u.x.locks = ls
        /\ u.x.lock = lk /\ u.x.st = r.x.st /\ u.x.clen = r.x.clen
        /\ u.x.cpos = r.x.cpos /\ u.x.resp = r.x.resp /\ u.x.owed = r.x.owed
        /\ u.x.cut = r.x.cut /\ u.x.fmt = r.x.fmt /\ u.x.flist = r.x.flist
        /\ u.x.lid = r.x.lid /\ u.x.slot = r.x.slot /\ u.x.sizes = r.x.sizes
        /\ u.x.ranges = r.x.ranges /\ u.x.asked = r.x.asked
    <3>1. CASE over
      BY <1>3, <1>6, <2>1, <2>11, <3>1
    <3>2. CASE ~over
      BY <1>3, <1>6, <2>1, <3>2
    <3> QED BY <3>1, <3>2
  <2> HIDE DEF fs, ls, lk
  <2>3. Good(u, o)
    BY <1>2, <2>2 DEF Good, Owned
  <2>4. /\ r.c = w.c /\ r.s.keep = w.s.keep /\ Elsewhere(w.v, r.v, o)
        /\ SameLists(w.x, r.x) /\ Sound(w, r) /\ r.s.text = w.s.text
    BY <1>1 DEF Steps, Serves, Beside
  <2>5. fs \in Seq(Nat)
    BY DEF fs
  <2>6. Fit(u, left)
    <3>1. Calm(opt) /\ u.x.st = "Size" => u.d.file \in DOMAIN u.x.files
      <4> SUFFICES ASSUME Calm(opt), u.x.st = "Size"
                   PROVE  u.d.file \in DOMAIN u.x.files
        OBVIOUS
      <4>1. r = w /\ ~first
        BY <1>1, <1>4, <1>6, <2>2
      <4>2. opt.overlap /\ Unlocked(opt)
        BY <2>2, <4>1 DEF Calm
      <4>3. u.x.files = files
        BY <2>2, <4>1, <4>2 DEF fs
      <4>4. w.d.file \in DOMAIN w.x.files /\ w.x.files \in Seq(Nat)
        BY <2>2, <4>1 DEF Fit, Buffered, Naturals_
      <4> QED BY <2>2, <4>1, <4>3, <4>4, PrefixDomain
    <3>2. Naturals_(u.x, u.d) /\ Buffered(u.x, u.d, left)
      BY <1>1, <1>6, <2>2, <2>5, <3>1 DEF Fit, Naturals_, Buffered
    <3>3. Answering(u.c, u.x, u.d)
      BY <1>1, <1>6, <2>2 DEF Fit, Answering
    <3> QED BY <3>2, <3>3 DEF Fit
  <2>7. ASSUME LockList(w.x) PROVE LockList(u.x)
    <3>1. LockList(r.x)
      BY <2>4, <2>7 DEF LockList, SameLists
    <3>2. CASE over
      <4>1. /\ ls \in Seq([lock : Locks, files : Seq(Nat)])
            /\ \A k : HasLock(r.x.locks, k) => HasLock(ls, k)
        BY <3>1, <3>2, AppendedLocks DEF ls, LockList
      <4> QED BY <2>2, <3>1, <3>2, <4>1 DEF lk, LockList
    <3>3. CASE ~over
      BY <2>2, <3>1, <3>3 DEF ls, lk, LockList
    <3> QED BY <3>2, <3>3
  <2>8. u.x.lock = w.x.lock \/ (w.x.lock = "HasLock" /\ u.x.lock = "LockIsUsed")
    BY <2>2, <2>4 DEF lk, SameLists
  <2>9. ~opt.overlap => u.x.st = "Empty"
    BY <1>1, <1>4, <1>6, <2>2
  <2>10. Delivers(w, u, o, left)
    BY <2>2, <2>3, <2>4, <2>6, <2>7, <2>8 DEF Delivers, Sound, SameLists
  <2> QED BY <2>9, <2>10
<1> QED BY <1>5, <1>6

(* Between two chunks of a text or of a list of files. *)
Within(w) ==
    /\ w.x.fmt = "text" /\ w.c \in opt.text => Amid(w)
    /\ w.x.fmt = "files" /\ w.x.flist /\ ~opt.overlap => w.x.st = "Empty"

LEMMA DataChunkServes ==
  ASSUME NEW w, NEW o, Good(w, o), NEW left, Fit(w, left), ~w.thrown,
         w.x.fmt # "none", NEW first \in BOOLEAN, NEW last \in BOOLEAN,
         NEW big \in BOOLEAN, NEW files \in Seq(Nat), first => Fresh(w.v) # {},
         ~first => Within(w) /\ (w.x.fmt = "files" => IsPrefix(w.x.files, files)),
         Unlocked(opt) => w.x.lock # "HasLock"
  PROVE  LET u == DataChunk(w, first, last, files, big)
         IN  Delivers(w, u, o, left) /\ (~last /\ ~u.thrown => Within(u))
<1> DEFINE u == DataChunk(w, first, last, files, big)
           End == Delivers(w, u, o, left) /\ (~last /\ ~u.thrown => Within(u))
<1> SUFFICES End
  OBVIOUS
<1>1. CASE w.x.fmt = "files" /\ w.x.flist
  <2>1. u = FileListChunk(w, first, last, files)
    BY <1>1 DEF DataChunk
  <2> HIDE DEF u
  <2>2. /\ Delivers(w, u, o, left)
        /\ ~u.thrown /\ ~opt.overlap => u.x.st = "Empty"
    BY <1>1, <2>1, FileListServes DEF Within
  <2> QED BY <1>1, <2>2 DEF Within, Delivers
<1>2. CASE ~(w.x.fmt = "files" /\ w.x.flist) /\ w.x.fmt = "text" /\ w.c \in opt.text
  <2>1. u = TextChunk(w, first, last, big)
    BY <1>2 DEF DataChunk
  <2> HIDE DEF u
  <2>2. Chunks(w, u, o, left) /\ (~last /\ ~u.thrown => Amid(u))
    BY <1>2, <2>1, TextChunkServes DEF Within
  <2>3. Delivers(w, u, o, left)
    BY <2>2, ChunksDelivers
  <2> QED BY <1>2, <2>2, <2>3 DEF Within, Delivers
<1>3. CASE ~(w.x.fmt = "files" /\ w.x.flist) /\ ~(w.x.fmt = "text" /\ w.c \in opt.text)
  <2>1. u = w
    BY <1>3 DEF DataChunk
  <2>2. Chunks(w, w, o, left)
    BY ServesItself DEF Chunks
  <2>3. Delivers(w, u, o, left)
    BY <2>1, <2>2, ChunksDelivers
  <2> QED BY <1>3, <2>1, <2>3 DEF Within
<1> HIDE DEF u
<1> QED BY <1>1, <1>2, <1>3

============================================================================
