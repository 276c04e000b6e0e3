------------------------ MODULE WhatsAppOutboxProofs ------------------------
(***************************************************************************)
(* Theorems about WhatsAppOutbox, for any number of records, invocations   *)
(* and decisions, any batch size and retry limit, and any number of        *)
(* incidents.                                                              *)
(***************************************************************************)
EXTENDS WhatsAppOutbox, WellFoundedInduction, TLAPS

LEMMA MinIsTaken ==
  ASSUME NEW S \in SUBSET Nat, S # {}
  PROVE  Min(S) \in S
<1> DEFINE R == OpToRel(<, Nat)
<1>1. IsWellFoundedOn(R, Nat)  BY NatLessThanWellFounded
<1>2. \A x, y \in Nat : <<y, x>> \notin R => x =< y  BY DEF OpToRel
<1> HIDE DEF R
<1>3. \E x \in S : \A y \in S : <<y, x>> \notin R  BY <1>1, WFMin
<1>4. \E x \in S : \A y \in S : x =< y  BY <1>2, <1>3
<1> QED  BY <1>4 DEF Min

\* An invocation under way is at a record of its batch.
LEMMA CurrentIsTaken ==
  ASSUME TypeOK, AtARecord, NEW w \in Workers, pc[w] \notin {"idle", "select"}
  PROVE  /\ Current(w) \in todo[w] /\ Current(w) \in Records
         /\ todo[w] \in SUBSET Records
<1>1. todo[w] \in SUBSET Records /\ todo[w] # {}  BY DEF TypeOK, AtARecord
<1>2. Records \subseteq Nat  BY OutboxAssumption DEF Records
<1>3. Current(w) \in todo[w]  BY <1>1, <1>2, MinIsTaken DEF Current
<1> QED  BY <1>1, <1>3

\* What an invocation that takes records is left with.
LEMMA TakeEffect ==
  ASSUME TypeOK, NEW w \in Workers, NEW rs \in SUBSET Records, Take(w, rs)
  PROVE  /\ todo'[w] = rs /\ pc'[w] = IF rs = {} THEN "idle" ELSE "send"
         /\ todo' \in [Workers -> SUBSET Records]
         /\ pc' \in [Workers -> {"idle", "select", "send", "delivered", "failed", "text"}]
         /\ \A v \in Workers \ {w} : todo'[v] = todo[v] /\ pc'[v] = pc[v]
BY DEF Take, TypeOK

LEMMA RememberEffect ==
  ASSUME TypeOK, NEW mishap \in Mishaps, NEW rs, Remember(mishap, rs)
  PROVE  /\ history' \in [Records -> SUBSET Mishaps]
         /\ \A r \in Records :
              history'[r] = history[r] \cup IF r \in rs THEN {mishap} ELSE {}
BY DEF Remember, TypeOK

LEMMA IncidentEffect == ASSUME TypeOK, Incident PROVE incidents' \in Nat
BY DEF Incident, TypeOK

LEMMA InitIInv == Init => IInv
<1> SUFFICES ASSUME Init PROVE IInv  OBVIOUS
<1>1. TypeOK  BY DEF Init, TypeOK, Statuses
<1>2. AtARecord  BY DEF Init, AtARecord
<1>3. ProcessingIsHeld  BY DEF Init, ProcessingIsHeld
<1>4. CompletedIsDecided
  BY OutboxAssumption DEF Init, CompletedIsDecided, AcceptedIsDecidedUnlessFailing, Records
<1>5. DecidedStaysCompleted  BY DEF Init, DecidedStaysCompleted
<1>6. OneHolder  BY DEF Init, OneHolder, Held, Current
<1> QED  BY <1>1, <1>2, <1>3, <1>4, <1>5, <1>6 DEF IInv

LEMMA InsertKeeps ==
  ASSUME IInv, NEW r \in Records, Insert(r)
  PROVE  IInv'
<1>0. TypeOK  BY DEF IInv
<1>1. /\ status[r] = "ABSENT" /\ status' = [status EXCEPT ![r] = "PENDING"]
      /\ retries' = retries /\ decided' = decided /\ pc' = pc /\ todo' = todo
      /\ sent' = sent /\ claims' = claims /\ firing' = firing /\ webhooks' = webhooks
      /\ accepted' = accepted /\ history' = history /\ incidents' = incidents
  BY DEF Insert, working, deciding
<1>2. /\ status'[r] = "PENDING" /\ status' \in [Records -> Statuses]
      /\ \A q \in Records \ {r} : status'[q] = status[q]
  BY <1>0, <1>1 DEF TypeOK, Statuses
<1>3. TypeOK'  BY <1>0, <1>1, <1>2 DEF TypeOK
<1>4. AtARecord'  BY <1>1 DEF IInv, AtARecord, Current
<1>5. ProcessingIsHeld'  BY <1>1, <1>2 DEF IInv, ProcessingIsHeld, Held
<1>6. CompletedIsDecided'
  BY <1>1, <1>2, OutboxAssumption
  DEF IInv, CompletedIsDecided, AcceptedIsDecidedUnlessFailing, Records
<1>7. DecidedStaysCompleted'  BY <1>1, <1>2 DEF IInv, DecidedStaysCompleted
<1>8. OneHolder'  BY <1>1, <1>2 DEF IInv, OneHolder, Held, Clean, Current
<1> QED  BY <1>3, <1>4, <1>5, <1>6, <1>7, <1>8 DEF IInv

\* Marking a batch PROCESSING leaves everything else of a record as it is.
LEMMA MarkEffect ==
  ASSUME TypeOK, NEW rs \in SUBSET Records, \A r \in rs : Claimable(r), Mark(rs), Claimed(rs)
  PROVE  /\ \A r \in rs : status[r] \in {"PENDING", "FAILED"} /\ status'[r] = "PROCESSING"
         /\ \A r \in Records \ rs : status'[r] = status[r]
         /\ status' \in [Records -> Statuses]
         /\ claims' \in [Records -> Nat]
<1>1. claims' \in [Records -> Nat]
  <2>1. \A r \in Records : claims[r] + (IF r \in rs THEN 1 ELSE 0) \in Nat  BY DEF TypeOK
  <2> QED  BY <2>1 DEF Claimed
<1> QED  BY <1>1 DEF Mark, Claimable, TypeOK, Statuses

\* A claim takes records nobody holds: those held are neither PENDING nor FAILED.
LEMMA ClaimKeeps ==
  ASSUME IInv, NEW w \in Workers, pc[w] = "idle", NEW rs \in SUBSET Records,
         \A r \in rs : Claimable(r), Claim(w, rs), UNCHANGED <<retries, decided, sent, deciding>>
  PROVE  IInv'
<1>0. TypeOK  BY DEF IInv
<1>1. /\ Mark(rs) /\ Claimed(rs) /\ history' = history /\ Take(w, rs)
      /\ retries' = retries /\ decided' = decided /\ sent' = sent
      /\ firing' = firing /\ webhooks' = webhooks /\ accepted' = accepted
      /\ incidents' = incidents
  BY DEF Claim, deciding
<1>2. /\ todo'[w] = rs /\ pc'[w] = IF rs = {} THEN "idle" ELSE "send"
      /\ todo' \in [Workers -> SUBSET Records]
      /\ pc' \in [Workers -> {"idle", "select", "send", "delivered", "failed", "text"}]
      /\ \A v \in Workers \ {w} : todo'[v] = todo[v] /\ pc'[v] = pc[v]
  BY <1>0, <1>1, TakeEffect
<1>3. /\ \A r \in rs : status[r] \in {"PENDING", "FAILED"} /\ status'[r] = "PROCESSING"
      /\ \A r \in Records \ rs : status'[r] = status[r]
      /\ status' \in [Records -> Statuses] /\ claims' \in [Records -> Nat]
  BY <1>0, <1>1, MarkEffect
<1>4. todo[w] = {}  BY DEF IInv, AtARecord
<1>5. TypeOK'  BY <1>0, <1>1, <1>2, <1>3 DEF TypeOK
<1>6. AtARecord'  BY <1>2 DEF IInv, AtARecord, Current
<1>7. ProcessingIsHeld'
  BY <1>1, <1>2, <1>3, <1>4 DEF IInv, ProcessingIsHeld, Held
<1>8. CompletedIsDecided'
  BY <1>1, <1>3, OutboxAssumption
  DEF IInv, CompletedIsDecided, AcceptedIsDecidedUnlessFailing, Records
<1>9. DecidedStaysCompleted'  BY <1>1, <1>3 DEF IInv, DecidedStaysCompleted
<1>10. OneHolder'
  <2> SUFFICES ASSUME NEW r \in Records, Clean(r)'
               PROVE  /\ \A u, v \in Workers : r \in todo'[u] /\ r \in todo'[v] => u = v
                      /\ Held(r)' => status'[r] \in {"PROCESSING", "SENT", "COMPLETED"}
                      /\ status'[r] \in {"ABSENT", "PENDING", "FAILED"} => sent'[r] = 0
                      /\ \A v \in Workers :
                           r \in todo'[v] /\ (Current(v)' # r \/ pc'[v] \in {"send", "failed"})
                             => sent'[r] = 0
                      /\ sent'[r] <= 1
    BY DEF OneHolder
  <2>1. Clean(r)  BY <1>1 DEF Clean
  <2>2. CASE r \in rs
    <3>1. ~Held(r) /\ sent[r] = 0  BY <1>3, <2>1, <2>2 DEF IInv, OneHolder
    <3> QED  BY <1>1, <1>2, <1>3, <2>2, <3>1 DEF Held
  <2>3. CASE r \notin rs
    <3>1. \A v \in Workers : r \in todo'[v] =>
            r \in todo[v] /\ Current(v)' = Current(v) /\ pc'[v] = pc[v]
      BY <1>2, <2>3 DEF Current
    <3> QED  BY <1>1, <1>3, <2>1, <2>3, <3>1 DEF IInv, OneHolder, Held
  <2> QED  BY <2>2, <2>3
<1> QED  BY <1>5, <1>6, <1>7, <1>8, <1>9, <1>10 DEF IInv

\* A claim whose answer is lost leaves records PROCESSING that nobody holds, remembered
\* as stranded.
LEMMA LoseClaimKeeps ==
  ASSUME IInv, NEW w \in Workers, pc[w] = "idle", NEW rs \in SUBSET Records,
         \A r \in rs : Claimable(r), LoseClaim(w, rs),
         UNCHANGED <<retries, decided, sent, deciding>>
  PROVE  IInv'
<1>0. TypeOK  BY DEF IInv
<1>1. /\ Incident /\ Mark(rs) /\ Claimed(rs) /\ Remember("stranded", rs) /\ todo' = todo
      /\ pc' = [pc EXCEPT ![w] = "select"]
      /\ retries' = retries /\ decided' = decided /\ sent' = sent
      /\ firing' = firing /\ webhooks' = webhooks /\ accepted' = accepted
  BY DEF LoseClaim, deciding
<1>2. /\ pc'[w] = "select" /\ \A v \in Workers \ {w} : pc'[v] = pc[v]
      /\ pc' \in [Workers -> {"idle", "select", "send", "delivered", "failed", "text"}]
  BY <1>0, <1>1 DEF TypeOK
<1>3. /\ \A r \in rs : status[r] \in {"PENDING", "FAILED"} /\ status'[r] = "PROCESSING"
      /\ \A r \in Records \ rs : status'[r] = status[r]
      /\ status' \in [Records -> Statuses] /\ claims' \in [Records -> Nat]
  BY <1>0, <1>1, MarkEffect
<1>4. /\ history' \in [Records -> SUBSET Mishaps]
      /\ \A r \in Records :
           history'[r] = history[r] \cup IF r \in rs THEN {"stranded"} ELSE {}
  BY <1>0, <1>1, RememberEffect DEF Mishaps
<1>5. incidents' \in Nat /\ todo[w] = {}
  BY <1>0, <1>1, IncidentEffect DEF IInv, AtARecord
<1>6. TypeOK'  BY <1>0, <1>1, <1>2, <1>3, <1>4, <1>5 DEF TypeOK
<1>7. AtARecord'  BY <1>1, <1>2, <1>5 DEF IInv, AtARecord, Current
<1>8. ProcessingIsHeld'
  BY <1>1, <1>3, <1>4 DEF IInv, ProcessingIsHeld, Held
<1>9. CompletedIsDecided'
  BY <1>0, <1>1, <1>3, <1>4, OutboxAssumption
  DEF IInv, TypeOK, CompletedIsDecided, AcceptedIsDecidedUnlessFailing, Records
<1>11. DecidedStaysCompleted'  BY <1>1, <1>3, <1>4 DEF IInv, DecidedStaysCompleted
<1>10. OneHolder'
  <2> SUFFICES ASSUME NEW r \in Records, Clean(r)'
               PROVE  /\ \A u, v \in Workers : r \in todo'[u] /\ r \in todo'[v] => u = v
                      /\ Held(r)' => status'[r] \in {"PROCESSING", "SENT", "COMPLETED"}
                      /\ status'[r] \in {"ABSENT", "PENDING", "FAILED"} => sent'[r] = 0
                      /\ \A v \in Workers :
                           r \in todo'[v] /\ (Current(v)' # r \/ pc'[v] \in {"send", "failed"})
                             => sent'[r] = 0
                      /\ sent'[r] <= 1
    BY DEF OneHolder
  <2>1. Clean(r)  BY <1>4 DEF Clean
  <2>2. \A v \in Workers : r \in todo'[v] =>
          r \in todo[v] /\ Current(v)' = Current(v) /\ pc'[v] = pc[v]
    BY <1>1, <1>2, <1>5 DEF Current
  <2>3. r \in rs => sent[r] = 0  BY <1>3, <2>1 DEF IInv, OneHolder
  <2> QED  BY <1>1, <1>3, <2>1, <2>2, <2>3 DEF IInv, OneHolder, Held
<1> QED  BY <1>6, <1>7, <1>8, <1>9, <1>10, <1>11 DEF IInv

\* A claim that fails, or finds nothing, moves the invocation and no record.
LEMMA NoClaimKeeps ==
  ASSUME IInv, NEW w \in Workers, pc[w] = "idle", NoClaim(w), incidents' \in Nat,
         UNCHANGED <<retries, decided, sent, deciding>>
  PROVE  IInv'
<1>0. TypeOK  BY DEF IInv
<1>1. /\ pc' = [pc EXCEPT ![w] = "select"] /\ todo' = todo
      /\ status' = status /\ claims' = claims /\ history' = history
      /\ retries' = retries /\ decided' = decided /\ sent' = sent
      /\ firing' = firing /\ webhooks' = webhooks /\ accepted' = accepted
  BY DEF NoClaim, deciding
<1>2. /\ pc'[w] = "select" /\ \A v \in Workers \ {w} : pc'[v] = pc[v]
      /\ pc' \in [Workers -> {"idle", "select", "send", "delivered", "failed", "text"}]
  BY <1>0, <1>1 DEF TypeOK
<1>3. todo[w] = {}  BY DEF IInv, AtARecord
<1>4. TypeOK'  BY <1>0, <1>1, <1>2 DEF TypeOK
<1>5. AtARecord'  BY <1>1, <1>2, <1>3 DEF IInv, AtARecord, Current
<1>6. ProcessingIsHeld'  BY <1>1 DEF IInv, ProcessingIsHeld, Held
<1>7. CompletedIsDecided'
  BY <1>1, OutboxAssumption DEF IInv, CompletedIsDecided, AcceptedIsDecidedUnlessFailing
<1>8. DecidedStaysCompleted'  BY <1>1 DEF IInv, DecidedStaysCompleted
<1>9. OneHolder'
  BY <1>1, <1>2, <1>3 DEF IInv, OneHolder, Held, Clean, Current
<1> QED  BY <1>4, <1>5, <1>6, <1>7, <1>8, <1>9 DEF IInv

\* Records taken without a claim are marked by nothing, and remembered.
LEMMA TakeUnclaimedKeeps ==
  ASSUME IInv, NEW w \in Workers, todo[w] = {}, NEW rs \in SUBSET Records,
         Take(w, rs), Remember("unclaimed", rs), incidents' \in Nat,
         UNCHANGED <<rows, claims, sent, deciding>>
  PROVE  IInv'
<1>0. TypeOK  BY DEF IInv
<1>2. /\ status' = status /\ claims' = claims
      /\ retries' = retries /\ decided' = decided /\ sent' = sent
      /\ firing' = firing /\ webhooks' = webhooks /\ accepted' = accepted
  BY DEF rows, deciding
<1>3. /\ todo'[w] = rs /\ pc'[w] = IF rs = {} THEN "idle" ELSE "send"
      /\ todo' \in [Workers -> SUBSET Records]
      /\ pc' \in [Workers -> {"idle", "select", "send", "delivered", "failed", "text"}]
      /\ \A v \in Workers \ {w} : todo'[v] = todo[v] /\ pc'[v] = pc[v]
  BY <1>0, TakeEffect
<1>4. /\ history' \in [Records -> SUBSET Mishaps]
      /\ \A r \in Records :
           history'[r] = history[r] \cup IF r \in rs THEN {"unclaimed"} ELSE {}
  BY <1>0, RememberEffect DEF Mishaps
<1>5. TypeOK'  BY <1>0, <1>2, <1>3, <1>4 DEF TypeOK
<1>6. AtARecord'  BY <1>3 DEF IInv, AtARecord, Current
<1>7. ProcessingIsHeld'
  BY <1>2, <1>3, <1>4 DEF IInv, ProcessingIsHeld, Held
<1>8. CompletedIsDecided'
  BY <1>0, <1>2, <1>4, OutboxAssumption
  DEF IInv, TypeOK, CompletedIsDecided, AcceptedIsDecidedUnlessFailing, Records
<1>9. DecidedStaysCompleted'
  BY <1>2, <1>4 DEF IInv, DecidedStaysCompleted
<1>10. OneHolder'
  <2> SUFFICES ASSUME NEW r \in Records, Clean(r)'
               PROVE  /\ \A u, v \in Workers : r \in todo'[u] /\ r \in todo'[v] => u = v
                      /\ Held(r)' => status'[r] \in {"PROCESSING", "SENT", "COMPLETED"}
                      /\ status'[r] \in {"ABSENT", "PENDING", "FAILED"} => sent'[r] = 0
                      /\ \A v \in Workers :
                           r \in todo'[v] /\ (Current(v)' # r \/ pc'[v] \in {"send", "failed"})
                             => sent'[r] = 0
                      /\ sent'[r] <= 1
    BY DEF OneHolder
  <2>1. r \notin rs /\ Clean(r)  BY <1>4 DEF Clean
  <2>2. \A v \in Workers : r \in todo'[v] =>
          r \in todo[v] /\ Current(v)' = Current(v) /\ pc'[v] = pc[v]
    BY <1>3, <2>1 DEF Current
  <2> QED  BY <1>2, <2>1, <2>2 DEF IInv, OneHolder, Held
<1> QED  BY <1>5, <1>6, <1>7, <1>8, <1>9, <1>10 DEF IInv

LEMMA SelectKeeps ==
  ASSUME IInv, NEW w \in Workers, SelectUnclaimed(w)
  PROVE  IInv'
<1>1. PICK rs \in SUBSET Records : Take(w, rs) /\ Remember("unclaimed", rs)
  BY DEF SelectUnclaimed, Oldest
<1>2. todo[w] = {} /\ incidents' \in Nat
  BY DEF SelectUnclaimed, IInv, AtARecord, TypeOK
<1> QED  BY <1>1, <1>2, TakeUnclaimedKeeps DEF SelectUnclaimed

\* A send answers true only for what it delivered, and remembers what was delivered
\* and answered false.
LEMMA SendKeeps ==
  ASSUME IInv, NEW w \in Workers, Send(w)
  PROVE  IInv'
<1>0. TypeOK  BY DEF IInv
<1> DEFINE c == Current(w)
<1>1. c \in todo[w] /\ c \in Records /\ pc[w] = "send"
  BY CurrentIsTaken DEF IInv, Send
<1>2. PICK ok, delivered \in BOOLEAN :
        /\ ok => delivered
        /\ pc' = [pc EXCEPT ![w] = IF ok THEN "delivered" ELSE "failed"]
        /\ sent' = [sent EXCEPT ![c] = UpTo(@ + IF delivered THEN 1 ELSE 0, 2)]
        /\ Remember("unheard", IF delivered /\ ~ok THEN {c} ELSE {})
        /\ IF delivered /\ ~ok THEN Incident ELSE incidents' = incidents
  BY DEF Send
<1>3. /\ status' = status /\ retries' = retries /\ decided' = decided /\ todo' = todo
      /\ firing' = firing /\ webhooks' = webhooks /\ accepted' = accepted
      /\ claims' = claims
  BY DEF Send, rows, deciding
<1>4. /\ history' \in [Records -> SUBSET Mishaps]
      /\ \A r \in Records :
           history'[r] = history[r] \cup
                           IF delivered /\ ~ok /\ r = c THEN {"unheard"} ELSE {}
  BY <1>0, <1>2, RememberEffect DEF Mishaps
<1>5. /\ pc'[w] = IF ok THEN "delivered" ELSE "failed"
      /\ pc' \in [Workers -> {"idle", "select", "send", "delivered", "failed", "text"}]
      /\ \A v \in Workers \ {w} : pc'[v] = pc[v]
  BY <1>0, <1>2 DEF TypeOK
<1>6. /\ sent' \in [Records -> 0..2]
      /\ \A r \in Records \ {c} : sent'[r] = sent[r]
      /\ ~delivered => sent'[c] = sent[c]
      /\ sent[c] = 0 => sent'[c] <= 1
  BY <1>0, <1>1, <1>2 DEF TypeOK, UpTo
<1>13. incidents' \in Nat  BY <1>0, <1>2, IncidentEffect DEF TypeOK
<1>7. TypeOK'  BY <1>0, <1>3, <1>4, <1>5, <1>6, <1>13 DEF TypeOK
<1>8. AtARecord'  BY <1>1, <1>3, <1>5 DEF IInv, AtARecord, Current
<1>9. ProcessingIsHeld'  BY <1>3, <1>4 DEF IInv, ProcessingIsHeld, Held
<1>10. CompletedIsDecided'
  BY <1>0, <1>3, <1>4, OutboxAssumption
  DEF IInv, TypeOK, CompletedIsDecided, AcceptedIsDecidedUnlessFailing, Records
<1>11. DecidedStaysCompleted'  BY <1>3, <1>4 DEF IInv, DecidedStaysCompleted
<1>12. OneHolder'
  <2> SUFFICES ASSUME NEW r \in Records, Clean(r)'
               PROVE  /\ \A u, v \in Workers : r \in todo'[u] /\ r \in todo'[v] => u = v
                      /\ Held(r)' => status'[r] \in {"PROCESSING", "SENT", "COMPLETED"}
                      /\ status'[r] \in {"ABSENT", "PENDING", "FAILED"} => sent'[r] = 0
                      /\ \A v \in Workers :
                           r \in todo'[v] /\ (Current(v)' # r \/ pc'[v] \in {"send", "failed"})
                             => sent'[r] = 0
                      /\ sent'[r] <= 1
    BY DEF OneHolder
  <2>1. Clean(r) /\ (r = c => ok \/ ~delivered)  BY <1>2, <1>4 DEF Clean
  <2>2. \A v \in Workers : Current(v)' = Current(v)  BY <1>3 DEF Current
  <2>3. CASE r # c
    <3>1. sent'[r] = sent[r]  BY <1>6, <2>3
    <3>2. \A v \in Workers :
            r \in todo[v] /\ (Current(v) # r \/ pc'[v] \in {"send", "failed"}) => sent[r] = 0
      BY <1>1, <1>5, <2>1, <2>3 DEF IInv, OneHolder
    <3> QED  BY <1>3, <2>1, <2>2, <3>1, <3>2 DEF IInv, OneHolder, Held
  <2>4. CASE r = c
    <3>1. /\ sent[c] = 0 /\ sent'[c] <= 1
          /\ \A u, v \in Workers : r \in todo[u] /\ r \in todo[v] => u = v
          /\ status[r] \in {"PROCESSING", "SENT", "COMPLETED"}
      BY <1>1, <1>6, <2>1, <2>4 DEF IInv, OneHolder, Held
    <3>2. \A v \in Workers : r \in todo'[v] => v = w  BY <1>1, <1>3, <2>4, <3>1
    <3>3. ok \/ sent'[c] = 0  BY <1>6, <2>1, <2>4, <3>1
    <3> QED  BY <1>3, <1>5, <2>2, <2>4, <3>1, <3>2, <3>3
  <2> QED  BY <2>3, <2>4
<1> QED  BY <1>7, <1>8, <1>9, <1>10, <1>11, <1>12 DEF IInv

\* Going on with the next record gives up the current one and no other.
LEMMA ContinueEffect ==
  ASSUME TypeOK, AtARecord, NEW w \in Workers, pc[w] \notin {"idle", "select"}, Continue(w)
  PROVE  /\ todo'[w] = todo[w] \ {Current(w)}
         /\ pc'[w] = IF todo'[w] = {} THEN "idle" ELSE "send"
         /\ todo' \in [Workers -> SUBSET Records]
         /\ pc' \in [Workers -> {"idle", "select", "send", "delivered", "failed", "text"}]
         /\ \A v \in Workers \ {w} : todo'[v] = todo[v] /\ pc'[v] = pc[v]
<1>1. todo[w] \ {Current(w)} \in SUBSET Records  BY CurrentIsTaken
<1>2. Take(w, todo[w] \ {Current(w)})  BY DEF Continue
<1> QED  BY <1>1, <1>2, TakeEffect

\* After the result, a text that was delivered is still held; any other record is not.
LEMMA AfterResultEffect ==
  ASSUME TypeOK, AtARecord, NEW w \in Workers, pc[w] \in {"delivered", "failed"},
         AfterResult(w)
  PROVE  /\ todo' \in [Workers -> SUBSET Records]
         /\ pc' \in [Workers -> {"idle", "select", "send", "delivered", "failed", "text"}]
         /\ \A v \in Workers \ {w} : todo'[v] = todo[v] /\ pc'[v] = pc[v]
         /\ \/ /\ todo'[w] = todo[w] /\ pc'[w] = "text"
               /\ pc[w] = "delivered" /\ Current(w) \notin Polls
            \/ /\ todo'[w] = todo[w] \ {Current(w)}
               /\ pc'[w] = IF todo'[w] = {} THEN "idle" ELSE "send"
<1>1. CASE pc[w] = "delivered" /\ Current(w) \notin Polls
  BY <1>1 DEF AfterResult, TypeOK
<1>2. CASE ~(pc[w] = "delivered" /\ Current(w) \notin Polls)
  <2>1. Continue(w)  BY <1>2 DEF AfterResult
  <2> QED  BY <2>1, ContinueEffect
<1> QED  BY <1>1, <1>2

\* A report writes FAILED only for what was not delivered, and loses no record without
\* a trace: what stays PROCESSING is stranded, what was COMPLETED is overwritten.
LEMMA ReportKeeps ==
  ASSUME IInv, NEW w \in Workers, Report(w)
  PROVE  IInv'
<1>0. TypeOK  BY DEF IInv
<1> DEFINE c == Current(w)
<1>1. c \in todo[w] /\ c \in Records /\ pc[w] \in {"delivered", "failed"}
  BY CurrentIsTaken DEF IInv, Report
<1>2. /\ AfterResult(w) /\ decided' = decided /\ sent' = sent /\ claims' = claims
      /\ firing' = firing /\ webhooks' = webhooks /\ accepted' = accepted
  BY DEF Report, deciding
<1>3. /\ status' \in [Records -> Statuses] /\ retries' \in [Records -> Nat]
      /\ history' \in [Records -> SUBSET Mishaps] /\ incidents' \in Nat
      /\ \A r \in Records \ {c} : status'[r] = status[r] /\ history'[r] = history[r]
      /\ history[c] \subseteq history'[c]
      /\ history'[c] \subseteq history[c] \cup {"overwritten", "stranded"}
      /\ \/ /\ status'[c] = IF pc[w] = "delivered" THEN "SENT" ELSE "FAILED"
            /\ status[c] = "COMPLETED" /\ c \in Polls => "overwritten" \in history'[c]
         \/ /\ status'[c] = status[c]
            /\ status[c] = "COMPLETED" \/ "stranded" \in history'[c]
  <2>1. CASE Delivery(c, pc[w] = "delivered") /\ incidents' = incidents
    <3>1. /\ status' = [status EXCEPT ![c] = IF pc[w] = "delivered" THEN "SENT" ELSE "FAILED"]
          /\ retries' = [retries EXCEPT ![c] =
                           IF pc[w] = "delivered" THEN @ ELSE UpTo(@ + 1, RetryLimit)]
          /\ Remember("overwritten",
                      IF status[c] = "COMPLETED" /\ c \in Polls THEN {c} ELSE {})
      BY <2>1 DEF Delivery
    <3>2. /\ history' \in [Records -> SUBSET Mishaps]
          /\ \A r \in Records :
               history'[r] = history[r] \cup
                 IF status[c] = "COMPLETED" /\ c \in Polls /\ r = c THEN {"overwritten"}
                 ELSE {}
      BY <1>0, <3>1, RememberEffect DEF Mishaps
    <3>3. retries' \in [Records -> Nat]
      BY <1>0, <1>1, <3>1, OutboxAssumption DEF TypeOK, UpTo
    <3>4. /\ status' \in [Records -> Statuses]
          /\ status'[c] = IF pc[w] = "delivered" THEN "SENT" ELSE "FAILED"
          /\ \A r \in Records \ {c} : status'[r] = status[r]
      BY <1>0, <1>1, <3>1 DEF TypeOK, Statuses
    <3>5. incidents' \in Nat  BY <1>0, <2>1 DEF TypeOK
    <3> QED  BY <1>1, <3>2, <3>3, <3>4, <3>5
  <2>2. CASE status[c] = "COMPLETED" /\ UNCHANGED <<status, retries, history, incidents>>
    BY <1>0, <2>2 DEF TypeOK
  <2>3. CASE Incident /\ Remember("stranded", {c}) /\ UNCHANGED <<status, retries>>
    <3>1. /\ history' \in [Records -> SUBSET Mishaps]
          /\ \A r \in Records :
               history'[r] = history[r] \cup IF r = c THEN {"stranded"} ELSE {}
      BY <1>0, <2>3, RememberEffect DEF Mishaps
    <3>2. incidents' \in Nat  BY <1>0, <2>3, IncidentEffect
    <3> QED  BY <1>0, <1>1, <2>3, <3>1, <3>2 DEF TypeOK
  <2> QED  BY <2>1, <2>2, <2>3 DEF Report
<1>4. /\ todo' \in [Workers -> SUBSET Records]
      /\ pc' \in [Workers -> {"idle", "select", "send", "delivered", "failed", "text"}]
      /\ \A v \in Workers \ {w} : todo'[v] = todo[v] /\ pc'[v] = pc[v]
      /\ \/ /\ todo'[w] = todo[w] /\ pc'[w] = "text"
            /\ pc[w] = "delivered" /\ c \notin Polls
         \/ /\ todo'[w] = todo[w] \ {c}
            /\ pc'[w] = IF todo'[w] = {} THEN "idle" ELSE "send"
  BY <1>1, <1>2, AfterResultEffect DEF IInv
<1>5. TypeOK'  BY <1>0, <1>2, <1>3, <1>4 DEF TypeOK
<1>6. AtARecord'  BY <1>1, <1>4 DEF IInv, AtARecord, Current
<1>7. ProcessingIsHeld'
  <2> SUFFICES ASSUME NEW r \in Records, status'[r] = "PROCESSING"
               PROVE  Held(r)' \/ "stranded" \in history'[r]
    BY DEF ProcessingIsHeld
  <2>1. CASE r = c  BY <1>3, <2>1
  <2>2. CASE r # c  BY <1>3, <1>4, <2>2 DEF IInv, ProcessingIsHeld, Held
  <2> QED  BY <2>1, <2>2
<1>8. CompletedIsDecided'
  <2>1. \A r \in Records : /\ status'[r] = "COMPLETED" => status[r] = "COMPLETED"
                           /\ history[r] \subseteq history'[r]
    BY <1>3
  <2> QED  BY <1>0, <1>2, <2>1, OutboxAssumption
           DEF IInv, TypeOK, CompletedIsDecided, AcceptedIsDecidedUnlessFailing, Records
<1>9. DecidedStaysCompleted'
  <2>1. \A r \in Records : "overwritten" \notin history'[r] =>
          /\ "overwritten" \notin history[r]
          /\ status[r] = "COMPLETED" /\ r \in Polls => status'[r] = "COMPLETED"
    BY <1>3
  <2> QED  BY <1>2, <2>1 DEF IInv, DecidedStaysCompleted, CompletedIsDecided
<1>10. OneHolder'
  <2> SUFFICES ASSUME NEW r \in Records, Clean(r)'
               PROVE  /\ \A u, v \in Workers : r \in todo'[u] /\ r \in todo'[v] => u = v
                      /\ Held(r)' => status'[r] \in {"PROCESSING", "SENT", "COMPLETED"}
                      /\ status'[r] \in {"ABSENT", "PENDING", "FAILED"} => sent'[r] = 0
                      /\ \A v \in Workers :
                           r \in todo'[v] /\ (Current(v)' # r \/ pc'[v] \in {"send", "failed"})
                             => sent'[r] = 0
                      /\ sent'[r] <= 1
    BY DEF OneHolder
  <2>1. Clean(r)  BY <1>3 DEF Clean
  <2>2. CASE r # c
    <3>1. \A v \in Workers : r \in todo'[v] =>
            /\ r \in todo[v]
            /\ v # w => Current(v)' = Current(v) /\ pc'[v] = pc[v]
      BY <1>4 DEF Current
    <3>2. r \in todo[w] => sent[r] = 0  BY <2>1, <2>2 DEF IInv, OneHolder
    <3> QED  BY <1>2, <1>3, <2>1, <2>2, <3>1, <3>2 DEF IInv, OneHolder, Held
  <2>3. CASE r = c
    <3>1. /\ \A v \in Workers : r \in todo[v] => v = w
          /\ status[r] \in {"PROCESSING", "SENT", "COMPLETED"}
          /\ pc[w] = "failed" => sent[r] = 0
          /\ sent[r] <= 1
      BY <1>1, <2>1, <2>3 DEF IInv, OneHolder, Held
    <3>2. \A v \in Workers : r \in todo'[v] =>
            v = w /\ pc'[w] = "text" /\ pc[w] = "delivered" /\ Current(v)' = r
      BY <1>4, <2>3, <3>1 DEF Current
    <3>3. status'[r] \in {"ABSENT", "PENDING", "FAILED"} => pc[w] = "failed"
      BY <1>1, <1>3, <2>3, <3>1
    <3>4. pc[w] = "delivered" => status'[r] \in {"PROCESSING", "SENT", "COMPLETED"}
      BY <1>3, <2>3, <3>1
    <3> QED  BY <1>2, <3>1, <3>2, <3>3, <3>4 DEF Held
  <2> QED  BY <2>2, <2>3
<1> QED  BY <1>5, <1>6, <1>7, <1>8, <1>9, <1>10 DEF IInv

LEMMA CompleteTextKeeps ==
  ASSUME IInv, NEW w \in Workers, CompleteText(w)
  PROVE  IInv'
<1>0. TypeOK  BY DEF IInv
<1> DEFINE c == Current(w)
<1>1. c \in todo[w] /\ c \in Records /\ c \notin Polls /\ pc[w] = "text"
  BY CurrentIsTaken DEF IInv, CompleteText, AtARecord
<1>2. /\ status' = [status EXCEPT ![c] = "COMPLETED"] /\ Continue(w)
      /\ retries' = retries /\ decided' = decided /\ sent' = sent
      /\ claims' = claims /\ firing' = firing
      /\ webhooks' = webhooks /\ accepted' = accepted /\ history' = history
      /\ incidents' = incidents
  BY DEF CompleteText, deciding
<1>3. /\ status'[c] = "COMPLETED" /\ status' \in [Records -> Statuses]
      /\ \A r \in Records \ {c} : status'[r] = status[r]
  BY <1>0, <1>1, <1>2 DEF TypeOK, Statuses
<1>4. /\ todo'[w] = todo[w] \ {c}
      /\ pc'[w] = IF todo'[w] = {} THEN "idle" ELSE "send"
      /\ todo' \in [Workers -> SUBSET Records]
      /\ pc' \in [Workers -> {"idle", "select", "send", "delivered", "failed", "text"}]
      /\ \A v \in Workers \ {w} : todo'[v] = todo[v] /\ pc'[v] = pc[v]
  BY <1>1, <1>2, ContinueEffect DEF IInv
<1>5. TypeOK'  BY <1>0, <1>2, <1>3, <1>4 DEF TypeOK
<1>6. AtARecord'  BY <1>4 DEF IInv, AtARecord, Current
<1>7. ProcessingIsHeld'
  <2> SUFFICES ASSUME NEW r \in Records, status'[r] = "PROCESSING"
               PROVE  Held(r)' \/ "stranded" \in history'[r]
    BY DEF ProcessingIsHeld
  <2>1. r # c  BY <1>3
  <2> QED  BY <1>2, <1>3, <1>4, <2>1 DEF IInv, ProcessingIsHeld, Held
<1>8. CompletedIsDecided'
  BY <1>1, <1>2, <1>3, OutboxAssumption
  DEF IInv, CompletedIsDecided, AcceptedIsDecidedUnlessFailing, Records
<1>9. DecidedStaysCompleted'  BY <1>2, <1>3 DEF IInv, DecidedStaysCompleted
<1>10. OneHolder'
  <2> SUFFICES ASSUME NEW r \in Records, Clean(r)'
               PROVE  /\ \A u, v \in Workers : r \in todo'[u] /\ r \in todo'[v] => u = v
                      /\ Held(r)' => status'[r] \in {"PROCESSING", "SENT", "COMPLETED"}
                      /\ status'[r] \in {"ABSENT", "PENDING", "FAILED"} => sent'[r] = 0
                      /\ \A v \in Workers :
                           r \in todo'[v] /\ (Current(v)' # r \/ pc'[v] \in {"send", "failed"})
                             => sent'[r] = 0
                      /\ sent'[r] <= 1
    BY DEF OneHolder
  <2>1. Clean(r)  BY <1>2 DEF Clean
  <2>2. \A v \in Workers : r \in todo'[v] =>
          /\ r \in todo[v]
          /\ v # w => Current(v)' = Current(v) /\ pc'[v] = pc[v]
          /\ v = w => r # c
    BY <1>4 DEF Current
  <2>3. r \in todo[w] /\ r # c => sent[r] = 0  BY <2>1 DEF IInv, OneHolder
  <2>4. r = c \/ status'[r] = status[r]  BY <1>3
  <2> QED  BY <1>2, <1>3, <2>1, <2>2, <2>3, <2>4 DEF IInv, OneHolder, Held
<1> QED  BY <1>5, <1>6, <1>7, <1>8, <1>9, <1>10 DEF IInv

\* A cut invocation lets go of its records; they are remembered as stranded.
LEMMA CutKeeps ==
  ASSUME IInv, NEW w \in Workers, Cut(w)
  PROVE  IInv'
<1>0. TypeOK  BY DEF IInv
<1>1. /\ Take(w, {}) /\ Incident /\ Remember("stranded", todo[w])
      /\ status' = status /\ retries' = retries /\ decided' = decided /\ sent' = sent
      /\ claims' = claims
      /\ firing' = firing /\ webhooks' = webhooks /\ accepted' = accepted
  BY DEF Cut, rows, deciding
<1>2. /\ todo'[w] = {} /\ pc'[w] = "idle"
      /\ todo' \in [Workers -> SUBSET Records]
      /\ pc' \in [Workers -> {"idle", "select", "send", "delivered", "failed", "text"}]
      /\ \A v \in Workers \ {w} : todo'[v] = todo[v] /\ pc'[v] = pc[v]
  BY <1>0, <1>1, TakeEffect
<1>3. /\ history' \in [Records -> SUBSET Mishaps]
      /\ \A r \in Records :
           history'[r] = history[r] \cup IF r \in todo[w] THEN {"stranded"} ELSE {}
  BY <1>0, <1>1, RememberEffect DEF Mishaps
<1>4. incidents' \in Nat  BY <1>0, <1>1, IncidentEffect
<1>5. TypeOK'  BY <1>0, <1>1, <1>2, <1>3, <1>4 DEF TypeOK
<1>6. AtARecord'  BY <1>2 DEF IInv, AtARecord, Current
<1>7. ProcessingIsHeld'
  BY <1>1, <1>2, <1>3 DEF IInv, ProcessingIsHeld, Held
<1>8. CompletedIsDecided'
  BY <1>0, <1>1, <1>3, OutboxAssumption
  DEF IInv, TypeOK, CompletedIsDecided, AcceptedIsDecidedUnlessFailing, Records
<1>9. DecidedStaysCompleted'  BY <1>1, <1>3 DEF IInv, DecidedStaysCompleted
<1>10. OneHolder'
  <2> SUFFICES ASSUME NEW r \in Records, Clean(r)'
               PROVE  /\ \A u, v \in Workers : r \in todo'[u] /\ r \in todo'[v] => u = v
                      /\ Held(r)' => status'[r] \in {"PROCESSING", "SENT", "COMPLETED"}
                      /\ status'[r] \in {"ABSENT", "PENDING", "FAILED"} => sent'[r] = 0
                      /\ \A v \in Workers :
                           r \in todo'[v] /\ (Current(v)' # r \/ pc'[v] \in {"send", "failed"})
                             => sent'[r] = 0
                      /\ sent'[r] <= 1
    BY DEF OneHolder
  <2>1. Clean(r)  BY <1>3 DEF Clean
  <2>2. \A v \in Workers : r \in todo'[v] =>
          r \in todo[v] /\ Current(v)' = Current(v) /\ pc'[v] = pc[v]
    BY <1>2 DEF Current
  <2> QED  BY <1>1, <2>1, <2>2 DEF IInv, OneHolder, Held
<1> QED  BY <1>5, <1>6, <1>7, <1>8, <1>9, <1>10 DEF IInv

\* A decision closes a record that is open: unless it was overwritten, no decision came
\* before, and no webhook.
LEMMA DecideKeeps ==
  ASSUME IInv, NEW r \in Polls, NEW d \in Decisions, Decide(r, d)
  PROVE  IInv'
<1>0. TypeOK /\ r \in Records  BY OutboxAssumption DEF IInv, Records
<1>1. /\ status[r] # "ABSENT"
      /\ retries' = retries /\ pc' = pc /\ todo' = todo /\ sent' = sent /\ claims' = claims
      /\ webhooks' = webhooks
  BY DEF Decide, working
<1>2. CASE /\ Open(r)
           /\ status' = [status EXCEPT ![r] = "COMPLETED"]
           /\ decided' = [decided EXCEPT ![r] = d]
           /\ \/ firing' = firing \cup {r} /\ UNCHANGED incidents
              \/ Incident /\ UNCHANGED firing
           /\ UNCHANGED <<accepted, history>>
  <2>1. /\ status'[r] = "COMPLETED" /\ status' \in [Records -> Statuses]
        /\ \A q \in Records \ {r} : status'[q] = status[q]
    BY <1>0, <1>2 DEF TypeOK, Statuses
  <2>2. /\ decided'[r] = d /\ d # None /\ decided' \in [Records -> Decisions \cup {None}]
        /\ \A q \in Records \ {r} : decided'[q] = decided[q]
    BY <1>0, <1>2, OutboxAssumption DEF TypeOK
  <2>3. firing' \in SUBSET Records /\ firing' \subseteq firing \cup {r} /\ incidents' \in Nat
    BY <1>0, <1>2, IncidentEffect DEF TypeOK
  <2>4. accepted' = accepted /\ history' = history  BY <1>2
  <2>5. TypeOK'  BY <1>0, <1>1, <2>1, <2>2, <2>3, <2>4 DEF TypeOK
  <2>6. AtARecord'  BY <1>1 DEF IInv, AtARecord, Current
  <2>7. ProcessingIsHeld'  BY <1>1, <2>1, <2>4 DEF IInv, ProcessingIsHeld, Held
  <2>8. CompletedIsDecided'
    BY <1>0, <2>1, <2>2, <2>3, <2>4, OutboxAssumption
    DEF IInv, TypeOK, CompletedIsDecided, AcceptedIsDecidedUnlessFailing, Records
  <2>9. DecidedStaysCompleted'
    <3> SUFFICES ASSUME NEW q \in Records, "overwritten" \notin history'[q]
                 PROVE  /\ decided'[q] # None => status'[q] = "COMPLETED"
                        /\ decided'[q] = None => webhooks'[q] = 0 /\ q \notin firing'
                        /\ q \in firing' => webhooks'[q] = 0
                        /\ webhooks'[q] <= 1
      BY DEF DecidedStaysCompleted
    <3>1. CASE q = r
      <4>1. status[r] # "COMPLETED"  BY <1>2 DEF Open
      <4>2. webhooks[r] = 0
        BY <1>0, <2>4, <3>1, <4>1 DEF IInv, DecidedStaysCompleted
      <4> QED  BY <1>1, <2>1, <2>2, <3>1, <4>2
    <3>2. CASE q # r
      BY <1>1, <2>1, <2>2, <2>3, <2>4, <3>2 DEF IInv, DecidedStaysCompleted
    <3> QED  BY <3>1, <3>2
  <2>10. OneHolder'
    BY <1>1, <2>1, <2>4 DEF IInv, OneHolder, Held, Clean, Current
  <2> QED  BY <2>5, <2>6, <2>7, <2>8, <2>9, <2>10 DEF IInv
<1>3. CASE /\ ~Open(r)
           /\ accepted' = accepted \cup {r}
           /\ Remember("failing", IF status[r] = "FAILED" THEN {r} ELSE {})
           /\ UNCHANGED <<status, decided, firing, incidents>>
  <2>1. /\ history' \in [Records -> SUBSET Mishaps]
        /\ \A q \in Records :
             history'[q] = history[q] \cup
                             IF status[r] = "FAILED" /\ q = r THEN {"failing"} ELSE {}
    BY <1>0, <1>3, RememberEffect DEF Mishaps
  <2>2. status[r] = "FAILED" \/ status[r] = "COMPLETED"
    BY <1>0, <1>1, <1>3 DEF TypeOK, Statuses, Open
  <2>3. status' = status /\ decided' = decided /\ firing' = firing /\ incidents' = incidents
    BY <1>3
  <2>4. TypeOK'  BY <1>0, <1>1, <1>3, <2>1, <2>3 DEF TypeOK
  <2>5. AtARecord'  BY <1>1 DEF IInv, AtARecord, Current
  <2>6. ProcessingIsHeld'  BY <1>1, <2>1, <2>3 DEF IInv, ProcessingIsHeld, Held
  <2>7. CompletedIsDecided'
    <3>1. decided[r] = None => "failing" \in history'[r]
      BY <1>0, <2>1, <2>2 DEF IInv, CompletedIsDecided
    <3> QED  BY <1>0, <1>3, <2>1, <2>3, <3>1, OutboxAssumption
             DEF IInv, TypeOK, CompletedIsDecided, AcceptedIsDecidedUnlessFailing, Records
  <2>8. DecidedStaysCompleted'
    BY <1>1, <2>1, <2>3 DEF IInv, DecidedStaysCompleted
  <2>9. OneHolder'
    BY <1>1, <2>1, <2>3 DEF IInv, OneHolder, Held, Clean, Current
  <2> QED  BY <2>4, <2>5, <2>6, <2>7, <2>8, <2>9 DEF IInv
<1> QED  BY <1>2, <1>3 DEF Decide

\* The webhook is called for a decision that waits for it, once, or not at all.
LEMMA WebhookKeeps ==
  ASSUME IInv, NEW r \in Records, FireWebhook(r) \/ CutDecision(r)
  PROVE  IInv'
<1>0. TypeOK  BY DEF IInv
<1>1. /\ r \in firing /\ firing' = firing \ {r}
      /\ status' = status /\ retries' = retries /\ decided' = decided
      /\ pc' = pc /\ todo' = todo /\ sent' = sent /\ claims' = claims /\ history' = history
      /\ accepted' \in {accepted, accepted \cup {r}}
      /\ incidents' \in Nat
  BY <1>0, IncidentEffect DEF FireWebhook, CutDecision, rows, working, TypeOK
<1>2. /\ webhooks' \in [Records -> 0..2]
      /\ \A q \in Records \ {r} : webhooks'[q] = webhooks[q]
      /\ webhooks[r] = 0 => webhooks'[r] <= 1
  <2>1. CASE webhooks' = webhooks  BY <1>0, <2>1 DEF TypeOK
  <2>2. CASE webhooks' = [webhooks EXCEPT ![r] = UpTo(@ + 1, 2)]
    BY <1>0, <2>2 DEF TypeOK, UpTo
  <2> QED  BY <2>1, <2>2 DEF FireWebhook, CutDecision
<1>3. TypeOK'  BY <1>0, <1>1, <1>2 DEF TypeOK
<1>4. AtARecord'  BY <1>1 DEF IInv, AtARecord, Current
<1>5. ProcessingIsHeld'  BY <1>1 DEF IInv, ProcessingIsHeld, Held
<1>6. CompletedIsDecided'
  BY <1>1 DEF IInv, CompletedIsDecided, AcceptedIsDecidedUnlessFailing
<1>7. DecidedStaysCompleted'
  <2> SUFFICES ASSUME NEW q \in Records, "overwritten" \notin history'[q]
               PROVE  /\ decided'[q] # None => status'[q] = "COMPLETED"
                      /\ decided'[q] = None => webhooks'[q] = 0 /\ q \notin firing'
                      /\ q \in firing' => webhooks'[q] = 0
                      /\ webhooks'[q] <= 1
    BY DEF DecidedStaysCompleted
  <2>1. CASE q = r  BY <1>1, <1>2, <2>1 DEF IInv, DecidedStaysCompleted
  <2>2. CASE q # r  BY <1>1, <1>2, <2>2 DEF IInv, DecidedStaysCompleted
  <2> QED  BY <2>1, <2>2
<1>8. OneHolder'  BY <1>1 DEF IInv, OneHolder, Held, Clean, Current
<1> QED  BY <1>3, <1>4, <1>5, <1>6, <1>7, <1>8 DEF IInv

LEMMA StartKeeps ==
  ASSUME IInv, NEW w \in Workers, Start(w)
  PROVE  IInv'
<1>0. /\ TypeOK /\ pc[w] = "idle" /\ todo[w] = {}
      /\ UNCHANGED <<retries, decided, sent, deciding>>
  BY DEF IInv, Start, AtARecord
<1>1. ASSUME NEW rs \in ClaimableNow,
             Claim(w, Oldest(rs)) \/ LoseClaim(w, Oldest(rs))
      PROVE  IInv'
  <2>1. Oldest(rs) \in SUBSET Records /\ \A r \in Oldest(rs) : Claimable(r)
    BY DEF Oldest, ClaimableNow
  <2> QED  BY <1>0, <1>1, <2>1, ClaimKeeps, LoseClaimKeeps
<1>2. CASE NoClaim(w) /\ incidents' = incidents
  BY <1>0, <1>2, NoClaimKeeps DEF TypeOK
<1>3. CASE Incident /\ NoClaim(w)  BY <1>0, <1>3, IncidentEffect, NoClaimKeeps
<1>4. ASSUME NEW rs \in SUBSET Records, ProcessGiven(w, rs)
      PROVE  IInv'
  <2>1. /\ Take(w, rs) /\ Remember("unclaimed", rs) /\ incidents' \in Nat
        /\ UNCHANGED <<rows, claims, sent, deciding>>
    BY <1>0, <1>4, IncidentEffect DEF ProcessGiven, rows
  <2> QED  BY <1>0, <2>1, TakeUnclaimedKeeps
<1>5. SUBSET {r \in Records : status[r] # "ABSENT"} \subseteq SUBSET Records  OBVIOUS
<1> QED  BY <1>1, <1>2, <1>3, <1>4, <1>5 DEF Start

LEMMA NextKeeps == IInv /\ [Next]_vars => IInv'
<1> SUFFICES ASSUME IInv, [Next]_vars PROVE IInv'  OBVIOUS
<1>1. ASSUME NEW r \in Records, Insert(r) PROVE IInv'  BY <1>1, InsertKeeps
<1>2. ASSUME NEW r \in Records, FireWebhook(r) \/ CutDecision(r) PROVE IInv'
  BY <1>2, WebhookKeeps
<1>3. ASSUME NEW w \in Workers, Start(w) PROVE IInv'  BY <1>3, StartKeeps
<1>4. ASSUME NEW w \in Workers, Work(w) PROVE IInv'
  BY <1>4, SelectKeeps, SendKeeps, ReportKeeps, CompleteTextKeeps DEF Work
<1>5. ASSUME NEW w \in Workers, Cut(w) PROVE IInv'  BY <1>5, CutKeeps
<1>6. ASSUME NEW r \in Polls, NEW d \in Decisions, Decide(r, d) PROVE IInv'
  BY <1>6, DecideKeeps
<1>7. CASE UNCHANGED vars
  BY <1>7 DEF vars, rows, working, deciding, IInv, TypeOK, AtARecord, Current,
              ProcessingIsHeld, Held, CompletedIsDecided, AcceptedIsDecidedUnlessFailing,
              DecidedStaysCompleted, OneHolder, Clean
<1> QED  BY <1>1, <1>2, <1>3, <1>4, <1>5, <1>6, <1>7 DEF Next

\* The inductive invariant: a record that was claimed has one holder, and a decided
\* record stays COMPLETED while its webhook waits.
THEOREM OutboxInvariance == Spec => []IInv
BY InitIInv, NextKeeps, PTL DEF Spec

\* However invocations of processOutboxQueue interleave, fail and are cut, a record left
\* PROCESSING by nobody is one whose claim's answer was lost, or whose holder was cut or
\* could not report.
THEOREM ProcessingHeld == Spec => []ProcessingIsHeld
<1>1. IInv => ProcessingIsHeld  BY DEF IInv
<1> QED  BY OutboxInvariance, <1>1, PTL

\* A message goes out twice only after its record was taken without a claim, by the plain
\* SELECT or by a caller that gave it, or after a send answered false for what it had
\* delivered (claim_whatsapp_outbox_batch, processOutboxQueue).
THEOREM SentOnce == Spec => []SentOnceUnlessUnclaimed
<1>1. IInv => SentOnceUnlessUnclaimed
  <2> SUFFICES ASSUME IInv, NEW r \in Records, sent[r] > 1, Clean(r) PROVE FALSE
    BY DEF SentOnceUnlessUnclaimed, Clean
  <2>1. sent[r] <= 1 /\ sent[r] \in 0..2  BY DEF IInv, OneHolder, TypeOK
  <2> QED  BY <2>1
<1> QED  BY OutboxInvariance, <1>1, PTL

\* The webhook of a decision is called at most once, unless a delivery result was
\* written over the completed record (dispatchDecision, complete_whatsapp_action_v1).
THEOREM WebhookOnce == Spec => []WebhookOnceUnlessOverwritten
<1>1. IInv => WebhookOnceUnlessOverwritten
  <2> SUFFICES ASSUME IInv, NEW r \in Records, webhooks[r] > 1,
                      "overwritten" \notin history[r]
               PROVE  FALSE
    BY DEF WebhookOnceUnlessOverwritten
  <2>1. webhooks[r] <= 1 /\ webhooks[r] \in 0..2
    BY DEF IInv, DecidedStaysCompleted, TypeOK
  <2> QED  BY <2>1
<1> QED  BY OutboxInvariance, <1>1, PTL

\* dispatchDecision answers success only for a decided record, or one it met FAILED.
THEOREM AcceptedDecided == Spec => []AcceptedIsDecidedUnlessFailing
<1>1. IInv => AcceptedIsDecidedUnlessFailing  BY DEF IInv, CompletedIsDecided
<1> QED  BY OutboxInvariance, <1>1, PTL

-----------------------------------------------------------------------------
(* Claims: each one is paid for by a failure before the next.                *)

\* A claim of a record that failed as often as it was claimed.
LEMMA ClaimCounts ==
  ASSUME TypeOK, ClaimInv, NEW rs \in SUBSET Records, \A r \in rs : Claimable(r),
         Mark(rs), Claimed(rs), retries' = retries
  PROVE  ClaimInv'
<1>1. /\ \A r \in rs : status[r] \in {"PENDING", "FAILED"} /\ status'[r] = "PROCESSING"
      /\ \A r \in Records \ rs : status'[r] = status[r]
  BY MarkEffect
<1>2. \A r \in Records : /\ claims[r] \in Nat /\ retries[r] \in Nat
                         /\ claims'[r] = claims[r] + IF r \in rs THEN 1 ELSE 0
  BY DEF TypeOK, Claimed
<1>3. \A r \in rs : claims[r] <= retries[r] /\ retries[r] < RetryLimit
  BY <1>1 DEF ClaimInv, EachClaimIsCounted, Claimable
<1> QED  BY <1>1, <1>2, <1>3, OutboxAssumption
         DEF ClaimInv, EachClaimIsCounted, ClaimsAreBounded

\* A result that is reported as FAILED is one retry more.
LEMMA ReportCounts ==
  ASSUME IInv, ClaimInv, NEW w \in Workers, Report(w)
  PROVE  ClaimInv'
<1> DEFINE c == Current(w)
<1>0. TypeOK /\ c \in Records /\ claims' = claims
  BY CurrentIsTaken DEF IInv, Report
<1>1. CASE UNCHANGED <<status, retries>>
  BY <1>0, <1>1 DEF ClaimInv, EachClaimIsCounted, ClaimsAreBounded
<1>2. CASE Delivery(c, pc[w] = "delivered")
  <2>1. /\ \A r \in Records \ {c} : status'[r] = status[r] /\ retries'[r] = retries[r]
        /\ \/ status'[c] = "SENT" /\ retries'[c] = retries[c]
           \/ retries'[c] = IF retries[c] + 1 > RetryLimit THEN RetryLimit ELSE retries[c] + 1
    BY <1>0, <1>2 DEF Delivery, UpTo, TypeOK
  <2>2. claims[c] <= retries[c] + 1 /\ claims[c] <= RetryLimit
    BY <1>0 DEF ClaimInv, EachClaimIsCounted, ClaimsAreBounded, TypeOK
  <2>3. retries'[c] \in Nat /\ retries[c] \in Nat /\ claims[c] \in Nat
    BY <1>0, <2>1, OutboxAssumption DEF TypeOK
  <2>4. claims'[c] <= IF status'[c] \in {"ABSENT", "PENDING", "FAILED"} THEN retries'[c]
                      ELSE retries'[c] + 1
    BY <1>0, <2>1, <2>2, <2>3, OutboxAssumption
  <2> QED  BY <1>0, <2>1, <2>4 DEF ClaimInv, EachClaimIsCounted, ClaimsAreBounded
<1> QED  BY <1>1, <1>2 DEF Report

\* Every other step leaves the claims and the retries, and makes no record claimable.
LEMMA NothingClaimed ==
  ASSUME TypeOK, ClaimInv, claims' = claims, retries' = retries,
         \A r \in Records : status'[r] \in {"ABSENT", "PENDING", "FAILED"} =>
                              status[r] \in {"ABSENT", "PENDING", "FAILED"}
  PROVE  ClaimInv'
<1>1. \A r \in Records : claims[r] \in Nat /\ retries[r] \in Nat  BY DEF TypeOK
<1> QED  BY <1>1 DEF ClaimInv, EachClaimIsCounted, ClaimsAreBounded

LEMMA StartCounts ==
  ASSUME IInv, ClaimInv, NEW w \in Workers, Start(w)
  PROVE  ClaimInv'
<1>0. TypeOK /\ retries' = retries  BY DEF IInv, Start
<1>1. ASSUME NEW rs \in ClaimableNow,
             Claim(w, Oldest(rs)) \/ LoseClaim(w, Oldest(rs))
      PROVE  ClaimInv'
  <2>1. Oldest(rs) \in SUBSET Records /\ \A r \in Oldest(rs) : Claimable(r)
    BY DEF Oldest, ClaimableNow
  <2>2. Mark(Oldest(rs)) /\ Claimed(Oldest(rs))  BY <1>1 DEF Claim, LoseClaim
  <2> QED  BY <1>0, <2>1, <2>2, ClaimCounts
<1>2. CASE claims' = claims /\ status' = status  BY <1>0, <1>2, NothingClaimed
<1> QED  BY <1>1, <1>2 DEF Start, NoClaim, ProcessGiven

LEMMA NextCounts == IInv /\ ClaimInv /\ [Next]_vars => ClaimInv'
<1> SUFFICES ASSUME IInv, ClaimInv, [Next]_vars PROVE ClaimInv'  OBVIOUS
<1>0. TypeOK  BY DEF IInv
<1>1. ASSUME NEW r \in Records, Insert(r) PROVE ClaimInv'
  <2>1. /\ claims' = claims /\ retries' = retries
        /\ \A q \in Records : status'[q] = status[q] \/ (q = r /\ status[q] = "ABSENT")
    BY <1>0, <1>1 DEF Insert, TypeOK
  <2> QED  BY <1>0, <2>1, NothingClaimed
<1>2. ASSUME NEW r \in Records, FireWebhook(r) \/ CutDecision(r) PROVE ClaimInv'
  BY <1>0, <1>2, NothingClaimed DEF FireWebhook, CutDecision, rows
<1>3. ASSUME NEW w \in Workers, Start(w) PROVE ClaimInv'  BY <1>3, StartCounts
<1>4. ASSUME NEW w \in Workers, SelectUnclaimed(w) \/ Send(w) \/ Cut(w) PROVE ClaimInv'
  BY <1>0, <1>4, NothingClaimed DEF SelectUnclaimed, Send, Cut, rows
<1>5. ASSUME NEW w \in Workers, Report(w) PROVE ClaimInv'  BY <1>5, ReportCounts
<1>6. ASSUME NEW w \in Workers, CompleteText(w) PROVE ClaimInv'
  <2>1. /\ claims' = claims /\ retries' = retries
        /\ \A q \in Records : status'[q] = status[q] \/ status'[q] = "COMPLETED"
    BY <1>0, <1>6 DEF CompleteText, TypeOK
  <2> QED  BY <1>0, <2>1, NothingClaimed
<1>7. ASSUME NEW r \in Polls, NEW d \in Decisions, Decide(r, d) PROVE ClaimInv'
  <2>1. /\ claims' = claims /\ retries' = retries
        /\ \A q \in Records : status'[q] = status[q] \/ status'[q] = "COMPLETED"
    BY <1>0, <1>7 DEF Decide, TypeOK
  <2> QED  BY <1>0, <2>1, NothingClaimed
<1>8. CASE UNCHANGED vars
  BY <1>0, <1>8, NothingClaimed DEF vars, rows
<1> QED  BY <1>1, <1>2, <1>3, <1>4, <1>5, <1>6, <1>7, <1>8 DEF Next, Work

\* A record is claimed at most RetryLimit times, whatever is lost, cut or sent beside the
\* claims: one that keeps failing, or is stranded, stops standing before younger ones
\* (the WHERE of claim_whatsapp_outbox_batch and set_outbox_delivery_result_v1).
THEOREM ClaimsBounded == Spec => []ClaimsAreBounded
<1>1. Init => ClaimInv
  BY OutboxAssumption
  DEF Init, ClaimInv, EachClaimIsCounted, ClaimsAreBounded
<1>2. ClaimInv => ClaimsAreBounded  BY DEF ClaimInv
<1> QED  BY OutboxInvariance, NextCounts, <1>1, <1>2, PTL DEF Spec
=============================================================================
