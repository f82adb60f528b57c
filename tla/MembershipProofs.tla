-------------------------- MODULE MembershipProofs --------------------------
(***************************************************************************)
(* Membership for every set of connections and of tokens: IInv is          *)
(* inductive, hence its parts hold in every state, and the two action      *)
(* properties about the host role and evictions hold of every step.  On    *)
(* top of it Permissions: what was granted to the host.                    *)
(***************************************************************************)
EXTENDS Permissions, TLAPS

USE DEF HasSlot, Revoke, ClientTokens, SlotTokens, SlotOf, ResumedSeq,
        IsRegistered, IsOldest, genToken

(* The initial state satisfies the inductive invariant.                    *)
LEMMA InitIInv == Init => IInv
<1> SUFFICES ASSUME Init PROVE IInv
  OBVIOUS
<1> USE NilAssumption DEF Init, NoSlot
<1>1. TypeOK BY DEF TypeOK, Phases, Slots
<1>2. RegisteredIsLive BY DEF RegisteredIsLive
<1>3. SeniorityIsStrict BY DEF SeniorityIsStrict
<1>4. TokenResumesMember BY DEF TokenResumesMember
<1>5. SlotWillExpire BY DEF SlotWillExpire
<1>6. EmptyRoomIsScheduled BY DEF EmptyRoomIsScheduled, NoClients
<1>7. TokensAreIssued /\ SlotTokenIsItsOwn
  BY DEF TokensAreIssued, SlotTokenIsItsOwn
<1>8. RegistryOrder BY DEF RegistryOrder
<1>9. SlotsComeFromDrops
  <2> SUFFICES ASSUME NEW i \in Conns
               PROVE  ~HasSlot(i) /\ ~(expiring[i] > 0)
                      /\ pending[i].timer \notin {"armed", "stopped"}
    BY DEF SlotsComeFromDrops
  <2>1. pending[i].timer = "none" BY DEF NoSlot
  <2>2. expiring[i] = 0 OBVIOUS
  <2> QED BY <2>1, <2>2
<1> QED BY <1>1, <1>2, <1>3, <1>4, <1>5, <1>6, <1>7, <1>8, <1>9 DEF IInv

(* promoteIfHostGone leaves a host that is an ID or nobody.                *)
LEMMA PromoteType ==
    ASSUME TypeOK, NEW i \in Conns, NEW cl, promoteIfHostGone(i, cl)
    PROVE  hostID' \in Conns \cup {Nil}
BY DEF TypeOK, promoteIfHostGone

(* scheduleEmptyTimerLocked leaves a timer state.                          *)
LEMMA ScheduleType ==
    ASSUME TypeOK, NEW cl, scheduleEmptyTimerLocked(cl)
    PROVE  emptyTimer' \in {"nil", "armed", "fired"}
BY DEF TypeOK, scheduleEmptyTimerLocked

(* Every step of the program keeps the types.                              *)
LEMMA TypeStep == TypeOK /\ [Next]_vars => TypeOK'
<1> SUFFICES ASSUME TypeOK, [Next]_vars PROVE TypeOK'
  OBVIOUS
<1> USE NilAssumption DEF Phases, Slots, NoSlot, handlerVars, roomVars,
        timerVars, registryVars
<1>1. ASSUME NEW c \in Conns, Create(c) PROVE TypeOK'
  BY <1>1 DEF TypeOK, Create
<1>2. ASSUME NEW c \in Conns, Get(c) PROVE TypeOK'
  BY <1>2 DEF TypeOK, Get
<1>3. ASSUME NEW c \in Conns, JoinResume(c) PROVE TypeOK'
  BY <1>3 DEF TypeOK, JoinResume, Register
<1>4. ASSUME NEW c \in Conns, JoinFresh(c) PROVE TypeOK'
  BY <1>4 DEF TypeOK, JoinFresh, Register
<1>5. ASSUME NEW c \in Conns, Leave(c) PROVE TypeOK'
  <2>1. emptyTimer' \in {"nil", "armed", "fired"}
    BY <1>5, ScheduleType DEF Leave
  <2> QED BY <1>5, <2>1 DEF TypeOK, Leave
<1>6. ASSUME NEW c \in Conns, LeaveStale(c) PROVE TypeOK'
  BY <1>6 DEF TypeOK, LeaveStale
<1>7. ASSUME NEW c \in Conns, HardLeave(c) PROVE TypeOK'
  <2>1. id[c] \in Conns BY DEF TypeOK
  <2>2. emptyTimer' \in {"nil", "armed", "fired"}
    BY <1>7, ScheduleType DEF HardLeave
  <2>3. hostID' \in Conns \cup {Nil}
    BY <1>7, <2>1, PromoteType DEF HardLeave
  <2> QED BY <1>7, <2>2, <2>3 DEF TypeOK, HardLeave
<1>8. ASSUME NEW c \in Conns, ResumeTimerFires(c) PROVE TypeOK'
  BY <1>8 DEF TypeOK, ResumeTimerFires
<1>9. ASSUME NEW c \in Conns, finalizeLeave(c) PROVE TypeOK'
  <2>1. emptyTimer' \in {"nil", "armed", "fired"}
    BY <1>9, ScheduleType DEF finalizeLeave, TypeOK
  <2>2. hostID' \in Conns \cup {Nil}
    BY <1>9, PromoteType DEF finalizeLeave, TypeOK
  <2>3. expiring' \in [Conns -> Nat]
    <3>1. expiring[c] - 1 \in Nat BY <1>9 DEF TypeOK, finalizeLeave
    <3> QED BY <1>9, <3>1 DEF TypeOK, finalizeLeave
  <2>4. tokens' \in [Tokens -> Conns \cup {Nil}]
    BY <1>9 DEF TypeOK, finalizeLeave
  <2>5. pending' \in [Conns -> Slots]
    BY <1>9 DEF TypeOK, finalizeLeave
  <2> QED BY <1>9, <2>1, <2>2, <2>3, <2>4, <2>5 DEF TypeOK, finalizeLeave
<1>10. CASE EmptyTimerFires BY <1>10 DEF TypeOK, EmptyTimerFires
<1>11. CASE ReapCheck BY <1>11 DEF TypeOK, ReapCheck
<1>12. CASE Remove BY <1>12 DEF TypeOK, Remove
<1>13. CASE cleanupMedia BY <1>13 DEF TypeOK, cleanupMedia
<1>14. CASE UNCHANGED vars BY <1>14 DEF TypeOK, vars
<1> QED BY <1>1, <1>2, <1>3, <1>4, <1>5, <1>6, <1>7, <1>8, <1>9, <1>10, <1>11,
           <1>12, <1>13, <1>14 DEF Next

(* The actions that touch neither the members nor the slots.               *)
Aside ==
    \/ \E c \in Conns : Create(c) \/ Get(c) \/ LeaveStale(c)
    \/ EmptyTimerFires \/ ReapCheck \/ Remove \/ UNCHANGED vars

(* They leave the room's members, tokens and seniorities alone.            *)
LEMMA AsideStep ==
    Aside => UNCHANGED <<id, seq, tok, clients, pending, tokens, issued, hostID,
                         seqCounter, expiring>>
BY DEF Aside, Create, Get, LeaveStale, EmptyTimerFires, ReapCheck, Remove, vars,
   handlerVars, roomVars, timerVars, registryVars

(* finalizeLeave gives up one slot with its token, or does nothing to the  *)
(* members.                                                                *)
LEMMA FinalizeStep ==
    ASSUME NEW i \in Conns, finalizeLeave(i)
    PROVE  /\ UNCHANGED <<id, seq, tok, clients, issued, seqCounter>>
           /\ \/ UNCHANGED <<pending, tokens>>
              \/ /\ HasSlot(i)
                 /\ pending' = [pending EXCEPT ![i] = NoSlot]
                 /\ tokens' = Revoke(SlotTokens(i))
BY DEF finalizeLeave, handlerVars

(* A registered connection stays the open one that holds its ID.           *)
LEMMA RegisteredStep == IInv /\ [Next]_vars => RegisteredIsLive'
<1> SUFFICES ASSUME IInv, [Next]_vars PROVE RegisteredIsLive'
  OBVIOUS
<1> USE NilAssumption DEF IInv, TypeOK, RegisteredIsLive, handlerVars, roomVars
<1>1. ASSUME NEW c \in Conns, JoinResume(c) PROVE RegisteredIsLive'
  BY <1>1 DEF JoinResume, Register
<1>2. ASSUME NEW c \in Conns, JoinFresh(c) PROVE RegisteredIsLive'
  BY <1>2 DEF JoinFresh, Register
<1>3. ASSUME NEW c \in Conns, Leave(c) PROVE RegisteredIsLive'
  BY <1>3 DEF Leave
<1>4. ASSUME NEW c \in Conns, HardLeave(c) PROVE RegisteredIsLive'
  BY <1>4 DEF HardLeave
<1>5. ASSUME NEW c \in Conns, Create(c) \/ Get(c) \/ LeaveStale(c)
      PROVE RegisteredIsLive'
  BY <1>5 DEF Create, Get, LeaveStale
<1>6. ASSUME NEW c \in Conns, ResumeTimerFires(c) \/ finalizeLeave(c)
      PROVE RegisteredIsLive'
  BY <1>6 DEF ResumeTimerFires, finalizeLeave
<1>7. CASE EmptyTimerFires \/ ReapCheck \/ Remove \/ cleanupMedia
           \/ UNCHANGED vars
  BY <1>7 DEF EmptyTimerFires, ReapCheck, Remove, cleanupMedia, vars
<1> QED BY <1>1, <1>2, <1>3, <1>4, <1>5, <1>6, <1>7 DEF Next

(* The seniorities of members and slots stay distinct and below the        *)
(* counter the next fresh one is taken from.                               *)
LEMMA SeniorityStep == IInv /\ [Next]_vars => SeniorityIsStrict'
<1> SUFFICES ASSUME IInv, [Next]_vars PROVE SeniorityIsStrict'
  OBVIOUS
<1> USE NilAssumption DEF IInv, TypeOK, RegisteredIsLive, SeniorityIsStrict,
        Slots, NoSlot
<1>1. ASSUME NEW c \in Conns, JoinResume(c) PROVE SeniorityIsStrict'
  BY <1>1 DEF JoinResume, Register
<1>2. ASSUME NEW c \in Conns, JoinFresh(c) PROVE SeniorityIsStrict'
  BY <1>2 DEF JoinFresh, Register
<1>3. ASSUME NEW c \in Conns, Leave(c) PROVE SeniorityIsStrict'
  BY <1>3 DEF Leave
<1>4. ASSUME NEW c \in Conns, HardLeave(c) PROVE SeniorityIsStrict'
  BY <1>4 DEF HardLeave
<1>5. ASSUME NEW c \in Conns, ResumeTimerFires(c) PROVE SeniorityIsStrict'
  BY <1>5 DEF ResumeTimerFires, handlerVars
<1>6. ASSUME NEW c \in Conns, finalizeLeave(c) PROVE SeniorityIsStrict'
  <2>1. CASE UNCHANGED <<pending, tokens>>
    BY <1>6, <2>1, FinalizeStep
  <2>2. CASE /\ HasSlot(c)
             /\ pending' = [pending EXCEPT ![c] = NoSlot]
             /\ tokens' = Revoke(SlotTokens(c))
    <3>1. UNCHANGED <<id, seq, tok, clients, issued, seqCounter>>
      BY <1>6, FinalizeStep
    <3> QED BY <2>2, <3>1
  <2> QED BY <1>6, <2>1, <2>2, FinalizeStep
<1>7. CASE cleanupMedia
  BY <1>7 DEF cleanupMedia, handlerVars
<1>8. CASE Aside
  BY <1>8, AsideStep
<1> QED BY <1>1, <1>2, <1>3, <1>4, <1>5, <1>6, <1>7, <1>8 DEF Next, Aside

(* Nobody's token is lost or redirected by what happens to other IDs.      *)
LEMMA TokenStep ==
    IInv /\ [Next]_vars =>
      TokenResumesMember' /\ TokensAreIssued' /\ SlotTokenIsItsOwn'
<1> DEFINE Goal == TokenResumesMember /\ TokensAreIssued /\ SlotTokenIsItsOwn
<1> SUFFICES ASSUME IInv, [Next]_vars PROVE Goal'
  OBVIOUS
<1> USE NilAssumption DEF IInv, TypeOK, RegisteredIsLive, TokenResumesMember,
        TokensAreIssued, SlotTokenIsItsOwn, Slots, NoSlot
<1>1. ASSUME NEW c \in Conns, JoinResume(c) PROVE Goal'
  BY <1>1 DEF JoinResume, Register
<1>2. ASSUME NEW c \in Conns, JoinFresh(c) PROVE Goal'
  BY <1>2 DEF JoinFresh, Register
<1>3. ASSUME NEW c \in Conns, Leave(c) PROVE Goal'
  BY <1>3 DEF Leave
<1>4. ASSUME NEW c \in Conns, HardLeave(c) PROVE Goal'
  BY <1>4 DEF HardLeave
<1>5. ASSUME NEW c \in Conns, ResumeTimerFires(c) PROVE Goal'
  BY <1>5 DEF ResumeTimerFires, handlerVars
<1>6. ASSUME NEW c \in Conns, finalizeLeave(c) PROVE Goal'
  <2>1. CASE UNCHANGED <<pending, tokens>>
    BY <1>6, <2>1, FinalizeStep
  <2>2. CASE /\ HasSlot(c)
             /\ pending' = [pending EXCEPT ![c] = NoSlot]
             /\ tokens' = Revoke(SlotTokens(c))
    <3>1. UNCHANGED <<id, seq, tok, clients, issued, seqCounter>>
      BY <1>6, FinalizeStep
    <3> QED BY <2>2, <3>1
  <2> QED BY <1>6, <2>1, <2>2, FinalizeStep
<1>7. CASE cleanupMedia
  BY <1>7 DEF cleanupMedia, handlerVars
<1>8. CASE Aside
  BY <1>8, AsideStep
<1> QED BY <1>1, <1>2, <1>3, <1>4, <1>5, <1>6, <1>7, <1>8 DEF Next, Aside

(* A slot keeps its running timer or its callback.                         *)
LEMMA SlotStep == IInv /\ [Next]_vars => SlotWillExpire'
<1> SUFFICES ASSUME IInv, [Next]_vars PROVE SlotWillExpire'
  OBVIOUS
<1> USE DEF IInv, TypeOK, SlotWillExpire, RegistryOrder, Slots, NoSlot
<1>1. ASSUME NEW c \in Conns, JoinResume(c) PROVE SlotWillExpire'
  BY <1>1 DEF JoinResume, Register, registryVars
<1>2. ASSUME NEW c \in Conns, JoinFresh(c) PROVE SlotWillExpire'
  BY <1>2 DEF JoinFresh, Register, registryVars
<1>3. ASSUME NEW c \in Conns, Leave(c) PROVE SlotWillExpire'
  BY <1>3 DEF Leave, registryVars
<1>4. ASSUME NEW c \in Conns, HardLeave(c) PROVE SlotWillExpire'
  BY <1>4 DEF HardLeave, registryVars
<1>5. ASSUME NEW c \in Conns, ResumeTimerFires(c) PROVE SlotWillExpire'
  BY <1>5 DEF ResumeTimerFires, registryVars
<1>6. ASSUME NEW c \in Conns, finalizeLeave(c) PROVE SlotWillExpire'
  BY <1>6 DEF finalizeLeave, registryVars
<1>7. CASE cleanupMedia
  BY <1>7 DEF cleanupMedia, registryVars
<1>8. CASE Aside
  <2>1. registry' = registry \/ registry' = "removed" \/ registry = "absent"
    BY <1>8 DEF Aside, Create, Get, LeaveStale, EmptyTimerFires, ReapCheck,
                Remove, registryVars, vars
  <2> QED BY <1>8, <2>1, AsideStep
<1> QED BY <1>1, <1>2, <1>3, <1>4, <1>5, <1>6, <1>7, <1>8 DEF Next, Aside

(* The order absent, live, removed, cleaned is kept.                       *)
LEMMA RegistryStep == IInv /\ [Next]_vars => RegistryOrder'
<1> SUFFICES ASSUME IInv, [Next]_vars PROVE RegistryOrder'
  OBVIOUS
<1> USE DEF IInv, TypeOK, RegistryOrder, registryVars
<1>1. ASSUME NEW c \in Conns, JoinResume(c) \/ JoinFresh(c)
      PROVE RegistryOrder'
  BY <1>1 DEF JoinResume, JoinFresh, Register
<1>2. ASSUME NEW c \in Conns, Leave(c) \/ LeaveStale(c) \/ HardLeave(c)
      PROVE RegistryOrder'
  BY <1>2 DEF Leave, LeaveStale, HardLeave, roomVars
<1>3. ASSUME NEW c \in Conns, Create(c) \/ Get(c) PROVE RegistryOrder'
  BY <1>3 DEF Create, Get
<1>4. ASSUME NEW c \in Conns, ResumeTimerFires(c) \/ finalizeLeave(c)
      PROVE RegistryOrder'
  BY <1>4 DEF ResumeTimerFires, finalizeLeave, handlerVars
<1>5. CASE EmptyTimerFires \/ ReapCheck \/ Remove \/ cleanupMedia
           \/ UNCHANGED vars
  BY <1>5 DEF EmptyTimerFires, ReapCheck, Remove, cleanupMedia, vars,
              handlerVars, roomVars
<1> QED BY <1>1, <1>2, <1>3, <1>4, <1>5 DEF Next

(* A handler that returned stays so, under the ID it had.                  *)
LEMMA GoneStep ==
    ASSUME IInv, [Next]_vars, NEW i \in Conns, NEW c \in Gone(i)
    PROVE  c \in Gone(i)'
<1> USE DEF Gone, IInv, TypeOK, handlerVars
<1>1. ASSUME NEW d \in Conns, Create(d) \/ Get(d) \/ LeaveStale(d) PROVE c \in Gone(i)'
  BY <1>1 DEF Create, Get, LeaveStale
<1>2. ASSUME NEW d \in Conns, JoinResume(d) \/ JoinFresh(d) PROVE c \in Gone(i)'
  BY <1>2 DEF JoinResume, JoinFresh, Register
<1>3. ASSUME NEW d \in Conns, Leave(d) \/ HardLeave(d) PROVE c \in Gone(i)'
  BY <1>3 DEF Leave, HardLeave
<1>4. CASE UNCHANGED handlerVars BY <1>4
<1>5. ASSUME NEW d \in Conns, ResumeTimerFires(d) \/ finalizeLeave(d)
      PROVE  UNCHANGED handlerVars
  BY <1>5 DEF ResumeTimerFires, finalizeLeave
<1>6. CASE EmptyTimerFires \/ ReapCheck \/ Remove \/ cleanupMedia \/ UNCHANGED vars
  BY <1>6, <1>4 DEF EmptyTimerFires, ReapCheck, Remove, cleanupMedia, vars
<1> QED BY <1>1, <1>2, <1>3, <1>4, <1>5, <1>6 DEF Next

(* Only a drop makes a slot, and the one whose timer it overwrites or whose *)
(* callback is on its way was left by another connection.                  *)
LEMMA DropStep == IInv /\ [Next]_vars => SlotsComeFromDrops'
<1> SUFFICES ASSUME IInv, [Next]_vars, NEW i \in Conns
             PROVE  /\ (HasSlot(i) \/ expiring[i] > 0)' => Gone(i)' # {}
                    /\ (pending[i].timer \in {"armed", "stopped"} /\ expiring[i] > 0)'
                         => \E c, d \in Gone(i)' : c # d
  BY DEF SlotsComeFromDrops
<1>0. /\ HasSlot(i) \/ expiring[i] > 0 => Gone(i)' # {}
      /\ pending[i].timer \in {"armed", "stopped"} /\ expiring[i] > 0
           => \E c, d \in Gone(i)' : c # d
  BY GoneStep DEF IInv, SlotsComeFromDrops
<1> USE DEF IInv, TypeOK, Slots, NoSlot
<1>1. ASSUME NEW c \in Conns, JoinResume(c) \/ JoinFresh(c)
      PROVE  /\ HasSlot(i)' => pending'[i] = pending[i]
             /\ expiring' = expiring
  BY <1>1 DEF JoinResume, JoinFresh, Register
<1>2. ASSUME NEW c \in Conns, HardLeave(c)
      PROVE  /\ HasSlot(i)' => pending'[i] = pending[i]
             /\ expiring' = expiring
  BY <1>2 DEF HardLeave
<1>3. ASSUME NEW c \in Conns, finalizeLeave(c)
      PROVE  /\ HasSlot(i)' => pending'[i] = pending[i]
             /\ expiring'[i] \in Nat /\ expiring'[i] <= expiring[i]
  BY <1>3 DEF finalizeLeave
<1>4. ASSUME NEW c \in Conns, ResumeTimerFires(c), c # i
      PROVE  pending'[i] = pending[i] /\ expiring'[i] = expiring[i]
  BY <1>4 DEF ResumeTimerFires
<1>5. CASE ResumeTimerFires(i)
  <2>1. pending'[i].timer = "fired" /\ HasSlot(i) BY <1>5 DEF ResumeTimerFires
  <2> QED BY <1>0, <2>1
<1>6. CASE cleanupMedia
  <2>1. /\ expiring' = expiring /\ (HasSlot(i)' => HasSlot(i))
        /\ pending'[i].timer \in {"armed", "stopped"}
             => pending[i].timer \in {"armed", "stopped"}
    BY <1>6 DEF cleanupMedia
  <2> QED BY <1>0, <2>1
<1>7. ASSUME NEW c \in Conns, Leave(c), id[c] # i
      PROVE  pending'[i] = pending[i] /\ expiring'[i] = expiring[i]
  BY <1>7 DEF Leave
<1>8. ASSUME NEW c \in Conns, Leave(c), id[c] = i
      PROVE  c \in Gone(i)' /\ (expiring'[i] > 0 => \E d \in Gone(i)' : d # c)
  <2>1. c \in Gone(i)' /\ c \notin Gone(i) BY <1>8 DEF Leave, Gone
  <2>2. expiring'[i] > 0 => HasSlot(i) \/ expiring[i] > 0 BY <1>8 DEF Leave
  <2>3. HasSlot(i) \/ expiring[i] > 0 => \E d \in Gone(i) : d # c
    BY <2>1 DEF SlotsComeFromDrops
  <2> QED BY <2>1, <2>2, <2>3, GoneStep
<1>9. CASE Aside BY <1>9, <1>0, AsideStep
<1> QED BY <1>0, <1>1, <1>2, <1>3, <1>4, <1>5, <1>6, <1>7, <1>8, <1>9 DEF Next, Aside

(* The removal of an empty room stays under way.                           *)
LEMMA EmptyRoomStep == IInv /\ [Next]_vars => EmptyRoomIsScheduled'
<1> SUFFICES ASSUME IInv, [Next]_vars PROVE EmptyRoomIsScheduled'
  OBVIOUS
<1> USE NilAssumption DEF IInv, TypeOK, EmptyRoomIsScheduled, RegistryOrder,
        NoClients, registryVars
<1>1. ASSUME NEW c \in Conns, JoinResume(c) PROVE EmptyRoomIsScheduled'
  BY <1>1 DEF JoinResume, Register
<1>2. ASSUME NEW c \in Conns, JoinFresh(c) PROVE EmptyRoomIsScheduled'
  BY <1>2 DEF JoinFresh, Register
<1>3. ASSUME NEW c \in Conns, Leave(c) PROVE EmptyRoomIsScheduled'
  BY <1>3 DEF Leave, scheduleEmptyTimerLocked
<1>4. ASSUME NEW c \in Conns, HardLeave(c) PROVE EmptyRoomIsScheduled'
  BY <1>4 DEF HardLeave, scheduleEmptyTimerLocked
<1>5. ASSUME NEW c \in Conns, ResumeTimerFires(c) PROVE EmptyRoomIsScheduled'
  BY <1>5 DEF ResumeTimerFires
<1>6. ASSUME NEW c \in Conns, finalizeLeave(c) PROVE EmptyRoomIsScheduled'
  BY <1>6 DEF finalizeLeave, scheduleEmptyTimerLocked
<1>7. ASSUME NEW c \in Conns, Create(c) \/ Get(c) \/ LeaveStale(c)
      PROVE EmptyRoomIsScheduled'
  BY <1>7 DEF Create, Get, LeaveStale, roomVars, timerVars
<1>8. CASE EmptyTimerFires BY <1>8 DEF EmptyTimerFires, roomVars
<1>9. CASE ReapCheck BY <1>9 DEF ReapCheck, roomVars
<1>10. CASE Remove BY <1>10 DEF Remove, roomVars
<1>11. CASE cleanupMedia BY <1>11 DEF cleanupMedia
<1>12. CASE UNCHANGED vars BY <1>12 DEF vars, roomVars, timerVars
<1> QED BY <1>1, <1>2, <1>3, <1>4, <1>5, <1>6, <1>7, <1>8, <1>9, <1>10, <1>11,
           <1>12 DEF Next

-----------------------------------------------------------------------------
(* IInv holds in every state of every behaviour of the membership code.    *)
THEOREM Inductive == Spec => []IInv
<1>1. IInv /\ [Next]_vars => IInv'
  BY TypeStep, RegisteredStep, SeniorityStep, TokenStep, SlotStep, RegistryStep,
     EmptyRoomStep, DropStep DEF IInv
<1> QED BY InitIInv, <1>1, PTL DEF Spec

(* Types are respected: no counter of callbacks goes below zero.           *)
THEOREM TypeCorrect == Spec => []TypeOK
BY Inductive, PTL DEF IInv

(* room.clients holds only open connections, under the ID they carry.      *)
THEOREM OnlyLiveRegistered == Spec => []RegisteredIsLive
BY Inductive, PTL DEF IInv

(* promoteIfHostGone never has to break a tie between two Seqs.            *)
THEOREM StrictSeniority == Spec => []SeniorityIsStrict
BY Inductive, PTL DEF IInv

(* A member's token resumes that member as long as it is one.              *)
THEOREM TokensResume == Spec => []TokenResumesMember
BY Inductive, PTL DEF IInv

(* A slot has a timer or a finalizeLeave callback, until the room is gone. *)
THEOREM SlotsExpire == Spec => []SlotWillExpire
BY Inductive, PTL DEF IInv

(* An empty registered room has its removal under way.                     *)
THEOREM EmptyScheduled == Spec => []EmptyRoomIsScheduled
BY Inductive, PTL DEF IInv

(* A host that did not say bye keeps its role through its first grace: for *)
(* every number of connections, only an identity of which two connections  *)
(* have dropped can lose the role before its resume timer has fired.  The  *)
(* successor is the connected member with the least Seq.                   *)
THEOREM HostGrace == Spec => HostKeepsGrace
<1> DEFINE Old == \/ SaysBye(hostID) \/ GraceIsOver(hostID)
                  \/ clients[hostID] = Nil /\ \E c, d \in Gone(hostID) : c # d
                  \/ clients[hostID] # Nil /\ Gone(hostID) # {}
           New == /\ clients'[hostID'] # Nil
                  /\ \A k \in Conns : clients'[k] # Nil =>
                       seq[clients'[hostID']] <= seq[clients'[k]]
           Step == hostID # Nil /\ hostID' # hostID => Old /\ New
<1>1. ASSUME IInv, Next PROVE Step
  <2> USE <1>1 DEF IInv, TypeOK, NoSlot, roomVars
  <2>1. ASSUME NEW c \in Conns, Create(c) \/ Get(c) \/ LeaveStale(c) PROVE Step
    BY <2>1 DEF Create, Get, LeaveStale
  <2>2. ASSUME NEW c \in Conns, JoinResume(c) \/ JoinFresh(c) PROVE Step
    BY <2>2 DEF JoinResume, JoinFresh, Register
  <2>3. ASSUME NEW c \in Conns, Leave(c) \/ ResumeTimerFires(c) PROVE Step
    BY <2>3 DEF Leave, ResumeTimerFires
  <2>4. ASSUME NEW c \in Conns, HardLeave(c), hostID # Nil, hostID' # hostID
        PROVE  Old /\ New
    <3>1. hostID = id[c] /\ New BY <2>4 DEF HardLeave, promoteIfHostGone
    <3>2. SaysBye(hostID) BY <2>4, <3>1 DEF HardLeave, SaysBye
    <3> QED BY <3>1, <3>2
  <2>5. ASSUME NEW c \in Conns, finalizeLeave(c), hostID # Nil, hostID' # hostID
        PROVE  Old /\ New
    <3>1. hostID = c /\ HasSlot(c) /\ New /\ expiring[c] > 0
      BY <2>5 DEF finalizeLeave, promoteIfHostGone
    <3>2. Gone(c) # {} BY <3>1 DEF SlotsComeFromDrops
    <3>3. CASE pending[c].timer = "fired" BY <3>1, <3>2, <3>3 DEF GraceIsOver
    <3>4. CASE pending[c].timer \in {"armed", "stopped"}
      BY <3>1, <3>2, <3>4 DEF SlotsComeFromDrops
    <3> QED BY <3>1, <3>3, <3>4 DEF Slots
  <2>6. CASE EmptyTimerFires \/ ReapCheck \/ Remove \/ cleanupMedia
    BY <2>6 DEF EmptyTimerFires, ReapCheck, Remove, cleanupMedia
  <2> QED BY <2>1, <2>2, <2>3, <2>4, <2>5, <2>6 DEF Next
<1>2. IInv /\ [Next]_vars => [Step]_vars
  BY <1>1
<1> QED BY Inductive, <1>2, PTL DEF Spec, HostKeepsGrace

(* The role is orphaned only by a step after which nobody is connected:    *)
(* promoteIfHostGone is called wherever the last trace of a host goes.     *)
THEOREM HostLoss == Spec => HostLostOnlyWhenEmpty
<1> DEFINE Step == hostID # Nil /\ (clients[hostID] # Nil \/ HasSlot(hostID)) =>
             clients'[hostID'] # Nil \/ pending'[hostID'].timer # "none"
               \/ NoClients(clients')
<1>1. ASSUME IInv, Next PROVE Step
  <2> USE <1>1 DEF IInv, TypeOK, NoSlot, roomVars, HasSlot
  <2>1. ASSUME NEW c \in Conns, Create(c) \/ Get(c) \/ LeaveStale(c) PROVE Step
    BY <2>1 DEF Create, Get, LeaveStale, RegistryOrder
  <2>2. ASSUME NEW c \in Conns, JoinResume(c) \/ JoinFresh(c) PROVE Step
    <3>1. PICK i \in Conns : /\ clients' = [clients EXCEPT ![i] = c]
                             /\ \A k \in Conns \ {i} : pending'[k] = pending[k]
                             /\ hostID # Nil => hostID' = hostID
      <4>1. CASE JoinResume(c)
        BY <4>1, <2>2 DEF JoinResume, Register
      <4>2. CASE JoinFresh(c)
        BY <4>2, <2>2 DEF JoinFresh, Register
      <4> QED BY <2>2, <4>1, <4>2
    <3>2. c # Nil
      BY NilAssumption
    <3> QED BY <3>1, <3>2
  <2>3. ASSUME NEW c \in Conns, Leave(c) PROVE Step
    BY <2>3 DEF Leave, SlotOf, RegisteredIsLive
  <2>4. ASSUME NEW c \in Conns, ResumeTimerFires(c) PROVE Step
    BY <2>4 DEF ResumeTimerFires
  <2>5. ASSUME NEW c \in Conns, HardLeave(c) PROVE Step
    BY <2>5 DEF HardLeave, promoteIfHostGone, NoClients
  <2>6. ASSUME NEW c \in Conns, finalizeLeave(c) PROVE Step
    BY <2>6 DEF finalizeLeave, promoteIfHostGone, NoClients
  <2>7. CASE EmptyTimerFires \/ ReapCheck \/ Remove
    BY <2>7 DEF EmptyTimerFires, ReapCheck, Remove
  <2>8. CASE cleanupMedia
    <3>1. \A i \in Conns : pending[i].timer # "none" => pending'[i].timer # "none"
      BY <2>8 DEF cleanupMedia, Slots
    <3> QED BY <2>8, <3>1 DEF cleanupMedia
  <2> QED BY <2>1, <2>2, <2>3, <2>4, <2>5, <2>6, <2>7, <2>8 DEF Next
<1>2. IInv /\ [Next]_vars => [Step]_vars
  BY <1>1
<1> QED BY Inductive, <1>2, PTL DEF Spec, HostLostOnlyWhenEmpty

(* A connection leaves room.clients only by its own drop, by a bye for its *)
(* ID or by a join under its ID.                                           *)
THEOREM Evictions == Spec => DropEvictsOnlyItself
<1> DEFINE Step == \A i \in Conns :
             clients[i] # Nil /\ clients'[i] # clients[i] =>
               \/ current'[clients[i]] = "closed"
               \/ \E c \in Conns : current[c] = "room" /\ current'[c] = "none"
                                  /\ id[c] = i
               \/ \E c \in Conns : current[c] = "joining" /\ clients'[i] = c
<1>1. ASSUME IInv, Next PROVE Step
  <2> USE <1>1 DEF IInv, TypeOK
  <2>1. ASSUME NEW c \in Conns, JoinResume(c) \/ JoinFresh(c) PROVE Step
    BY <2>1 DEF JoinResume, JoinFresh, Register
  <2>2. ASSUME NEW c \in Conns, Leave(c) PROVE Step
    BY <2>2 DEF Leave
  <2>3. ASSUME NEW c \in Conns, HardLeave(c) PROVE Step
    BY <2>3 DEF HardLeave
  <2>4. CASE UNCHANGED clients
    BY <2>4
  <2>5. ASSUME NEW c \in Conns,
               Create(c) \/ Get(c) \/ LeaveStale(c) \/ ResumeTimerFires(c)
                 \/ finalizeLeave(c)
        PROVE UNCHANGED clients
    BY <2>5 DEF Create, Get, LeaveStale, ResumeTimerFires, finalizeLeave, roomVars
  <2>6. ASSUME EmptyTimerFires \/ ReapCheck \/ Remove \/ cleanupMedia
        PROVE UNCHANGED clients
    BY <2>6 DEF EmptyTimerFires, ReapCheck, Remove, cleanupMedia, roomVars
  <2> QED BY <2>1, <2>2, <2>3, <2>4, <2>5, <2>6 DEF Next
<1>2. IInv /\ [Next]_vars => [Step]_vars
  BY <1>1
<1> QED BY Inductive, <1>2, PTL DEF Spec, DropEvictsOnlyItself

-----------------------------------------------------------------------------
(* PERMISSIONS                                                             *)

(* The steps of Permissions are steps of Membership or leave it alone.     *)
LEMMA PermissionStep == [PermissionNext]_allVars => [Next]_vars
BY DEF PermissionNext, AskGated, Act, AskSettings, SetSettings, MembershipStep, allVars

GrantInv == IInv /\ GrantHolds /\ asking = [c \in Conns |-> asking[c]]

(* A connection with a request under way loses the role only together with *)
(* its place, or by the expiry of a slot that was there when it asked.     *)
LEMMA GrantKept ==
    ASSUME IInv, GrantHolds, MembershipStep, NEW c \in Conns, asking[c].as = "host"
    PROVE  \/ id'[c] = hostID' /\ ~(pending'[id'[c]].timer # "none")
           \/ clients'[id'[c]] # c \/ asking'[c].slot
<1> USE NilAssumption DEF NoSlot
<1>0. /\ asking' = asking /\ current'[c] = current[c] /\ Next /\ TypeOK /\ RegisteredIsLive
      /\ \/ id[c] = hostID /\ ~HasSlot(id[c])
         \/ clients[id[c]] # c
         \/ asking[c].slot
  <2>1. asking[c] # Quiet BY DEF Quiet
  <2> QED BY <2>1 DEF MembershipStep, permissionVars, GrantHolds, IInv
<1> USE <1>0 DEF TypeOK
<1>1. ASSUME NEW d \in Conns, JoinResume(d) \/ JoinFresh(d)
      PROVE  \/ id'[c] = hostID' /\ ~(pending'[id'[c]].timer # "none")
             \/ clients'[id'[c]] # c \/ asking'[c].slot
  <2>1. d # c /\ id'[c] = id[c] BY <1>1 DEF JoinResume, JoinFresh, Register
  <2>2. PICK i \in Conns : /\ clients' = [clients EXCEPT ![i] = d]
                           /\ pending' = pending \/ pending' = [pending EXCEPT ![i] = NoSlot]
                           /\ hostID # Nil => hostID' = hostID
    <3>1. CASE JoinResume(d) BY <1>1, <3>1 DEF JoinResume, Register
    <3>2. CASE JoinFresh(d) BY <1>1, <3>2 DEF JoinFresh, Register
    <3> QED BY <1>1, <3>1, <3>2
  <2>3. id[c] \in Conns /\ id[c] # Nil OBVIOUS
  <2> QED BY <2>1, <2>2, <2>3
<1>2. ASSUME NEW d \in Conns, Leave(d)
      PROVE  \/ id'[c] = hostID' /\ ~(pending'[id'[c]].timer # "none")
             \/ clients'[id'[c]] # c \/ asking'[c].slot
  <2>1. id' = id /\ hostID' = hostID /\ clients' = [clients EXCEPT ![id[d]] = Nil]
    BY <1>2 DEF Leave
  <2>2. pending' = [pending EXCEPT ![id[d]] = SlotOf(d)] BY <1>2 DEF Leave
  <2>3. id[c] \in Conns /\ id[d] \in Conns /\ c # Nil OBVIOUS
  <2> QED BY <2>1, <2>2, <2>3
<1>3. ASSUME NEW d \in Conns, HardLeave(d)
      PROVE  \/ id'[c] = hostID' /\ ~(pending'[id'[c]].timer # "none")
             \/ clients'[id'[c]] # c \/ asking'[c].slot
  <2>1. /\ id' = id /\ clients' = [clients EXCEPT ![id[d]] = Nil]
        /\ pending' = [pending EXCEPT ![id[d]] = NoSlot]
        /\ hostID # id[d] => hostID' = hostID
    BY <1>3 DEF HardLeave, promoteIfHostGone
  <2>2. id[c] \in Conns /\ id[d] \in Conns /\ c # Nil OBVIOUS
  <2> QED BY <2>1, <2>2
<1>4. ASSUME NEW d \in Conns, finalizeLeave(d)
      PROVE  \/ id'[c] = hostID' /\ ~(pending'[id'[c]].timer # "none")
             \/ clients'[id'[c]] # c \/ asking'[c].slot
  <2>1. id' = id /\ clients' = clients BY <1>4 DEF finalizeLeave, handlerVars
  <2>2. \/ UNCHANGED <<pending, hostID>>
        \/ /\ HasSlot(d) /\ pending' = [pending EXCEPT ![d] = NoSlot]
           /\ hostID # d => hostID' = hostID
    BY <1>4 DEF finalizeLeave, promoteIfHostGone
  <2>3. id[c] \in Conns OBVIOUS
  <2> QED BY <2>1, <2>2, <2>3
<1>5. ASSUME NEW d \in Conns, ResumeTimerFires(d)
      PROVE  \/ id'[c] = hostID' /\ ~(pending'[id'[c]].timer # "none")
             \/ clients'[id'[c]] # c \/ asking'[c].slot
  <2>1. /\ UNCHANGED <<id, clients, hostID>>
        /\ \A i \in Conns : pending[i].timer = "none" => pending'[i] = pending[i]
    BY <1>5 DEF ResumeTimerFires, handlerVars, Slots
  <2>2. id[c] \in Conns OBVIOUS
  <2> QED BY <2>1, <2>2
<1>6. CASE cleanupMedia
  <2>1. /\ UNCHANGED <<id, clients, hostID>>
        /\ \A i \in Conns : pending[i].timer = "none" => pending'[i] = pending[i]
    BY <1>6 DEF cleanupMedia, handlerVars
  <2>2. id[c] \in Conns OBVIOUS
  <2> QED BY <2>1, <2>2
<1>7. CASE Aside BY <1>7, AsideStep
<1> QED BY <1>1, <1>2, <1>3, <1>4, <1>5, <1>6, <1>7 DEF Next, Aside

(* What was allowed as host is done as host, also when other connections   *)
(* join, resume, leave and say bye between IsAllowed or IsHost and the     *)
(* change: for every number of connections and tokens.                     *)
THEOREM GrantsHold == PermissionSpec => []GrantHolds
<1>1. PermissionInit => GrantInv
  <2> SUFFICES ASSUME PermissionInit PROVE GrantInv
    OBVIOUS
  <2>1. Init /\ asking = [c \in Conns |-> Quiet] BY DEF PermissionInit
  <2>2. GrantHolds BY <2>1 DEF GrantHolds, Quiet
  <2> QED BY <2>1, <2>2, InitIInv DEF GrantInv
<1>2. GrantInv /\ [PermissionNext]_allVars => GrantInv'
  <2> SUFFICES ASSUME GrantInv, [PermissionNext]_allVars PROVE GrantInv'
    OBVIOUS
  <2>0. IInv /\ GrantHolds /\ asking = [c \in Conns |-> asking[c]] BY DEF GrantInv
  <2>1. IInv'
    <3>1. [Next]_vars BY PermissionStep
    <3> QED BY <2>0, <3>1, TypeStep, RegisteredStep, SeniorityStep, TokenStep, SlotStep,
               RegistryStep, EmptyRoomStep, DropStep DEF IInv
  <2>2. ASSUME NEW c \in Conns, NEW r, asking' = [asking EXCEPT ![c] = r], UNCHANGED vars,
               r.as = "host" => id[c] = hostID /\ r.slot = HasSlot(id[c])
        PROVE  GrantHolds' /\ asking' = [d \in Conns |-> asking'[d]]
    <3>1. UNCHANGED <<id, hostID, pending, clients>>
      BY <2>2 DEF vars, handlerVars, roomVars
    <3>2. asking'[c] = r /\ \A d \in Conns : d # c => asking'[d] = asking[d]
      BY <2>0, <2>2
    <3>3. ASSUME NEW d \in Conns, asking'[d].as = "host"
          PROVE  \/ id'[d] = hostID' /\ ~(pending'[id'[d]].timer # "none")
                 \/ clients'[id'[d]] # d \/ asking'[d].slot
      <4>1. CASE d = c BY <2>2, <3>1, <3>2, <3>3, <4>1
      <4>2. CASE d # c BY <2>0, <3>1, <3>2, <3>3, <4>2 DEF GrantHolds
      <4> QED BY <4>1, <4>2
    <3>4. asking' = [d \in Conns |-> asking'[d]] BY <2>0, <2>2
    <3> QED BY <3>3, <3>4 DEF GrantHolds
  <2>3. CASE \E c \in Conns : AskGated(c)
    <3>1. PICK c \in Conns : AskGated(c) BY <2>3
    <3>2. PICK as \in IsAllowed(id[c]) : asking' = [asking EXCEPT ![c] = Granted("act", as, c)]
      BY <3>1 DEF AskGated
    <3>3. as = "host" => id[c] = hostID BY DEF IsAllowed
    <3>4. UNCHANGED vars BY <3>1 DEF AskGated
    <3>5. Granted("act", as, c).as = as /\ Granted("act", as, c).slot = HasSlot(id[c])
      BY DEF Granted
    <3> QED BY <2>0, <2>1, <2>2, <3>2, <3>3, <3>4, <3>5 DEF GrantInv
  <2>4. CASE \E c \in Conns : AskSettings(c)
    <3>1. PICK c \in Conns : AskSettings(c) BY <2>4
    <3>2. /\ id[c] = hostID /\ UNCHANGED vars
          /\ asking' = [asking EXCEPT ![c] = Granted("settings", "host", c)]
      BY <3>1 DEF AskSettings, IsHost
    <3>3. Granted("settings", "host", c).slot = HasSlot(id[c]) BY DEF Granted
    <3> QED BY <2>0, <2>1, <2>2, <3>2, <3>3 DEF GrantInv
  <2>5. CASE \E c \in Conns : Act(c) \/ \E p \in Policies : SetSettings(c, p)
    <3>1. PICK c \in Conns : Act(c) \/ \E p \in Policies : SetSettings(c, p)
      BY <2>5
    <3>2. UNCHANGED vars /\ asking' = [asking EXCEPT ![c] = Quiet]
      BY <3>1 DEF Act, SetSettings
    <3>3. Quiet.as # "host" BY DEF Quiet
    <3> QED BY <2>0, <2>1, <2>2, <3>2, <3>3 DEF GrantInv
  <2>6. CASE MembershipStep
    <3>1. asking' = asking BY <2>6 DEF MembershipStep, permissionVars
    <3>2. GrantHolds' BY <2>0, <2>6, <3>1, GrantKept DEF GrantHolds
    <3> QED BY <2>0, <2>1, <3>1, <3>2 DEF GrantInv
  <2>7. CASE UNCHANGED allVars
    <3>1. UNCHANGED <<id, hostID, pending, clients, asking>>
      BY <2>7 DEF allVars, permissionVars, vars, handlerVars, roomVars
    <3>2. GrantHolds' BY <2>0, <3>1 DEF GrantHolds
    <3> QED BY <2>0, <2>1, <3>1, <3>2 DEF GrantInv
  <2> QED BY <2>3, <2>4, <2>5, <2>6, <2>7 DEF PermissionNext
<1>3. GrantInv => GrantHolds BY DEF GrantInv
<1> QED BY <1>1, <1>2, <1>3, PTL DEF PermissionSpec
=============================================================================
