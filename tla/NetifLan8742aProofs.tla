------------------------ MODULE NetifLan8742aProofs ------------------------
(***************************************************************************)
(* Proofs about the network-interface driver, for every set of clients,    *)
(* requests and addresses.                                                 *)
(***************************************************************************)
EXTENDS NetifLan8742a, TLAPS

(***************************************************************************)
(* A handler returns and goes on within its labels and replies.            *)
(***************************************************************************)
LEMMA GotoType ==
  ASSUME TypeOK, NEW c \in Clients, NEW l \in Labels, Goto(c, l)
  PROVE  /\ pc' \in [Clients -> Labels]
         /\ reply' \in [Clients -> Replies \cup Addresses \cup {NoAddress}]
  BY DEF TypeOK, Goto

\* A handler that returns leaves its types.
LEMMA ReturnType ==
  ASSUME TypeOK, NEW c \in Clients,
         NEW v \in Replies \cup Addresses \cup {NoAddress}, Return(c, v)
  PROVE  /\ pc' \in [Clients -> Labels]
         /\ reply' \in [Clients -> Replies \cup Addresses \cup {NoAddress}]
  BY DEF TypeOK, Return, Labels

\* A call of initialize_ethernet stays within the labels.
LEMMA InitializeType ==
  ASSUME TypeOK, NEW c \in Clients, NEW who \in Callers, Initialize(c, who)
  PROVE  /\ pc' \in [Clients -> Labels]
         /\ reply' \in [Clients -> Replies \cup Addresses \cup {NoAddress}]
         /\ caller' \in [Clients -> Callers]
  BY GotoType DEF TypeOK, Initialize, Labels

\* So does the return from it, to whichever request called it.
LEMMA ResumeType ==
  ASSUME TypeOK, NEW c \in Clients,
         NEW v \in Replies \cup Addresses \cup {NoAddress}, Resume(c, v)
  PROVE  /\ pc' \in [Clients -> Labels]
         /\ reply' \in [Clients -> Replies \cup Addresses \cup {NoAddress}]
         /\ caller' \in [Clients -> Callers]
  <1>1. caller' \in [Clients -> Callers]
    BY DEF TypeOK, Resume, Callers
  <1>2. CASE Return(c, v)
    BY <1>1, <1>2, ReturnType
  <1>3. CASE Goto(c, "up_read")
    BY <1>1, <1>3, GotoType DEF Labels
  <1>4. CASE Goto(c, "answer")
    BY <1>1, <1>4, GotoType DEF Labels
  <1> QED  BY <1>2, <1>3, <1>4 DEF Resume

(***************************************************************************)
(* A step of a handler keeps every variable in its type.                   *)
(***************************************************************************)
LEMMA StepType ==
  ASSUME TypeOK, NEW c \in Clients, Step(c)
  PROVE  TypeOK'
  <1>1. CASE SetAttrInit(c)
    BY <1>1, InitializeType DEF SetAttrInit, TypeOK, driver, hardware, Callers
  <1>2. CASE SetAttrAddress(c)
    BY <1>2, ReturnType DEF SetAttrAddress, TypeOK, hardware, locals, Replies
  <1>3. CASE SetAttrLinkUp(c)
    BY <1>3, GotoType, InitializeType DEF SetAttrLinkUp, TypeOK, driver, hardware, Labels, Callers
  <1>4. CASE InitEnter(c)
    BY <1>4, GotoType, ResumeType DEF InitEnter, TypeOK, driver, hardware, Labels, Replies
  <1>5. CASE Configure(c)
    BY <1>5, GotoType, ResumeType DEF Configure, StartMac, StartFails, TypeOK, driver, Labels, Replies, ControlBits
  <1>6. CASE Status(c)
    BY <1>6, GotoType DEF Status, TypeOK, driver, hardware, locals, Labels
  <1>7. CASE Fallback(c)
    BY <1>7, GotoType, ResumeType DEF Fallback, StartMac, StartFails, TypeOK, driver, Labels, Replies, ControlBits
  <1>8. CASE Recheck(c)
    BY <1>8, GotoType, ResumeType DEF Recheck, TypeOK, driver, hardware, Labels, Replies
  <1>9. CASE UpRead(c)
    BY <1>9, GotoType, ReturnType DEF UpRead, GivesUp, TypeOK, driver, hardware, Labels, Replies
  <1>10. CASE UpWrite(c)
    BY <1>10, GotoType, ReturnType DEF UpWrite, GivesUp, Written, TypeOK, driver, Labels, Replies, ControlBits
  <1>11. CASE UpStop(c)
    BY <1>11, GotoType, ReturnType DEF UpStop, GivesUp, StopFails, TypeOK, driver, locals, Labels, Replies
  <1>12. CASE Poll(c)
    BY <1>12, GotoType, InitializeType DEF Poll, TypeOK, driver, hardware, Labels, Callers
  <1>13. CASE Answer(c)
    BY <1>13, ReturnType DEF Answer, TypeOK, driver, hardware, locals, Replies
  <1>14. CASE DownRead(c)
    BY <1>14, GotoType DEF DownRead, DownGivesUp, TypeOK, driver, hardware, Labels
  <1>15. CASE DownWrite(c)
    BY <1>15, GotoType DEF DownWrite, DownGivesUp, Written, TypeOK, driver, Labels, ControlBits
  <1>16. CASE DownStop(c)
    BY <1>16, GotoType DEF DownStop, DownGivesUp, StopFails, TypeOK, driver, locals, Labels
  <1>17. CASE Forward(c)
    BY <1>17, ReturnType DEF Forward, StartMac, StartFails, Written, TypeOK, driver, locals,
       Replies, ControlBits
  <1>18. CASE ChipUp(c)
    BY <1>18, GotoType DEF ChipUp, TypeOK, hardware, locals, LinkStates, Labels
  <1>19. CASE LinkUp(c)
    BY <1>19, ResumeType DEF LinkUp, TypeOK, hardware, LinkStates, Replies
  <1>20. CASE LinkDownFails(c)
    BY <1>20, ReturnType DEF LinkDownFails, TypeOK, hardware, locals, LinkStates, Replies
  <1> QED  BY <1>1, <1>2, <1>3, <1>4, <1>5, <1>6, <1>7, <1>8, <1>9, <1>10, <1>11, <1>12, <1>13, <1>14, <1>15, <1>16, <1>17, <1>18, <1>19, <1>20 DEF Step

(***************************************************************************)
(* Every step, of a handler or of the environment, keeps the types.        *)
(***************************************************************************)
LEMMA NextType ==
  ASSUME TypeOK, [Next]_vars
  PROVE  TypeOK'
  <1>1. ASSUME NEW c \in Clients, Ioctl(c)
        PROVE  TypeOK'
    BY <1>1, RequestsAssumption
       DEF Ioctl, TypeOK, driver, hardware, Labels, Replies
  <1>2. ASSUME NEW c \in Clients, Query(c)
        PROVE  TypeOK'
    BY <1>2, ReturnType DEF Query, TypeOK, driver, Replies
  <1>3. ASSUME NEW c \in Clients, OtherRequest(c)
        PROVE  TypeOK'
    BY <1>3, GotoType DEF OtherRequest, TypeOK, driver, hardware, Labels
  <1>4. CASE Cable
    BY <1>4 DEF Cable, TypeOK, driver, locals
  <1>5. CASE Settle
    BY <1>5 DEF Settle, TypeOK, driver, locals
  <1>6. CASE Reset
    BY <1>6 DEF Reset, TypeOK, LinkStates, Labels, Callers, Replies
  <1>7. CASE UNCHANGED vars
    BY <1>7 DEF vars, TypeOK, driver, hardware, locals
  <1> QED
    BY <1>1, <1>2, <1>3, <1>4, <1>5, <1>6, <1>7, StepType DEF Next

(***************************************************************************)
(* Every reachable state is type correct: no handler, alone or interleaved *)
(* with others, leaves a link state, a label or a reply the code does not  *)
(* know.                                                                   *)
(***************************************************************************)
THEOREM TypeCorrect == Spec => []TypeOK
  <1>1. Init => TypeOK
    BY BooleanAssumption DEF Init, TypeOK, LinkStates, Labels, Callers, Replies
  <1>2. TypeOK /\ [Next]_vars => TypeOK'
    BY NextType
  <1> QED  BY <1>1, <1>2, PTL DEF Spec

----------------------------------------------------------------------------
(***************************************************************************)
(* A step of one client moves no other client and touches no other         *)
(* client's copy of the register.                                          *)
(***************************************************************************)
LEMMA OthersStay ==
  ASSUME TypeOK, NEW c \in Clients, Step(c), NEW d \in Clients, d # c
  PROVE  pc'[d] = pc[d] /\ eth_register'[d] = eth_register[d]
  <1>1. ASSUME NEW l, Goto(c, l)
        PROVE  pc'[d] = pc[d]
    BY <1>1 DEF TypeOK, Goto
  <1>2. ASSUME NEW v, Return(c, v)
        PROVE  pc'[d] = pc[d]
    BY <1>2 DEF TypeOK, Return
  <1>3. ASSUME NEW v, Resume(c, v)
        PROVE  pc'[d] = pc[d]
    BY <1>1, <1>2, <1>3 DEF Resume
  <1>4. pc'[d] = pc[d]
    <2>1. CASE SetAttrInit(c) \/ SetAttrLinkUp(c) \/ Poll(c)
      BY <1>1, <2>1 DEF SetAttrInit, SetAttrLinkUp, Poll, Initialize
    <2>2. CASE SetAttrAddress(c) \/ Answer(c) \/ Forward(c)
      BY <1>2, <2>2 DEF SetAttrAddress, Answer, Forward
    <2>3. CASE InitEnter(c) \/ Configure(c) \/ ChipUp(c) \/ Status(c) \/ Fallback(c) \/ Recheck(c) \/ LinkUp(c)
      BY <1>1, <1>3, <2>3 DEF InitEnter, Configure, ChipUp, Status, Fallback, Recheck, LinkUp
    <2>4. CASE UpRead(c) \/ UpWrite(c) \/ UpStop(c)
      BY <1>1, <1>2, <2>4 DEF UpRead, UpWrite, UpStop, GivesUp
    <2>5. CASE DownRead(c) \/ DownWrite(c) \/ DownStop(c) \/ LinkDownFails(c)
      BY <1>1, <1>2, <2>5 DEF DownRead, DownWrite, DownStop, LinkDownFails, DownGivesUp
    <2> QED  BY <2>1, <2>2, <2>3, <2>4, <2>5 DEF Step
  <1>5. eth_register'[d] = eth_register[d]
    <2>1. CASE UpRead(c) \/ UpWrite(c) \/ DownRead(c) \/ DownWrite(c)
      BY <2>1 DEF UpRead, UpWrite, DownRead, DownWrite, TypeOK
    <2>2. CASE UNCHANGED eth_register
      BY <2>2
    <2> QED
      BY <2>1, <2>2
         DEF Step, SetAttrInit, SetAttrAddress, SetAttrLinkUp, InitEnter, Configure, ChipUp,
             Status, Fallback, Recheck, LinkUp, UpStop, Poll, Answer, DownStop, LinkDownFails, Forward, locals
  <1> QED  BY <1>4, <1>5

(***************************************************************************)
(* The inductive strengthening of ConfiguredBeforeUse: a handler past the  *)
(* configuration sets the link state later without looking at it again, so *)
(* the invariant must cover it while it is on its way.                     *)
(***************************************************************************)
PastConfigure == {"chip_up", "status", "fallback", "recheck", "link_up"}
ConfiguredInv ==
  /\ TypeOK
  /\ ConfiguredBeforeUse
  /\ \A c \in Clients : pc[c] \in PastConfigure => mac # "reset"

\* No step of a handler takes a chip for up that is not configured.
LEMMA StepConfigured ==
  ASSUME ConfiguredInv, NEW c \in Clients, Step(c)
  PROVE  ConfiguredInv'
  <1>1. TypeOK'
    BY StepType DEF ConfiguredInv
  <1>2. mac # "reset" => mac' # "reset"
    BY DEF Step, SetAttrInit, SetAttrAddress, SetAttrLinkUp, InitEnter, Configure, ChipUp,
           Status, Fallback, Recheck, LinkUp, UpRead, UpWrite, UpStop, Poll, Answer, DownRead,
           DownWrite, DownStop, LinkDownFails, Forward, StartMac, StartFails, StopFails, driver,
           hardware
  <1>3. \A d \in Clients : d # c => pc'[d] = pc[d]
    BY OthersStay DEF ConfiguredInv
  <1>4. CASE Configure(c)
    <2>1. CASE StartMac(FALSE)
      BY <2>1, <1>1 DEF StartMac, ConfiguredInv, ConfiguredBeforeUse
    <2>2. CASE StartFails /\ Resume(c, "ERR")
      <3>1. pc'[c] \notin PastConfigure
        BY <2>2 DEF Resume, Return, Goto, ConfiguredInv, TypeOK, PastConfigure
      <3>2. UNCHANGED is_initialized
        BY <1>4 DEF Configure, driver
      <3> QED
        BY <2>2, <3>1, <3>2, <1>1, <1>2, <1>3 DEF ConfiguredInv, ConfiguredBeforeUse
    <2> QED  BY <1>4, <2>1, <2>2 DEF Configure
  <1>5. CASE ChipUp(c) \/ Status(c) \/ Fallback(c) \/ Recheck(c) \/ LinkUp(c)
    <2>1. mac # "reset"
      BY <1>5 DEF ChipUp, Status, Fallback, Recheck, LinkUp, At, ConfiguredInv, PastConfigure
    <2> QED  BY <2>1, <1>1, <1>2 DEF ConfiguredInv, ConfiguredBeforeUse
  <1>6. CASE InitEnter(c)
    <2>1. pc'[c] \in PastConfigure => mac # "reset"
      BY <1>6 DEF InitEnter, Resume, Return, Goto, ConfiguredInv, TypeOK,
                  PastConfigure, ConfiguredBeforeUse, LinkStates,
                  STATE_UNINITIALIZED, STATE_CHIP_UP
    <2>2. UNCHANGED <<is_initialized, mac>>
      BY <1>6 DEF InitEnter, driver, hardware
    <2> QED
      BY <2>1, <2>2, <1>1, <1>3 DEF ConfiguredInv, ConfiguredBeforeUse
  <1>7. CASE UpRead(c) \/ UpWrite(c) \/ UpStop(c) \/ DownRead(c) \/ DownWrite(c) \/ DownStop(c) \/ LinkDownFails(c)
    <2>1. pc'[c] \notin PastConfigure
      BY <1>7 DEF UpRead, UpWrite, UpStop, DownRead, DownWrite, DownStop,
                  LinkDownFails, DownGivesUp, GivesUp, Return, Goto, ConfiguredInv, TypeOK,
                  PastConfigure
    <2>2. is_initialized' \in {is_initialized, STATE_UNINITIALIZED}
      BY <1>7 DEF UpRead, UpWrite, UpStop, DownRead, DownWrite, DownStop,
                  LinkDownFails, driver
    <2> QED
      BY <2>1, <2>2, <1>1, <1>2, <1>3 DEF ConfiguredInv, ConfiguredBeforeUse
  <1>8. CASE SetAttrInit(c) \/ SetAttrAddress(c) \/ SetAttrLinkUp(c) \/ Poll(c)
             \/ Answer(c) \/ Forward(c)
    <2>1. pc'[c] \notin PastConfigure
      BY <1>8 DEF SetAttrInit, SetAttrAddress, SetAttrLinkUp, Poll, Answer, Forward,
                  Initialize, Return, Goto, ConfiguredInv, TypeOK, PastConfigure
    <2>2. UNCHANGED is_initialized
      BY <1>8 DEF SetAttrInit, SetAttrAddress, SetAttrLinkUp, Poll, Answer, Forward,
                  driver
    <2> QED
      BY <2>1, <2>2, <1>1, <1>2, <1>3 DEF ConfiguredInv, ConfiguredBeforeUse
  <1> QED  BY <1>4, <1>5, <1>6, <1>7, <1>8 DEF Step

(***************************************************************************)
(* Whether or not the kernel serializes ioctls, the driver never takes a   *)
(* chip for up that has not been configured since the last reset.          *)
(***************************************************************************)
THEOREM ConfiguredAlways == Spec => []ConfiguredBeforeUse
  <1>1. Init => ConfiguredInv
    <2> SUFFICES ASSUME Init PROVE ConfiguredInv
      OBVIOUS
    <2>1. TypeOK
      BY BooleanAssumption DEF Init, TypeOK, LinkStates, Labels, Callers, Replies
    <2> QED  BY <2>1 DEF Init, ConfiguredInv, ConfiguredBeforeUse, PastConfigure
  <1>2. ConfiguredInv /\ [Next]_vars => ConfiguredInv'
    <2> SUFFICES ASSUME ConfiguredInv, [Next]_vars
                 PROVE  ConfiguredInv'
      OBVIOUS
    <2>1. TypeOK'
      BY NextType DEF ConfiguredInv
    <2>2. ASSUME NEW c \in Clients, Ioctl(c) \/ Query(c) \/ OtherRequest(c)
          PROVE  ConfiguredInv'
      <3>1. UNCHANGED <<is_initialized, mac>>
        BY <2>2 DEF Ioctl, Query, OtherRequest, driver, hardware
      <3>2. \A d \in Clients : pc'[d] \in PastConfigure => pc'[d] = pc[d]
        BY <2>2 DEF Ioctl, Query, OtherRequest, Return, Goto, ConfiguredInv, TypeOK,
                    PastConfigure
      <3> QED
        BY <2>1, <3>1, <3>2 DEF ConfiguredInv, ConfiguredBeforeUse
    <2>3. CASE Reset
      BY <2>1, <2>3 DEF Reset, ConfiguredInv, ConfiguredBeforeUse, PastConfigure
    <2>4. CASE Cable \/ Settle \/ UNCHANGED vars
      BY <2>1, <2>4 DEF Cable, Settle, vars, driver, hardware, ConfiguredInv,
                        ConfiguredBeforeUse
    <2> QED  BY <2>2, <2>3, <2>4, StepConfigured DEF Next
  <1>3. ConfiguredInv => ConfiguredBeforeUse
    BY DEF ConfiguredInv
  <1> QED  BY <1>1, <1>2, <1>3, PTL DEF Spec

----------------------------------------------------------------------------
(***************************************************************************)
(* With ioctls serialized: at most one client is inside the handler.       *)
(***************************************************************************)
Exclusion == \A c, d \in Clients : c # d => At(c, "idle") \/ At(d, "idle")

\* A chip about to be remembered as up has just been started.
StartedAfresh == \A c \in Clients : pc[c] = "chip_up" => ~stopFailed

\* The inductive strengthening of the properties that need serialization.
SerialInv ==
  /\ TypeOK
  /\ Exclusion
  /\ FailedStopForgotten
  /\ StartedAfresh
  /\ TestsStillHold

(***************************************************************************)
(* While one client is inside, the obligations of SerialInv are about it   *)
(* alone: this is what exclusion buys.                                     *)
(***************************************************************************)
LEMMA InsideAlone ==
  ASSUME SerialInv, TypeOK', NEW c \in Clients, Step(c),
         FailedStopForgotten',
         pc'[c] = "chip_up" => ~stopFailed',
         pc'[c] \in {"configure", "chip_up"} => is_initialized' = STATE_UNINITIALIZED,
         pc'[c] \in {"status", "fallback", "recheck", "link_up"} =>
           is_initialized' = STATE_CHIP_UP
  PROVE  SerialInv'
  <1>1. pc[c] # "idle"
    BY DEF Step, At, SetAttrInit, SetAttrAddress, SetAttrLinkUp, InitEnter, Configure, ChipUp,
           Status, Fallback, Recheck, LinkUp, UpRead, UpWrite, UpStop, Poll, Answer, DownRead,
           DownWrite, DownStop, LinkDownFails, Forward
  <1>2. \A d \in Clients : d # c => pc'[d] = "idle"
    BY <1>1, OthersStay DEF SerialInv, Exclusion, At
  <1>3. Exclusion'
    BY <1>2 DEF Exclusion, At
  <1>4. StartedAfresh' /\ TestsStillHold'
    BY <1>2 DEF StartedAfresh, TestsStillHold
  <1> QED  BY <1>3, <1>4 DEF SerialInv

\* A step of the one client inside keeps what SerialInv says of it.
LEMMA StepSerial ==
  ASSUME SerialInv, NEW c \in Clients, Step(c)
  PROVE  SerialInv'
  <1> USE DEF SerialInv
  <1>0. TypeOK'
    BY StepType
  <1>1. CASE SetAttrInit(c) \/ SetAttrAddress(c) \/ SetAttrLinkUp(c) \/ Poll(c)
             \/ Answer(c) \/ Forward(c)
    <2>1. pc'[c] \notin {"configure"} \cup PastConfigure
      BY <1>1 DEF SetAttrInit, SetAttrAddress, SetAttrLinkUp, Poll, Answer, Forward,
                  Initialize, Return, Goto, TypeOK, PastConfigure
    <2>2. UNCHANGED is_initialized /\ (stopFailed' => stopFailed)
      BY <1>1 DEF SetAttrInit, SetAttrAddress, SetAttrLinkUp, Poll, Answer, Forward,
                  StartMac, StartFails, driver
    <2> QED
      BY <1>0, <2>1, <2>2, InsideAlone DEF FailedStopForgotten, PastConfigure
  <1>2. CASE InitEnter(c)
    <2>1. UNCHANGED <<is_initialized, stopFailed>>
      BY <1>2 DEF InitEnter, driver
    <2>2. /\ pc'[c] \notin {"chip_up", "fallback", "recheck", "link_up"}
          /\ pc'[c] = "configure" => is_initialized = STATE_UNINITIALIZED
          /\ pc'[c] = "status" => is_initialized = STATE_CHIP_UP
      BY <1>2 DEF InitEnter, Resume, Return, Goto, TypeOK
    <2> QED
      BY <1>0, <2>1, <2>2, InsideAlone DEF FailedStopForgotten
  <1>3. CASE Configure(c)
    <2>0. is_initialized' = STATE_UNINITIALIZED
      BY <1>3 DEF Configure, At, TestsStillHold, driver
    <2>1. CASE StartMac(FALSE) /\ Goto(c, "chip_up")
      <3>1. pc'[c] = "chip_up"
        BY <2>1 DEF Goto, TypeOK
      <3> QED
        BY <1>0, <2>0, <2>1, <3>1, InsideAlone DEF StartMac, FailedStopForgotten
    <2>2. CASE StartFails /\ Resume(c, "ERR")
      <3>1. pc'[c] \in {"idle", "up_read", "answer"}
        BY <2>2 DEF Resume, Return, Goto, TypeOK
      <3> QED
        BY <1>0, <2>0, <2>2, <3>1, InsideAlone DEF FailedStopForgotten
    <2> QED  BY <1>3, <2>1, <2>2 DEF Configure
  <1>4. CASE ChipUp(c)
    <2>1. ~stopFailed'
      BY <1>4 DEF ChipUp, At, StartedAfresh
    <2>2. pc'[c] = "status" /\ is_initialized' = STATE_CHIP_UP
      BY <1>4 DEF ChipUp, Goto, TypeOK
    <2> QED  BY <1>0, <2>1, <2>2, InsideAlone DEF FailedStopForgotten
  <1>5. CASE Status(c) \/ Fallback(c) \/ Recheck(c) \/ LinkUp(c)
    <2>1. is_initialized = STATE_CHIP_UP /\ ~stopFailed
      <3>1. pc[c] \in {"status", "fallback", "recheck", "link_up"}
        BY <1>5 DEF Status, Fallback, Recheck, LinkUp, At
      <3>2. is_initialized = STATE_CHIP_UP
        BY <3>1 DEF TestsStillHold
      <3> QED
        BY <3>2 DEF FailedStopForgotten, STATE_CHIP_UP, STATE_UNINITIALIZED
    <2>2. ~stopFailed'
      BY <1>5, <2>1 DEF Status, Fallback, Recheck, LinkUp, StartMac, StartFails
    <2>3. /\ pc'[c] \in {"fallback", "recheck", "link_up", "idle", "up_read", "answer"}
          /\ pc'[c] \in {"fallback", "recheck", "link_up"} => UNCHANGED is_initialized
      BY <1>5 DEF Status, Fallback, Recheck, LinkUp, Resume, Return, Goto, TypeOK, driver
    <2> QED
      BY <1>0, <2>1, <2>2, <2>3, InsideAlone DEF FailedStopForgotten
  <1>6. CASE UpRead(c) \/ UpWrite(c) \/ UpStop(c)
    <2>1. UNCHANGED <<is_initialized, stopFailed>>
      BY <1>6 DEF UpRead, UpWrite, UpStop, driver
    <2>2. pc'[c] \in {"up_write", "up_stop", "poll", "idle"}
      BY <1>6 DEF UpRead, UpWrite, UpStop, GivesUp, Return, Goto, TypeOK
    <2> QED
      BY <1>0, <2>1, <2>2, InsideAlone DEF FailedStopForgotten
  <1>7. CASE DownRead(c) \/ DownWrite(c) \/ DownStop(c) \/ LinkDownFails(c)
    <2>1. FailedStopForgotten'
      BY <1>7 DEF DownRead, DownWrite, DownStop, LinkDownFails, driver, FailedStopForgotten
    <2>2. pc'[c] \in {"down_write", "down_stop", "down_failed", "forward", "idle"}
      BY <1>7 DEF DownRead, DownWrite, DownStop, LinkDownFails, DownGivesUp, Return, Goto,
                  TypeOK
    <2> QED
      BY <1>0, <2>1, <2>2, InsideAlone
  <1> QED  BY <1>1, <1>2, <1>3, <1>4, <1>5, <1>6, <1>7 DEF Step

(***************************************************************************)
(* A client that enters the handler is alone in it.                        *)
(***************************************************************************)
LEMMA EnterSerial ==
  ASSUME Serialized, SerialInv, NEW c \in Clients,
         Ioctl(c) \/ Query(c) \/ OtherRequest(c)
  PROVE  SerialInv'
  <1>1. TypeOK'
    BY NextType DEF SerialInv, Next
  <1>2. \A d \in Clients : pc[d] = "idle"
    BY DEF Ioctl, Query, OtherRequest, MayCall, At
  <1>3. /\ pc'[c] \in {"idle", "setattr", "forward"}
        /\ \A d \in Clients : d # c => pc'[d] = "idle"
    BY <1>2 DEF Ioctl, Query, OtherRequest, Return, Goto, SerialInv, TypeOK
  <1>4. UNCHANGED <<is_initialized, stopFailed>>
    BY DEF Ioctl, Query, OtherRequest, driver
  <1>5. Exclusion' /\ StartedAfresh' /\ TestsStillHold'
    BY <1>3 DEF Exclusion, At, StartedAfresh, TestsStillHold
  <1> QED
    BY <1>1, <1>4, <1>5 DEF SerialInv, FailedStopForgotten

\* SerialInv is invariant when the kernel serializes ioctls.
LEMMA SerialInduction ==
  ASSUME Serialized
  PROVE  Spec => []SerialInv
  <1>1. Init => SerialInv
    <2> SUFFICES ASSUME Init PROVE SerialInv
      OBVIOUS
    <2>1. TypeOK
      BY BooleanAssumption DEF Init, TypeOK, LinkStates, Labels, Callers, Replies
    <2> QED
      BY <2>1 DEF Init, SerialInv, Exclusion, At, FailedStopForgotten, StartedAfresh,
                  TestsStillHold
  <1>2. SerialInv /\ [Next]_vars => SerialInv'
    <2> SUFFICES ASSUME SerialInv, [Next]_vars
                 PROVE  SerialInv'
      OBVIOUS
    <2>1. TypeOK'
      BY NextType DEF SerialInv
    <2>2. CASE Reset
      BY <2>1, <2>2 DEF Reset, SerialInv, Exclusion, At, FailedStopForgotten,
                        StartedAfresh, TestsStillHold
    <2>3. CASE Cable \/ Settle \/ UNCHANGED vars
      BY <2>1, <2>3 DEF Cable, Settle, vars, driver, hardware, locals, SerialInv,
                        Exclusion, At, FailedStopForgotten, StartedAfresh, TestsStillHold
    <2> QED  BY <2>2, <2>3, StepSerial, EnterSerial DEF Next
  <1> QED  BY <1>1, <1>2, PTL DEF Spec

(***************************************************************************)
(* A SET_LINK_DOWN that failed is never papered over by a remembered link  *)
(* state, provided the kernel serializes ioctls.                           *)
(***************************************************************************)
THEOREM FailedStopIsForgotten ==
  ASSUME Serialized
  PROVE  Spec => []FailedStopForgotten
  <1>1. SerialInv => FailedStopForgotten
    BY DEF SerialInv
  <1> QED  BY <1>1, SerialInduction, PTL

(***************************************************************************)
(* No initialisation works on an outdated test: what it found at its start *)
(* is so until it has set the link state, provided the kernel serializes   *)
(* ioctls.                                                                 *)
(***************************************************************************)
THEOREM InitialisationsAreCurrent ==
  ASSUME Serialized
  PROVE  Spec => []TestsStillHold
  <1>1. SerialInv => TestsStillHold
    BY DEF SerialInv
  <1> QED  BY <1>1, SerialInduction, PTL

----------------------------------------------------------------------------
(***************************************************************************)
(* Serialized or not, a PHY that was powered is powered down only by a     *)
(* SET_LINK_DOWN or by a request handed on to the MAC driver: the copy a   *)
(* SET_LINK_UP writes back, however stale, has power-down cleared, and a   *)
(* start leaves auto-negotiation alone in the register.  No invariant is   *)
(* needed: this is so in every state.                                      *)
(***************************************************************************)
THEOREM PhyIsKeptPowered == Spec => PhyStaysPowered
  <1> DEFINE Kept == "power_down" \notin control /\ "power_down" \in control' =>
                       \E c \in Clients : DownWrite(c) \/ Forward(c)
  <1>1. [Next]_vars => Kept
    <2> SUFFICES ASSUME [Next]_vars, "power_down" \notin control, "power_down" \in control'
                 PROVE  \E c \in Clients : DownWrite(c) \/ Forward(c)
      OBVIOUS
    <2>1. ~(Cable \/ Settle \/ Reset \/ UNCHANGED vars)
      BY DEF Cable, Settle, Reset, vars, hardware
    <2>2. \A c \in Clients : ~(Ioctl(c) \/ Query(c) \/ OtherRequest(c))
      BY DEF Ioctl, Query, OtherRequest, hardware
    <2>3. PICK c \in Clients : Step(c)
      BY <2>1, <2>2 DEF Next
    <2>4. ~(Configure(c) \/ Fallback(c))
      BY DEF Configure, Fallback, StartMac, StartFails
    <2>5. ~UpWrite(c)
      BY DEF UpWrite, Written
    <2> QED
      BY <2>3, <2>4, <2>5 DEF Step, SetAttrInit, SetAttrAddress, SetAttrLinkUp, InitEnter, ChipUp,
         Status, Recheck, LinkUp, UpRead, UpStop, Poll, Answer, DownRead, DownStop,
         LinkDownFails, hardware
  <1> QED  BY <1>1, PTL DEF Spec, PhyStaysPowered

----------------------------------------------------------------------------
(***************************************************************************)
(* A device without a configuration: no handler gets past the test of      *)
(* initialize_ethernet, so that the driver never tries a start of its own. *)
(***************************************************************************)
UnconfiguredInv ==
  /\ TypeOK
  /\ ~has_config =>
       /\ is_initialized = STATE_UNINITIALIZED
       /\ \A c \in Clients : pc[c] \notin {"configure"} \cup PastConfigure
       /\ \A c \in Clients : reply[c] # "1"

LEMMA StepUnconfigured ==
  ASSUME UnconfiguredInv, NEW c \in Clients, Step(c)
  PROVE  UnconfiguredInv'
  <1>1. TypeOK'
    BY StepType DEF UnconfiguredInv
  <1>2. has_config' = has_config
    BY DEF Step, SetAttrInit, SetAttrAddress, SetAttrLinkUp, InitEnter, Configure, ChipUp, Status,
           Fallback, Recheck, LinkUp, UpRead, UpWrite, UpStop, Poll, Answer, DownRead, DownWrite,
           DownStop, LinkDownFails, Forward, hardware
  <1> SUFFICES ASSUME ~has_config
               PROVE  /\ is_initialized' = STATE_UNINITIALIZED
                      /\ pc'[c] \notin {"configure"} \cup PastConfigure
                      /\ \A d \in Clients : reply'[d] # "1"
    BY <1>1, <1>2, OthersStay DEF UnconfiguredInv
  <1>3. /\ is_initialized = STATE_UNINITIALIZED
        /\ pc[c] \notin {"configure"} \cup PastConfigure
        /\ \A d \in Clients : reply[d] # "1"
        /\ reply \in [Clients -> Replies \cup Addresses \cup {NoAddress}] /\ pc \in [Clients -> Labels]
    BY DEF UnconfiguredInv, TypeOK
  <1>4. is_initialized # STATE_LINK_UP
    BY <1>3 DEF STATE_UNINITIALIZED, STATE_LINK_UP
  <1>5. CASE SetAttrInit(c) \/ SetAttrAddress(c) \/ SetAttrLinkUp(c) \/ Poll(c)
             \/ Answer(c) \/ Forward(c)
    BY <1>3, <1>4, <1>5 DEF SetAttrInit, SetAttrAddress, SetAttrLinkUp, Poll, Answer, Forward,
       Initialize, Return, Goto, PastConfigure, driver
  <1>6. CASE InitEnter(c)
    BY <1>3, <1>4, <1>6 DEF InitEnter, Resume, Return, Goto, PastConfigure, driver
  <1>7. CASE Configure(c) \/ ChipUp(c) \/ Status(c) \/ Fallback(c) \/ Recheck(c) \/ LinkUp(c)
    BY <1>3, <1>7 DEF Configure, ChipUp, Status, Fallback, Recheck, LinkUp, At, PastConfigure
  <1>8. CASE UpRead(c) \/ UpWrite(c) \/ UpStop(c)
    BY <1>3, <1>8 DEF UpRead, UpWrite, UpStop, GivesUp, Return, Goto, PastConfigure, driver
  <1>9. CASE DownRead(c) \/ DownWrite(c) \/ DownStop(c) \/ LinkDownFails(c)
    BY <1>3, <1>9 DEF DownRead, DownWrite, DownStop, LinkDownFails, DownGivesUp, Return,
       Goto, PastConfigure, driver
  <1> QED BY <1>5, <1>6, <1>7, <1>8, <1>9 DEF Step

(***************************************************************************)
(* Whatever is asked of a device that has no configuration, by any number  *)
(* of clients, serialized or not, and whatever the requests handed on to   *)
(* the MAC driver do to the hardware, it never counts as up and no request *)
(* is answered 1 (a stored address that reads as this answer aside).       *)
(***************************************************************************)
THEOREM UnconfiguredIsDown ==
  ASSUME "1" \notin Addresses \cup {NoAddress}
  PROVE  Spec => []UnconfiguredStaysDown
  <1>1. Init => UnconfiguredInv
    <2> SUFFICES ASSUME Init PROVE UnconfiguredInv
      OBVIOUS
    <2>1. TypeOK
      BY BooleanAssumption DEF Init, TypeOK, LinkStates, Labels, Callers, Replies
    <2> QED  BY <2>1 DEF Init, UnconfiguredInv, PastConfigure
  <1>2. UnconfiguredInv /\ [Next]_vars => UnconfiguredInv'
    <2> SUFFICES ASSUME UnconfiguredInv, [Next]_vars PROVE UnconfiguredInv'
      OBVIOUS
    <2>1. TypeOK'
      BY NextType DEF UnconfiguredInv
    <2>2. ASSUME NEW c \in Clients, Ioctl(c) \/ Query(c) \/ OtherRequest(c)
          PROVE  UnconfiguredInv'
      <3>1. UNCHANGED <<is_initialized, has_config>>
        BY <2>2 DEF Ioctl, Query, OtherRequest, driver, hardware
      <3>2. \A d \in Clients : pc'[d] = pc[d] \/ pc'[d] \notin {"configure"} \cup PastConfigure
        BY <2>2 DEF Ioctl, Query, OtherRequest, Return, Goto, UnconfiguredInv, TypeOK, PastConfigure
      <3>3. \A d \in Clients : reply'[d] = reply[d] \/ reply'[d] # "1"
        BY <2>2 DEF Ioctl, Query, OtherRequest, Return, Goto, UnconfiguredInv, TypeOK
      <3> QED  BY <2>1, <3>1, <3>2, <3>3 DEF UnconfiguredInv
    <2>3. CASE Reset
      BY <2>1, <2>3 DEF Reset, UnconfiguredInv, PastConfigure
    <2>4. CASE Cable \/ Settle \/ UNCHANGED vars
      BY <2>1, <2>4 DEF Cable, Settle, vars, driver, hardware, UnconfiguredInv
    <2> QED  BY <2>2, <2>3, <2>4, StepUnconfigured DEF Next
  <1>3. UnconfiguredInv => UnconfiguredStaysDown
    BY DEF UnconfiguredInv, UnconfiguredStaysDown
  <1> QED  BY <1>1, <1>2, <1>3, PTL DEF Spec

(***************************************************************************)
(* With ioctls serialized a link that is up is lost by a reset or a failed *)
(* SET_LINK_DOWN alone: no initialisation is under way that could set the  *)
(* state back.                                                             *)
(***************************************************************************)
THEOREM LinkIsKept ==
  ASSUME Serialized
  PROVE  Spec => LinkLostOnlyByFailedStop
  <1> DEFINE Kept == is_initialized = STATE_LINK_UP /\ is_initialized' # STATE_LINK_UP =>
                       Reset \/ \E c \in Clients : LinkDownFails(c)
  <1>1. SerialInv /\ [Next]_vars => Kept
    <2> SUFFICES ASSUME SerialInv, [Next]_vars, is_initialized = STATE_LINK_UP,
                        is_initialized' # STATE_LINK_UP, ~Reset
                 PROVE  \E c \in Clients : LinkDownFails(c)
      OBVIOUS
    <2>a. ~(Cable \/ Settle \/ UNCHANGED vars)
      BY DEF Cable, Settle, vars, driver
    <2>b. \A c \in Clients : ~(Ioctl(c) \/ Query(c) \/ OtherRequest(c))
      BY DEF Ioctl, Query, OtherRequest, driver
    <2>1. PICK c \in Clients : Step(c)
      BY <2>a, <2>b DEF Next
    <2>2. ~(ChipUp(c) \/ LinkUp(c))
      <3>1. pc[c] \notin {"chip_up", "link_up"}
        BY DEF SerialInv, TestsStillHold, STATE_UNINITIALIZED, STATE_CHIP_UP, STATE_LINK_UP
      <3> QED  BY <3>1 DEF ChipUp, LinkUp, At
    <2>3. LinkDownFails(c)
      BY <2>1, <2>2 DEF Step, SetAttrInit, SetAttrAddress, SetAttrLinkUp, InitEnter, Configure,
         Status, Fallback, Recheck, UpRead, UpWrite, UpStop, Poll, Answer, DownRead, DownWrite,
         DownStop, Forward, driver
    <2> QED  BY <2>3
  <1>2. []SerialInv /\ [][Next]_vars => [][Kept]_vars
    BY <1>1, PTL
  <1> QED  BY <1>2, SerialInduction, PTL DEF Spec, LinkLostOnlyByFailedStop

----------------------------------------------------------------------------
(***************************************************************************)
(* Where a handler stands tells what it was asked: the test of IS_LINK_UP  *)
(* is answered to polls alone, and a poll that runs has no answer yet.     *)
(***************************************************************************)
InitLabels == {"init", "configure", "chip_up", "status", "fallback", "recheck", "link_up"}
ForLink(flags) == flags \cap {"INIT", "SET_IP_ADDRESS"} = {}
Placed(c) ==
  /\ pc[c] \notin {"idle", "forward"} => reply[c] = "none"
  /\ pc[c] = "forward" => ~IsPoll(o_flags[c])
  /\ pc[c] \in {"down_read", "down_write", "down_stop", "down_failed"} => ~IsPoll(o_flags[c])
  /\ pc[c] = "answer" => IsPoll(o_flags[c])
  /\ pc[c] \in {"up_read", "up_write", "up_stop", "poll"} => ForLink(o_flags[c])
  /\ pc[c] \in InitLabels =>
       /\ caller[c] = "INIT" => "INIT" \in o_flags[c]
       /\ caller[c] = "SET_LINK_UP" => ForLink(o_flags[c])
       /\ caller[c] = "IS_LINK_UP" => IsPoll(o_flags[c])
MonitorInv == SerialInv /\ \A c \in Clients : Placed(c)

\* The answer LinkMonitor sees.
Heard(c) == IF IsPoll(o_flags[c]) /\ reply[c] \in {"0", "1"} THEN reply[c] ELSE "none"

\* While a client is inside, the others are not placed anywhere.
LEMMA OthersIdle ==
  ASSUME MonitorInv, NEW c \in Clients, Step(c), NEW d \in Clients, d # c
  PROVE  /\ pc[d] = "idle" /\ pc'[d] = "idle"
         /\ o_flags'[d] = o_flags[d] /\ reply'[d] = reply[d]
  <1>1. pc[c] # "idle"
    BY DEF Step, At, SetAttrInit, SetAttrAddress, SetAttrLinkUp, InitEnter, Configure, ChipUp,
           Status, Fallback, Recheck, LinkUp, UpRead, UpWrite, UpStop, Poll, Answer, DownRead,
           DownWrite, DownStop, LinkDownFails, Forward
  <1>2. pc[d] = "idle" /\ pc'[d] = "idle"
    BY <1>1, OthersStay DEF MonitorInv, SerialInv, Exclusion, At
  <1>3. UNCHANGED o_flags
    BY DEF Step, SetAttrInit, SetAttrAddress, SetAttrLinkUp, InitEnter, Configure, ChipUp,
           Status, Fallback, Recheck, LinkUp, UpRead, UpWrite, UpStop, Poll, Answer, DownRead,
           DownWrite, DownStop, LinkDownFails, Forward, locals
  <1>4. ASSUME NEW l, Goto(c, l)
        PROVE  reply'[d] = reply[d]
    BY <1>4 DEF Goto
  <1>5. ASSUME NEW v, Return(c, v)
        PROVE  reply'[d] = reply[d]
    BY <1>5 DEF Return, MonitorInv, SerialInv, TypeOK
  <1>6. ASSUME NEW v, Resume(c, v)
        PROVE  reply'[d] = reply[d]
    BY <1>4, <1>5, <1>6 DEF Resume
  <1>7. reply'[d] = reply[d]
    <2>1. CASE SetAttrInit(c) \/ SetAttrLinkUp(c) \/ Poll(c)
      BY <1>4, <2>1 DEF SetAttrInit, SetAttrLinkUp, Poll, Initialize
    <2>2. CASE SetAttrAddress(c) \/ Answer(c) \/ Forward(c)
      BY <1>5, <2>2 DEF SetAttrAddress, Answer, Forward
    <2>3. CASE InitEnter(c) \/ Configure(c) \/ ChipUp(c) \/ Status(c) \/ Fallback(c) \/ Recheck(c) \/ LinkUp(c)
      BY <1>4, <1>6, <2>3 DEF InitEnter, Configure, ChipUp, Status, Fallback, Recheck, LinkUp
    <2>4. CASE UpRead(c) \/ UpWrite(c) \/ UpStop(c)
      BY <1>4, <1>5, <2>4 DEF UpRead, UpWrite, UpStop, GivesUp
    <2>5. CASE DownRead(c) \/ DownWrite(c) \/ DownStop(c) \/ LinkDownFails(c)
      BY <1>4, <1>5, <2>5 DEF DownRead, DownWrite, DownStop, LinkDownFails, DownGivesUp
    <2> QED  BY <2>1, <2>2, <2>3, <2>4, <2>5 DEF Step
  <1> QED  BY <1>2, <1>3, <1>7

\* A handler goes to where its request belongs, and but for Answer no step
\* gives a poll an answer.
LEMMA StepPlaced ==
  ASSUME MonitorInv, NEW c \in Clients, Step(c)
  PROVE  /\ Placed(c)'
         /\ ~Answer(c) => Heard(c)' = Heard(c)
  <1>0. /\ Placed(c) /\ UNCHANGED o_flags
        /\ pc \in [Clients -> Labels] /\ caller \in [Clients -> Callers]
        /\ reply \in [Clients -> Replies \cup Addresses \cup {NoAddress}]
        /\ o_flags \in [Clients -> SUBSET Flags]
    BY DEF MonitorInv, SerialInv, TypeOK, Step, SetAttrInit, SetAttrAddress, SetAttrLinkUp,
           InitEnter, Configure, ChipUp, Status, Fallback, Recheck, LinkUp, UpRead, UpWrite, UpStop, Poll,
           Answer, DownRead, DownWrite, DownStop, LinkDownFails, Forward, locals
  <1>1. CASE SetAttrInit(c)
    BY <1>0, <1>1 DEF SetAttrInit, At, Initialize, Goto, Placed, InitLabels, Heard
  <1>2. CASE SetAttrAddress(c)
    BY <1>0, <1>2 DEF SetAttrAddress, At, Return, Placed, InitLabels, Heard, IsPoll
  <1>3. CASE SetAttrLinkUp(c)
    BY <1>0, <1>3 DEF SetAttrLinkUp, At, Initialize, Goto, Placed, InitLabels, Heard, ForLink
  <1>4. ASSUME NEW v \in {"0", "ENOTSUP", "ERR"}, Resume(c, v), pc[c] \in InitLabels
        PROVE  Placed(c)' /\ Heard(c)' = Heard(c)
    <2>1. CASE caller[c] = "INIT" /\ Return(c, v)
      BY <1>0, <1>4, <2>1 DEF Return, Placed, InitLabels, Heard, IsPoll
    <2>2. CASE caller[c] = "SET_LINK_UP" /\ Goto(c, "up_read")
      BY <1>0, <1>4, <2>2 DEF Goto, Placed, InitLabels, Heard, ForLink
    <2>3. CASE caller[c] = "IS_LINK_UP" /\ Goto(c, "answer")
      BY <1>0, <1>4, <2>3 DEF Goto, Placed, InitLabels, Heard
    <2> QED  BY <1>4, <2>1, <2>2, <2>3 DEF Resume
  <1>5. ASSUME NEW l \in InitLabels, Goto(c, l), UNCHANGED caller, pc[c] \in InitLabels
        PROVE  Placed(c)' /\ Heard(c)' = Heard(c)
    BY <1>0, <1>5 DEF Goto, Placed, InitLabels, Heard
  <1>6. CASE InitEnter(c) \/ Configure(c) \/ ChipUp(c) \/ Status(c) \/ Fallback(c) \/ Recheck(c) \/ LinkUp(c)
    <2>1. pc[c] \in InitLabels
      BY <1>6 DEF InitEnter, Configure, ChipUp, Status, Fallback, Recheck, LinkUp, At, InitLabels
    <2>2. \/ \E v \in {"0", "ENOTSUP", "ERR"} : Resume(c, v)
          \/ \E l \in InitLabels : Goto(c, l) /\ UNCHANGED caller
      BY <1>6 DEF InitEnter, Configure, ChipUp, Status, Fallback, Recheck, LinkUp, InitLabels,
         locals
    <2> QED  BY <2>1, <2>2, <1>4, <1>5
  <1>7. CASE UpRead(c) \/ UpWrite(c) \/ UpStop(c)
    BY <1>0, <1>7 DEF UpRead, UpWrite, UpStop, GivesUp, Return, Goto, At, Placed, InitLabels,
       Heard
  <1>8. CASE Poll(c)
    <2>1. pc[c] = "poll"
      BY <1>8 DEF Poll, At
    <2>2. CASE Initialize(c, "IS_LINK_UP") /\ "IS_LINK_UP" \in o_flags[c]
      BY <1>0, <2>1, <2>2 DEF Initialize, Goto, Placed, InitLabels, Heard, IsPoll, ForLink
    <2>3. CASE Goto(c, "answer") /\ "IS_LINK_UP" \in o_flags[c]
      BY <1>0, <2>1, <2>3 DEF Goto, Placed, InitLabels, Heard, IsPoll, ForLink
    <2>4. CASE Goto(c, "down_read") /\ "IS_LINK_UP" \notin o_flags[c]
      BY <1>0, <2>1, <2>4 DEF Goto, Placed, InitLabels, Heard, IsPoll, ForLink
    <2>5. CASE Goto(c, "forward") /\ "IS_LINK_UP" \notin o_flags[c]
      BY <1>0, <2>1, <2>5 DEF Goto, Placed, InitLabels, Heard, IsPoll, ForLink
    <2> QED  BY <1>8, <2>2, <2>3, <2>4, <2>5 DEF Poll
  <1>9. CASE Answer(c) \/ Forward(c)
    BY <1>0, <1>9 DEF Answer, Forward, Return, At, Placed, InitLabels, Heard
  <1>10. CASE DownRead(c) \/ DownWrite(c) \/ DownStop(c) \/ LinkDownFails(c)
    BY <1>0, <1>10 DEF DownRead, DownWrite, DownStop, LinkDownFails, DownGivesUp, Return, Goto, At,
       Placed, InitLabels, Heard
  <1> QED  BY <1>1, <1>2, <1>3, <1>6, <1>7, <1>8, <1>9, <1>10 DEF Step

\* MonitorInv is invariant when the kernel serializes ioctls.
LEMMA NextPlaced ==
  ASSUME Serialized, MonitorInv, [Next]_vars
  PROVE  MonitorInv'
  <1>1. SerialInv'
    <2>1. TypeOK'
      BY NextType DEF MonitorInv, SerialInv
    <2>2. CASE Reset
      BY <2>1, <2>2 DEF Reset, SerialInv, Exclusion, At, FailedStopForgotten,
                        StartedAfresh, TestsStillHold
    <2>3. CASE Cable \/ Settle \/ UNCHANGED vars
      BY <2>1, <2>3 DEF Cable, Settle, vars, driver, hardware, locals, MonitorInv, SerialInv,
                        Exclusion, At, FailedStopForgotten, StartedAfresh, TestsStillHold
    <2> QED  BY <2>2, <2>3, StepSerial, EnterSerial DEF Next, MonitorInv
  <1>2. ASSUME NEW c \in Clients, Ioctl(c) \/ Query(c) \/ OtherRequest(c)
        PROVE  \A d \in Clients : Placed(d)'
    <2>1. \A d \in Clients : pc[d] = "idle"
      BY <1>2 DEF Ioctl, Query, OtherRequest, MayCall, At
    <2>2. \A d \in Clients : d # c => pc'[d] = "idle"
      BY <1>2, <2>1 DEF Ioctl, Query, OtherRequest, Return, Goto, MonitorInv, SerialInv, TypeOK
    <2>3. \/ pc'[c] = "idle"
          \/ pc'[c] = "setattr" /\ reply'[c] = "none"
          \/ pc'[c] = "forward" /\ ~IsPoll(o_flags'[c])
      BY <1>2, <2>1
         DEF Ioctl, Query, OtherRequest, Return, Goto, MonitorInv, SerialInv, TypeOK, IsPoll
    <2> QED  BY <2>2, <2>3 DEF Placed, InitLabels
  <1>3. ASSUME NEW c \in Clients, Step(c)
        PROVE  \A d \in Clients : Placed(d)'
    BY <1>3, OthersIdle, StepPlaced DEF Placed, InitLabels
  <1>4. CASE Reset
    BY <1>1, <1>4 DEF Reset, MonitorInv, Placed, InitLabels
  <1>5. CASE Cable \/ Settle \/ UNCHANGED vars
    BY <1>1, <1>5 DEF Cable, Settle, vars, locals, MonitorInv, Placed
  <1> QED  BY <1>1, <1>2, <1>3, <1>4, <1>5 DEF Next, MonitorInv

\* A step of a handler is a step of LinkMonitor, or none.
LEMMA StepMonitors ==
  ASSUME MonitorInv, NEW c \in Clients, Step(c)
  PROVE  [Monitor!Next]_(Monitor!vars)
  <1> DEFINE answer == [d \in Clients |-> Heard(d)]
  <1>0. /\ is_initialized \in LinkStates /\ is_initialized' \in LinkStates
        /\ answer = [d \in Clients |->
             IF IsPoll(o_flags[d]) /\ reply[d] \in {"0", "1"} THEN reply[d] ELSE "none"]
        /\ pc \in [Clients -> Labels] /\ pc' \in [Clients -> Labels]
        /\ UNCHANGED cable
    BY StepType DEF MonitorInv, SerialInv, TypeOK, Heard, Step, SetAttrInit, SetAttrAddress,
           SetAttrLinkUp, InitEnter, Configure, ChipUp, Status, Fallback, Recheck, LinkUp, UpRead,
           UpWrite, UpStop, Poll, Answer, DownRead, DownWrite, DownStop, LinkDownFails, Forward,
           hardware
  <1>a. \A d \in Clients : d # c => Heard(d)' = Heard(d)
    BY OthersIdle DEF Heard
  <1>b. /\ Link = IF pc[c] = "link_up" THEN "seen" ELSE LinkName[is_initialized]
        /\ Link' = IF pc'[c] = "link_up" THEN "seen" ELSE LinkName[is_initialized']
    BY OthersIdle DEF Link, At
  <1>c. /\ LinkName[STATE_UNINITIALIZED] = "down" /\ LinkName[STATE_CHIP_UP] = "chip"
        /\ LinkName[STATE_LINK_UP] = "up"
        /\ \A s \in LinkStates : LinkName[s] = "up" <=> s = STATE_LINK_UP
    BY DEF LinkName, LinkStates, STATE_UNINITIALIZED, STATE_CHIP_UP, STATE_LINK_UP
  <1>1. CASE Answer(c)
    <2>1. pc[c] = "answer" /\ pc'[c] = "idle" /\ Placed(c)
      BY <1>0, <1>1 DEF Answer, At, Return, MonitorInv
    <2>2. IsPoll(o_flags[c]) /\ reply[c] = "none" /\ UNCHANGED <<o_flags, is_initialized>>
      BY <1>1, <2>1 DEF Answer, Placed, locals, driver
    <2>3. reply'[c] = IF is_initialized = STATE_LINK_UP THEN "1" ELSE "0"
      BY <1>1 DEF Answer, Return, MonitorInv, SerialInv, TypeOK
    <2>4. Heard(c) = "none" /\ Heard(c)' = IF is_initialized = STATE_LINK_UP THEN "1" ELSE "0"
      BY <2>2, <2>3 DEF Heard
    <2>5. Link' = Link /\ (Link = "up" <=> is_initialized = STATE_LINK_UP)
      BY <1>0, <1>b, <1>c, <2>1, <2>2
    <2>6. answer' = [answer EXCEPT ![c] = IF Link = "up" THEN "1" ELSE "0"]
      BY <1>a, <2>4, <2>5
    <2>7. Monitor!Reply(c)
      BY <1>0, <2>4, <2>5, <2>6 DEF Monitor!Reply, Heard
    <2> QED  BY <2>7 DEF Monitor!Next
  <1>2. CASE ~Answer(c)
    <2>1. answer' = answer
      BY <1>2, <1>a, StepPlaced
    <2>2. CASE Link' = Link
      BY <1>0, <2>1, <2>2 DEF Monitor!vars, Heard
    <2>3. CASE ChipUp(c)
      <3>1. Link = "down" /\ Link' = "chip"
        BY <1>0, <1>b, <1>c, <2>3 DEF ChipUp, At, Goto, MonitorInv, SerialInv, TestsStillHold
      <3>2. Monitor!Configure
        BY <1>0, <2>1, <3>1 DEF Monitor!Configure, Heard
      <3> QED  BY <3>2 DEF Monitor!Next
    <2>4. CASE (Status(c) \/ Recheck(c)) /\ Goto(c, "link_up")
      <3>1. UNCHANGED is_initialized /\ is_initialized = STATE_CHIP_UP /\ pc[c] # "link_up"
        BY <2>4 DEF Status, Recheck, At, MonitorInv, SerialInv, TestsStillHold, driver
      <3>2. Link = "chip" /\ Link' = "seen"
        BY <1>0, <1>b, <1>c, <2>4, <3>1 DEF Goto
      <3>3. cable
        <4>1. pc'[c] = "link_up"
          BY <1>0, <2>4 DEF Goto
        <4>2. IsUpReads(TRUE)
          BY <1>0, <2>4, <4>1 DEF Status, Recheck, Goto, Resume, Return
        <4> QED  BY <4>2 DEF IsUpReads, HasLink
      <3>4. Monitor!See
        BY <1>0, <2>1, <3>2, <3>3 DEF Monitor!See, Heard
      <3> QED  BY <3>4 DEF Monitor!Next
    <2>5. CASE LinkUp(c)
      <3>1. pc[c] = "link_up" /\ pc'[c] # "link_up" /\ is_initialized' = STATE_LINK_UP
        BY <1>0, <2>5 DEF LinkUp, At, Resume, Return, Goto
      <3>2. Monitor!Confirm
        BY <1>0, <1>b, <1>c, <2>1, <3>1 DEF Monitor!Confirm, Heard
      <3> QED  BY <3>2 DEF Monitor!Next
    <2>6. CASE LinkDownFails(c)
      <3>1. Link' = "down"
        BY <1>0, <1>b, <1>c, <2>6 DEF LinkDownFails, Return
      <3>2. Monitor!Forget
        BY <1>0, <2>1, <3>1 DEF Monitor!Forget, Heard
      <3> QED  BY <3>2 DEF Monitor!Next
    <2>7. CASE ~((Status(c) \/ Recheck(c)) /\ Goto(c, "link_up"))
               /\ ~(ChipUp(c) \/ LinkUp(c) \/ LinkDownFails(c))
      <3>1. UNCHANGED is_initialized
        BY <2>7 DEF Step, SetAttrInit, SetAttrAddress, SetAttrLinkUp, InitEnter, Configure,
           Status, Fallback, Recheck, UpRead, UpWrite, UpStop, Poll, Answer, DownRead,
           DownWrite, DownStop, Forward, driver
      <3>2. pc[c] # "link_up"
        BY <2>7 DEF Step, SetAttrInit, SetAttrAddress, SetAttrLinkUp, InitEnter, Configure,
           Status, Fallback, Recheck, UpRead, UpWrite, UpStop, Poll, Answer, DownRead,
           DownWrite, DownStop, Forward, At
      <3>3. pc'[c] # "link_up"
        <4>1. ASSUME NEW l, Goto(c, l)
              PROVE  pc'[c] = l
          BY <1>0, <4>1 DEF Goto
        <4>2. ASSUME NEW v, Return(c, v)
              PROVE  pc'[c] = "idle"
          BY <1>0, <4>2 DEF Return
        <4>3. ASSUME NEW v, Resume(c, v)
              PROVE  pc'[c] \in {"idle", "up_read", "answer"}
          BY <4>1, <4>2, <4>3 DEF Resume
        <4>4. CASE SetAttrInit(c) \/ SetAttrAddress(c) \/ SetAttrLinkUp(c) \/ Poll(c)
                   \/ Answer(c) \/ Forward(c)
          BY <4>1, <4>2, <4>4 DEF SetAttrInit, SetAttrAddress, SetAttrLinkUp, Poll, Answer,
             Forward, Initialize
        <4>5. CASE InitEnter(c) \/ Configure(c) \/ Fallback(c)
          BY <4>1, <4>3, <4>5 DEF InitEnter, Configure, Fallback
        <4>6. CASE Status(c) \/ Recheck(c)
          BY <2>7, <4>1, <4>3, <4>6 DEF Status, Recheck
        <4>7. CASE UpRead(c) \/ UpWrite(c) \/ UpStop(c)
          BY <4>1, <4>2, <4>7 DEF UpRead, UpWrite, UpStop, GivesUp
        <4>8. CASE DownRead(c) \/ DownWrite(c) \/ DownStop(c)
          BY <4>1, <4>8 DEF DownRead, DownWrite, DownStop, DownGivesUp
        <4> QED  BY <2>7, <4>4, <4>5, <4>6, <4>7, <4>8 DEF Step
      <3> QED  BY <1>b, <2>2, <3>1, <3>2, <3>3
    <2> QED  BY <2>3, <2>4, <2>5, <2>6, <2>7
  <1> QED  BY <1>1, <1>2

(***************************************************************************)
(* With ioctls serialized the driver implements LinkMonitor, for every set *)
(* of clients, requests and addresses: a link comes up through a           *)
(* configured chip that saw a live medium, and a poll is answered with the *)
(* link as it is when the answer is given.                                 *)
(***************************************************************************)
THEOREM DriverMonitorsLink ==
  ASSUME Serialized
  PROVE  Spec => ImplementsLinkMonitor
  <1> DEFINE answer == [d \in Clients |-> Heard(d)]
  <1>0. answer = [d \in Clients |->
          IF IsPoll(o_flags[d]) /\ reply[d] \in {"0", "1"} THEN reply[d] ELSE "none"]
    BY DEF Heard
  <1>1. Init => MonitorInv /\ Monitor!Init
    <2> SUFFICES ASSUME Init PROVE MonitorInv /\ Monitor!Init
      OBVIOUS
    <2>1. TypeOK
      BY BooleanAssumption DEF Init, TypeOK, LinkStates, Labels, Callers, Replies
    <2>2. SerialInv
      BY <2>1 DEF Init, SerialInv, Exclusion, At, FailedStopForgotten, StartedAfresh,
                  TestsStillHold
    <2>3. MonitorInv
      BY <2>2 DEF Init, MonitorInv, Placed, InitLabels
    <2>4. Link = "down"
      BY DEF Init, Link, At, LinkName, LinkStates, STATE_UNINITIALIZED, STATE_CHIP_UP, STATE_LINK_UP
    <2> QED  BY <2>3, <2>4 DEF Init, Monitor!Init
  <1>2. MonitorInv /\ [Next]_vars => MonitorInv' /\ [Monitor!Next]_(Monitor!vars)
    <2> SUFFICES ASSUME MonitorInv, [Next]_vars
                 PROVE  [Monitor!Next]_(Monitor!vars)
      BY NextPlaced
    <2>1. ASSUME NEW c \in Clients, Ioctl(c) \/ Query(c) \/ OtherRequest(c)
          PROVE  [Monitor!Next]_(Monitor!vars)
      <3>0. \A d \in Clients : pc[d] # "link_up" /\ pc'[d] # "link_up"
        BY <2>1 DEF Ioctl, Query, OtherRequest, MayCall, At, Return, Goto, MonitorInv, SerialInv,
           TypeOK
      <3>1. Link' = Link /\ UNCHANGED cable
        BY <2>1, <3>0 DEF Ioctl, Query, OtherRequest, Link, At, driver, hardware
      <3>2. /\ ~(IsPoll(o_flags'[c]) /\ reply'[c] \in {"0", "1"})
            /\ \A d \in Clients : d # c => o_flags'[d] = o_flags[d] /\ reply'[d] = reply[d]
        BY <2>1 DEF Ioctl, Query, OtherRequest, Return, Goto, IsPoll, MonitorInv, SerialInv, TypeOK
      <3>3. answer' = [answer EXCEPT ![c] = "none"]
        BY <3>2 DEF Heard
      <3>4. Monitor!Ask(c)
        BY <3>1, <3>3, <1>0 DEF Monitor!Ask, Heard
      <3> QED  BY <3>4 DEF Monitor!Next
    <2>2. CASE Reset
      <3>1. Link' = "down"
        BY <2>2 DEF Reset, Link, At, LinkName, LinkStates, STATE_UNINITIALIZED, STATE_CHIP_UP,
           STATE_LINK_UP
      <3>2. Monitor!Restart
        BY <2>2, <3>1 DEF Reset, Monitor!Restart
      <3> QED  BY <3>2 DEF Monitor!Next
    <2>3. CASE Cable
      <3>1. Monitor!Change
        BY <2>3 DEF Cable, Monitor!Change, Link, At, driver, locals
      <3> QED  BY <3>1 DEF Monitor!Next
    <2>4. CASE Settle \/ UNCHANGED vars
      BY <2>4 DEF Settle, vars, Monitor!vars, Link, At, driver, hardware, locals
    <2> QED  BY <2>1, <2>2, <2>3, <2>4, StepMonitors DEF Next
  <1> QED  BY <1>1, <1>2, PTL DEF Spec, ImplementsLinkMonitor, Monitor!Spec

----------------------------------------------------------------------------
(***************************************************************************)
(* How far a handler still has to go at most.  initialize_ethernet returns *)
(* to one of three places, so its labels count from there.                 *)
(***************************************************************************)
InitSteps == [init |-> 7, configure |-> 6, chip_up |-> 5, status |-> 4, fallback |-> 3,
              recheck |-> 2, link_up |-> 1]
OtherSteps == [setattr |-> 20, up_read |-> 12, up_write |-> 11, up_stop |-> 10, poll |-> 9,
               down_read |-> 4, down_write |-> 3, down_stop |-> 2, down_failed |-> 1,
               answer |-> 1, forward |-> 1, idle |-> 0]
Onwards == [SET_LINK_UP |-> 12, IS_LINK_UP |-> 1, INIT |-> 0]
Left(c) ==
  IF pc[c] \in InitLabels THEN InitSteps[pc[c]] + Onwards[caller[c]] ELSE OtherSteps[pc[c]]

\* The steps left are at most twenty, and none only outside the handler.
LEMMA LeftBounds ==
  ASSUME TypeOK, NEW c \in Clients
  PROVE  Left(c) \in 0..20 /\ (Left(c) = 0 <=> pc[c] = "idle")
  <1>1. pc[c] \in Labels /\ caller[c] \in Callers
    BY DEF TypeOK
  <1>2. Onwards[caller[c]] \in 0..12
    BY <1>1 DEF Callers, Onwards
  <1>3. CASE pc[c] \in InitLabels
    <2>1. InitSteps[pc[c]] \in 1..7 /\ pc[c] # "idle"
      BY <1>3 DEF InitLabels, InitSteps
    <2> QED  BY <1>2, <1>3, <2>1 DEF Left
  <1>4. CASE pc[c] \notin InitLabels
    <2>1. OtherSteps[pc[c]] \in 0..20 /\ (OtherSteps[pc[c]] = 0 <=> pc[c] = "idle")
      BY <1>1, <1>4 DEF Labels, InitLabels, OtherSteps
    <2> QED  BY <1>4, <2>1 DEF Left
  <1> QED  BY <1>3, <1>4

\* Whoever called initialize_ethernet is nearer its end when it goes on.
LEMMA ResumeLeft ==
  ASSUME TypeOK, NEW c \in Clients, NEW v, Resume(c, v), pc[c] \in InitLabels
  PROVE  Left(c)' < Left(c)
  <1>1. InitSteps[pc[c]] \in 1..7
    BY DEF InitLabels, InitSteps
  <1>2. caller[c] \in Callers /\ Onwards[caller[c]] \in 0..12
    BY DEF TypeOK, Callers, Onwards
  <1>3. Left(c) = InitSteps[pc[c]] + Onwards[caller[c]]
    BY DEF Left
  <1>4. CASE caller[c] = "INIT" /\ Return(c, v)
    <2>1. pc'[c] = "idle"
      BY <1>4 DEF Return, TypeOK
    <2>2. Left(c)' = 0
      BY <2>1 DEF Left, InitLabels, OtherSteps
    <2> QED  BY <1>1, <1>2, <1>3, <2>2
  <1>5. CASE caller[c] = "SET_LINK_UP" /\ Goto(c, "up_read")
    <2>1. pc'[c] = "up_read"
      BY <1>5 DEF Goto, TypeOK
    <2>2. Left(c)' = 12 /\ Onwards[caller[c]] = 12
      BY <1>5, <2>1 DEF Left, InitLabels, OtherSteps, Onwards
    <2> QED  BY <1>1, <1>3, <2>2
  <1>6. CASE caller[c] = "IS_LINK_UP" /\ Goto(c, "answer")
    <2>1. pc'[c] = "answer"
      BY <1>6 DEF Goto, TypeOK
    <2>2. Left(c)' = 1 /\ Onwards[caller[c]] = 1
      BY <1>6, <2>1 DEF Left, InitLabels, OtherSteps, Onwards
    <2> QED  BY <1>1, <1>3, <2>2
  <1> QED  BY <1>4, <1>5, <1>6 DEF Resume

\* A step of a handler brings its end nearer, whatever the hardware does.
LEMMA StepLeft ==
  ASSUME TypeOK, NEW c \in Clients, Step(c)
  PROVE  Left(c)' < Left(c)
  <1>0. pc \in [Clients -> Labels] /\ caller \in [Clients -> Callers]
    BY DEF TypeOK
  <1>b. /\ Left(c) \in 0..20 /\ (Left(c) = 0 <=> pc[c] = "idle")
        /\ \A v : Return(c, v) => Left(c)' = 0
    <2>1. ASSUME NEW v, Return(c, v) PROVE Left(c)' = 0
      <3>1. pc'[c] = "idle"
        BY <1>0, <2>1 DEF Return
      <3> QED  BY <3>1 DEF Left, InitLabels, OtherSteps
    <2> QED  BY <2>1, LeftBounds
  <1>1. CASE SetAttrInit(c) \/ SetAttrLinkUp(c)
    <2>1. pc[c] = "setattr" /\ Left(c) = 20
      BY <1>1 DEF SetAttrInit, SetAttrLinkUp, At, Left, InitLabels, OtherSteps
    <2>2. \/ pc'[c] = "init" /\ caller'[c] \in {"INIT", "SET_LINK_UP"}
          \/ pc'[c] \in {"up_read", "poll"}
      BY <1>0, <1>1 DEF SetAttrInit, SetAttrLinkUp, Initialize, Goto
    <2>3. Left(c)' \in {7, 19, 12, 9}
      BY <2>2 DEF Left, InitLabels, InitSteps, OtherSteps, Onwards
    <2> QED  BY <2>1, <2>3
  <1>2. CASE SetAttrAddress(c) \/ Answer(c) \/ Forward(c)
    BY <1>b, <1>2 DEF SetAttrAddress, Answer, Forward, At
  <1>3. ASSUME NEW from \in InitLabels, NEW to \in InitLabels, pc[c] = from, Goto(c, to),
               UNCHANGED caller, InitSteps[to] < InitSteps[from]
        PROVE  Left(c)' < Left(c)
    <2>1. pc'[c] = to
      BY <1>0, <1>3 DEF Goto
    <2>2. Onwards[caller[c]] \in 0..12
      BY <1>0 DEF Callers, Onwards
    <2>3. InitSteps[from] \in 1..7 /\ InitSteps[to] \in 1..7
      BY DEF InitLabels, InitSteps
    <2>4. Left(c) = InitSteps[from] + Onwards[caller[c]]
      BY <1>3 DEF Left
    <2>5. Left(c)' = InitSteps[to] + Onwards[caller[c]]
      BY <1>3, <2>1 DEF Left
    <2> QED  BY <1>3, <2>2, <2>3, <2>4, <2>5
  <1>4. CASE InitEnter(c) \/ Configure(c) \/ ChipUp(c) \/ Status(c) \/ Fallback(c) \/ Recheck(c) \/ LinkUp(c)
    <2>1. pc[c] \in InitLabels
      BY <1>4 DEF InitEnter, Configure, ChipUp, Status, Fallback, Recheck, LinkUp, At, InitLabels
    <2>2. \/ \E v : Resume(c, v)
          \/ /\ UNCHANGED caller
             /\ \/ pc[c] = "init" /\ (Goto(c, "configure") \/ Goto(c, "status"))
                \/ pc[c] = "configure" /\ Goto(c, "chip_up")
                \/ pc[c] = "chip_up" /\ Goto(c, "status")
                \/ pc[c] = "status" /\ (Goto(c, "fallback") \/ Goto(c, "link_up"))
                \/ pc[c] = "recheck" /\ Goto(c, "link_up")
                \/ pc[c] = "fallback" /\ Goto(c, "recheck")
      BY <1>4 DEF InitEnter, Configure, ChipUp, Status, Fallback, Recheck, LinkUp, At, locals
    <2>3. CASE \E v : Resume(c, v)
      BY <2>1, <2>3, ResumeLeft
    <2> QED  BY <2>2, <2>3, <1>3 DEF InitLabels, InitSteps
  <1>5. CASE UpRead(c) \/ UpWrite(c) \/ UpStop(c) \/ DownRead(c) \/ DownWrite(c) \/ DownStop(c) \/ LinkDownFails(c)
    <2>1. \/ pc[c] # "idle" /\ \E v : Return(c, v)
          \/ pc[c] = "up_read" /\ Goto(c, "up_write")
          \/ pc[c] = "up_write" /\ Goto(c, "up_stop")
          \/ pc[c] = "up_stop" /\ Goto(c, "poll")
          \/ pc[c] = "down_read" /\ Goto(c, "down_write")
          \/ pc[c] \in {"down_read", "down_write", "down_stop"} /\ Goto(c, "down_failed")
          \/ pc[c] = "down_write" /\ Goto(c, "down_stop")
          \/ pc[c] = "down_stop" /\ Goto(c, "forward")
      BY <1>5 DEF UpRead, UpWrite, UpStop, DownRead, DownWrite, DownStop, LinkDownFails, GivesUp,
         DownGivesUp, At
    <2>2. CASE pc[c] # "idle" /\ \E v : Return(c, v)
      BY <1>b, <2>2
    <2> QED  BY <1>0, <2>1, <2>2 DEF Goto, Left, InitLabels, OtherSteps
  <1>6. CASE Poll(c)
    <2>1. pc[c] = "poll" /\ Left(c) = 9
      BY <1>6 DEF Poll, At, Left, InitLabels, OtherSteps
    <2>2. \/ pc'[c] = "init" /\ caller'[c] = "IS_LINK_UP"
          \/ pc'[c] \in {"answer", "down_read", "forward"}
      BY <1>0, <1>6 DEF Poll, Initialize, Goto
    <2>3. Left(c)' \in {8, 1, 4}
      BY <2>2 DEF Left, InitLabels, InitSteps, OtherSteps, Onwards
    <2> QED  BY <2>1, <2>3
  <1> QED  BY <1>1, <1>2, <1>4, <1>5, <1>6 DEF Step

\* Nothing another client or the environment does sends a handler back.
LEMMA OthersLeft ==
  ASSUME TypeOK, Next, ~Reset, NEW c \in Clients, ~At(c, "idle"), ~Step(c)
  PROVE  Left(c)' = Left(c)
  <1>1. SUFFICES pc'[c] = pc[c] /\ caller'[c] = caller[c]
    BY DEF Left
  <1>2. CASE Cable \/ Settle
    BY <1>2 DEF Cable, Settle, locals
  <1>3. ASSUME NEW d \in Clients, Ioctl(d) \/ Query(d) \/ OtherRequest(d)
        PROVE  pc'[c] = pc[c] /\ caller'[c] = caller[c]
    <2>1. d # c
      BY <1>3 DEF Ioctl, Query, OtherRequest, MayCall
    <2> QED  BY <1>3, <2>1 DEF Ioctl, Query, OtherRequest, Return, Goto, TypeOK
  <1>4. ASSUME NEW d \in Clients, Step(d)
        PROVE  pc'[c] = pc[c] /\ caller'[c] = caller[c]
    <2>1. d # c /\ pc'[c] = pc[c]
      BY <1>4, OthersStay
    <2>2. CASE UNCHANGED caller
      BY <2>1, <2>2
    <2>3. CASE \E who : caller' = [caller EXCEPT ![d] = who]
      BY <2>1, <2>3 DEF TypeOK
    <2> QED
      BY <1>4, <2>1, <2>2, <2>3
         DEF Step, SetAttrInit, SetAttrAddress, SetAttrLinkUp, InitEnter, Configure, ChipUp,
             Status, Fallback, Recheck, LinkUp, UpRead, UpWrite, UpStop, Poll, Answer, DownRead,
             DownWrite, DownStop, LinkDownFails, Forward, locals, Initialize, Resume
  <1> QED  BY <1>2, <1>3, <1>4 DEF Next

(***************************************************************************)
(* The safety half of EveryIoctlReturns, serialized or not and whatever    *)
(* fails: an ioctl is at most twenty steps of its handler long, every      *)
(* step it takes leaves fewer, and no step of another client, of the cable *)
(* or of the hardware but a reset takes it back.  There is no loop.        *)
(***************************************************************************)
THEOREM IoctlsComeNearer ==
  Spec => /\ [](\A c \in Clients : Left(c) \in 0..20 /\ (Left(c) = 0 <=> At(c, "idle")))
          /\ [][\A c \in Clients : ~At(c, "idle") =>
                  \/ Step(c) /\ Left(c)' < Left(c)
                  \/ Left(c)' = Left(c)
                  \/ Reset]_vars
  <1>1. TypeOK => \A c \in Clients : Left(c) \in 0..20 /\ (Left(c) = 0 <=> At(c, "idle"))
    BY LeftBounds DEF At
  <1>2. TypeOK /\ [Next]_vars =>
          [\A c \in Clients : ~At(c, "idle") =>
              \/ Step(c) /\ Left(c)' < Left(c)
              \/ Left(c)' = Left(c)
              \/ Reset]_vars
    BY StepLeft, OthersLeft
  <1> QED  BY <1>1, <1>2, TypeCorrect, PTL DEF Spec

=============================================================================
