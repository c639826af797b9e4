--------------------------- MODULE FlashMapProofs ---------------------------
(***************************************************************************)
(* Sharing the flash is safe on every board, present or future, whose      *)
(* layout keeps bootloader, kernel and application pages in different      *)
(* sectors: the only premise is FlashApart, which TLC evaluates on the     *)
(* layouts of the repository (MCFlashMap).                                 *)
(***************************************************************************)
EXTENDS BootFlow, FiniteSetTheorems, TLAPS

\* The three parties' parts of the flash of this board are still theirs.
FlashInv ==
  /\ TypeOK
  /\ BootSurvives
  /\ KernelSurvives
  /\ AppsSurvive

\* Erasing a region takes sectors of the board and no others.
LEMMA TouchesSectors ==
  ASSUME NEW b, NEW r
  PROVE  Touches(b, r) \subseteq SectorsOf(b)
  BY DEF Touches

\* So do the bootloader, the kernel and the pages.
LEMMA PartsAreSectors ==
  ASSUME NEW b \in Boards
  PROVE  /\ BootSectors(b) \subseteq SectorsOf(b)
         /\ KernelSectors(b) \subseteq SectorsOf(b)
         /\ \A page \in AppPages(b) : PageSectors(b, page) \subseteq SectorsOf(b)
  BY TouchesSectors DEF BootSectors, KernelSectors, PageSectors, Parts

(***************************************************************************)
(* What Put does: the sectors named get the content, the others keep       *)
(* theirs.                                                                 *)
(***************************************************************************)
LEMMA PutChanges ==
  ASSUME TypeOK, NEW sectors, NEW content, Put(sectors, content)
  PROVE  \A s \in SectorsOf(board) :
           flash'[s] = IF s \in sectors THEN content ELSE flash[s]
  BY DEF TypeOK, Put

\* Put keeps the type of the flash.
LEMMA PutType ==
  ASSUME TypeOK, NEW sectors,
         NEW content \in {Blank, Boot, Kernel} \cup {App(page) : page \in AppPages(board)},
         Put(sectors, content)
  PROVE  flash' \in [SectorsOf(board) ->
           {Blank, Boot, Kernel} \cup {App(page) : page \in AppPages(board)}]
  BY DEF TypeOK, Put

\* Every step keeps the type of every variable.
LEMMA FlashType ==
  ASSUME TypeOK, [Next]_vars
  PROVE  TypeOK' /\ board' = board
  <1>1. CASE StartKernel \/ StartUpdate \/ Reset \/ UNCHANGED vars
    BY <1>1 DEF StartKernel, StartUpdate, Reset, vars, TypeOK
  <1>2. ASSUME NEW s \in KernelSectors(board), EraseKernel(s) \/ WriteKernel(s)
        PROVE  TypeOK' /\ board' = board
    BY <1>2, PutType DEF EraseKernel, WriteKernel, TypeOK
  <1>3. ASSUME NEW page \in AppPages(board),
               EraseApp(page) \/ WriteApp(page) \/ RejectApp(page) \/ RemoveApp(page)
        PROVE  TypeOK' /\ board' = board
    BY <1>3, PutType DEF EraseApp, WriteApp, RejectApp, RemoveApp, TypeOK
  <1> QED  BY <1>1, <1>2, <1>3 DEF Next

(***************************************************************************)
(* An update of the kernel touches nobody else's sectors.                  *)
(***************************************************************************)
LEMMA UpdateKeeps ==
  ASSUME FlashInv, FlashApart(board), NEW s \in KernelSectors(board),
         EraseKernel(s) \/ WriteKernel(s)
  PROVE  FlashInv'
  <1>0. board \in Boards
    BY DEF FlashInv, TypeOK
  <1>1. TypeOK' /\ board' = board
    BY FlashType DEF FlashInv, Next
  <1>2. \A q \in SectorsOf(board) : q # s => flash'[q] = flash[q]
    BY PutChanges DEF EraseKernel, WriteKernel, FlashInv
  <1>3. BootSurvives'
    BY <1>0, <1>1, <1>2, PartsAreSectors DEF FlashInv, BootSurvives, FlashApart
  <1>4. KernelSurvives'
    BY DEF EraseKernel, WriteKernel, KernelSurvives
  <1>5. AppsSurvive'
    <2>1. apps' = apps /\ apps \subseteq AppPages(board)
      BY DEF EraseKernel, WriteKernel, FlashInv, TypeOK
    <2>2. \A page \in apps : s \notin PageSectors(board, page)
      BY <2>1 DEF FlashApart
    <2> QED
      BY <1>0, <1>1, <1>2, <2>1, <2>2, PartsAreSectors DEF FlashInv, AppsSurvive
  <1> QED  BY <1>1, <1>3, <1>4, <1>5 DEF FlashInv

(***************************************************************************)
(* Installing or removing an application touches its page only.            *)
(***************************************************************************)
LEMMA AppKeeps ==
  ASSUME FlashInv, FlashApart(board), NEW page \in AppPages(board),
         EraseApp(page) \/ WriteApp(page) \/ RemoveApp(page)
  PROVE  FlashInv'
  <1>0. board \in Boards
    BY DEF FlashInv, TypeOK
  <1>1. TypeOK' /\ board' = board
    BY FlashType DEF FlashInv, Next
  <1>2. \A q \in SectorsOf(board) : q \notin PageSectors(board, page) => flash'[q] = flash[q]
    BY PutChanges DEF EraseApp, WriteApp, RemoveApp, FlashInv
  <1>3. BootSurvives'
    BY <1>0, <1>1, <1>2, PartsAreSectors DEF FlashInv, BootSurvives, FlashApart
  <1>4. KernelSurvives'
    <2>1. mode = "kernel" /\ mode' = mode
      BY DEF EraseApp, WriteApp, RemoveApp
    <2> QED
      BY <1>0, <1>1, <1>2, <2>1, PartsAreSectors DEF FlashInv, KernelSurvives, FlashApart
  <1>5. AppsSurvive'
    <2>1. ASSUME NEW other \in apps', other # page, NEW s \in PageSectors(board, other)
          PROVE  flash'[s] = App(other)
      <3>1. other \in apps /\ other \in AppPages(board)
        BY <2>1 DEF EraseApp, WriteApp, RemoveApp, FlashInv, TypeOK
      <3>2. s \notin PageSectors(board, page)
        BY <2>1, <3>1 DEF FlashApart
      <3>3. s \in SectorsOf(board)
        BY <1>0, <2>1, <3>1, PartsAreSectors
      <3> QED
        BY <1>2, <3>1, <3>2, <3>3 DEF FlashInv, AppsSurvive
    <2>2. ASSUME page \in apps', NEW s \in PageSectors(board, page)
          PROVE  flash'[s] = App(page)
      <3>1. WriteApp(page)
        BY <2>2 DEF EraseApp, RemoveApp
      <3>2. s \in SectorsOf(board)
        BY <1>0, <2>2, PartsAreSectors
      <3> QED
        BY <3>1, <3>2, PutChanges DEF WriteApp, FlashInv
    <2> QED  BY <1>1, <2>1, <2>2 DEF AppsSurvive
  <1> QED  BY <1>1, <1>3, <1>4, <1>5 DEF FlashInv

\* Every step of the bootloader and of the kernel keeps the invariant.
LEMMA FlashInduction ==
  ASSUME \A b \in Boards : FlashApart(b)
  PROVE  Spec => []FlashInv
  <1>1. Init => FlashInv
    BY PartsAreSectors DEF Init, FlashInv, TypeOK, BootSurvives, KernelSurvives,
                           AppsSurvive
  <1>2. FlashInv /\ [Next]_vars => FlashInv'
    <2> SUFFICES ASSUME FlashInv, [Next]_vars
                 PROVE  FlashInv'
      OBVIOUS
    <2>1. FlashApart(board)
      BY DEF FlashInv, TypeOK
    <2>2. TypeOK' /\ board' = board
      BY FlashType DEF FlashInv
    <2>3. CASE StartKernel \/ StartUpdate \/ Reset \/ UNCHANGED vars
      <3>1. UNCHANGED <<board, flash, apps>>
        BY <2>3 DEF StartKernel, StartUpdate, Reset, vars
      <3>2. KernelSurvives'
        BY <2>3 DEF StartKernel, StartUpdate, Reset, vars, FlashInv, KernelSurvives
      <3> QED
        BY <2>2, <3>1, <3>2 DEF FlashInv, BootSurvives, AppsSurvive
    <2>4. ASSUME NEW page \in AppPages(board), RejectApp(page)
          PROVE  FlashInv'
      <3>1. UNCHANGED <<board, flash, mode, apps>>
        BY <2>4 DEF RejectApp
      <3> QED
        BY <2>2, <3>1 DEF FlashInv, BootSurvives, KernelSurvives, AppsSurvive
    <2> QED  BY <2>1, <2>3, <2>4, UpdateKeeps, AppKeeps DEF Next
  <1> QED  BY <1>1, <1>2, PTL DEF Spec

\* What the bootloader needs of a layout, for itself.
BootApart(b) ==
  /\ BootSectors(b) \cap KernelSectors(b) = {}
  /\ \A page \in AppPages(b) : BootSectors(b) \cap PageSectors(b, page) = {}

(***************************************************************************)
(* No update and no installation, interrupted anywhere, erases the         *)
(* bootloader, on any board where neither reaches its sectors: whether     *)
(* kernel and applications are apart does not matter to it.                *)
(***************************************************************************)
THEOREM BootloaderSurvives ==
  ASSUME \A b \in Boards : BootApart(b)
  PROVE  Spec => [](TypeOK /\ BootSurvives)
  <1>1. Init => TypeOK /\ BootSurvives
    BY PartsAreSectors DEF Init, TypeOK, BootSurvives
  <1>2. TypeOK /\ BootSurvives /\ [Next]_vars => (TypeOK /\ BootSurvives)'
    <2> SUFFICES ASSUME TypeOK, BootSurvives, [Next]_vars
                 PROVE  BootSurvives'
      BY FlashType
    <2>1. board \in Boards /\ board' = board
      BY FlashType DEF TypeOK
    <2>2. BootApart(board) /\ BootSectors(board) \subseteq SectorsOf(board)
      BY <2>1, PartsAreSectors
    <2>3. CASE StartKernel \/ StartUpdate \/ Reset \/ UNCHANGED vars
      BY <2>3 DEF StartKernel, StartUpdate, Reset, vars, BootSurvives
    <2>4. ASSUME NEW s \in KernelSectors(board), EraseKernel(s) \/ WriteKernel(s)
          PROVE  BootSurvives'
      <3>1. \A q \in SectorsOf(board) : q # s => flash'[q] = flash[q]
        BY <2>4, PutChanges DEF EraseKernel, WriteKernel
      <3> QED  BY <2>1, <2>2, <3>1 DEF BootApart, BootSurvives
    <2>5. ASSUME NEW page \in AppPages(board),
                 EraseApp(page) \/ WriteApp(page) \/ RejectApp(page) \/ RemoveApp(page)
          PROVE  BootSurvives'
      <3>1. \A q \in SectorsOf(board) :
              q \notin PageSectors(board, page) => flash'[q] = flash[q]
        BY <2>5, PutChanges DEF EraseApp, WriteApp, RejectApp, RemoveApp
      <3> QED  BY <2>1, <2>2, <3>1 DEF BootApart, BootSurvives
    <2> QED  BY <2>3, <2>4, <2>5 DEF Next
  <1> QED  BY <1>1, <1>2, PTL DEF Spec

(***************************************************************************)
(* An application the user has installed stays in its page, whatever is    *)
(* updated, installed or interrupted besides.                              *)
(***************************************************************************)
THEOREM ApplicationsSurvive ==
  ASSUME \A b \in Boards : FlashApart(b)
  PROVE  Spec => []AppsSurvive
  <1>1. FlashInv => AppsSurvive
    BY DEF FlashInv
  <1> QED  BY <1>1, FlashInduction, PTL

(***************************************************************************)
(* All three together: updates and installations, interrupted anywhere,    *)
(* leave the bootloader, a running kernel and every application whole.     *)
(***************************************************************************)
THEOREM FlashIsShared ==
  ASSUME \A b \in Boards : FlashApart(b)
  PROVE  Spec => [](BootSurvives /\ KernelSurvives /\ AppsSurvive)
  <1>1. FlashInv => BootSurvives /\ KernelSurvives /\ AppsSurvive
    BY DEF FlashInv
  <1> QED  BY <1>1, FlashInduction, PTL

\* Every step of a boot flow is one of FlashMap, or leaves the flash alone.
LEMMA FlowStepIsFlashStep ==
  ASSUME [FlowNext]_flowVars
  PROVE  [Next]_vars
  <1>1. CASE HostErases \/ HostWrites
    BY <1>1 DEF HostErases, HostWrites, Next
  <1>2. ASSUME NEW page \in AppPages(board),
               Install(page) \/ TryKey(page) \/ NoKey(page) \/ Remove(page)
        PROVE  [Next]_vars
    BY <1>2 DEF Install, TryKey, NoKey, Remove, Next
  <1>3. CASE HostResets \/ boot_invoke_bootloader \/ PowerLoss \/ ResetButton
    BY <1>3 DEF HostResets, boot_invoke_bootloader, PowerLoss, ResetButton,
                Restarts, Next
  <1>4. CASE RunKernel \/ Stay
    BY <1>4 DEF RunKernel, Stay, Next
  <1>5. CASE ClearStatics \/ OpenLink \/ World \/ UNCHANGED flowVars
    BY <1>5 DEF ClearStatics, OpenLink, World, flowVars
  <1> QED  BY <1>1, <1>2, <1>3, <1>4, <1>5 DEF FlowNext

(***************************************************************************)
(* What the bootloader, the host, the user and the kernel do around it is  *)
(* sharing the flash: a boot flow is a behaviour of FlashMap.              *)
(***************************************************************************)
THEOREM FlowIsFlashMap == FlowSafety => Spec
  <1>1. FlowInit => Init
    BY DEF FlowInit
  <1>2. [FlowNext]_flowVars => [Next]_vars
    BY FlowStepIsFlashStep
  <1> QED  BY <1>1, <1>2, PTL DEF FlowSafety, Spec

\* The request word is in nobody's way.
WordSafe(b) == ~Overlap(Region(RequestAddress, 1), Cleared(b))

\* A request that is not yet answered is in the word.
AskedInv == board \in Boards /\ (asked => mode = "boot" /\ word)

(***************************************************************************)
(* Nothing between the kernel's call and the bootloader's look takes the   *)
(* request away.                                                           *)
(***************************************************************************)
LEMMA AskedStep ==
  ASSUME \A b \in Boards : WordSafe(b), AskedInv, [FlowNext]_flowVars
  PROVE  AskedInv'
  <1> USE DEF AskedInv
  <1>1. CASE ClearStatics
    <2>1. ~WordCleared
      BY DEF WordSafe, WordCleared
    <2> QED  BY <1>1, <2>1 DEF ClearStatics, vars
  <1>2. CASE RunKernel \/ Stay
    BY <1>2 DEF RunKernel, Stay, StartKernel, StartUpdate, Wanted
  <1>3. CASE HostErases \/ HostWrites
    <2>1. UNCHANGED <<board, bootVars>> /\ mode # "boot"
      BY <1>3 DEF HostErases, HostWrites, EraseKernel, WriteKernel
    <2> QED  BY <2>1 DEF bootVars
  <1>4. CASE HostResets \/ boot_invoke_bootloader \/ PowerLoss \/ ResetButton
    BY <1>4 DEF HostResets, boot_invoke_bootloader, PowerLoss, ResetButton,
                Restarts, Reset
  <1>5. ASSUME NEW page \in AppPages(board),
               Install(page) \/ TryKey(page) \/ NoKey(page) \/ Remove(page)
        PROVE  AskedInv'
    <2>1. UNCHANGED <<board, mode, word, asked>>
      BY <1>5 DEF Install, TryKey, NoKey, Remove, EraseApp, WriteApp, RejectApp,
                  RemoveApp, others, bootVars, vars
    <2> QED  BY <2>1
  <1>6. CASE OpenLink \/ World \/ UNCHANGED flowVars
    BY <1>6 DEF OpenLink, World, flowVars, vars, bootVars
  <1> QED  BY <1>1, <1>2, <1>3, <1>4, <1>5, <1>6 DEF FlowNext

(***************************************************************************)
(* On every board whose start-up code leaves the request word alone, no    *)
(* start goes past a request to the kernel.                                *)
(***************************************************************************)
THEOREM RequestsAreHonoured ==
  ASSUME \A b \in Boards : WordSafe(b)
  PROVE  FlowSafety => RequestHonoured
  <1>1. FlowInit => AskedInv
    BY DEF FlowInit, Init, AskedInv
  <1>2. AskedInv /\ [FlowNext]_flowVars => AskedInv'
    BY AskedStep
  <1>3. AskedInv /\ [FlowNext]_flowVars =>
          [mode = "boot" /\ mode' = "kernel" => ~asked /\ ~button]_flowVars
    <2> SUFFICES ASSUME AskedInv, [FlowNext]_flowVars, mode = "boot", mode' = "kernel"
                 PROVE  ~asked /\ ~button
      OBVIOUS
    <2>1. RunKernel
      BY DEF FlowNext, ClearStatics, Stay, StartUpdate, HostErases, EraseKernel,
             HostWrites, WriteKernel, HostResets, Restarts, Reset, OpenLink,
             Install, TryKey, NoKey, Remove, EraseApp, WriteApp, RejectApp, RemoveApp,
             boot_invoke_bootloader, PowerLoss, ResetButton, World, vars, flowVars
    <2> QED  BY <2>1 DEF RunKernel, Wanted, boot_is_bootloader_requested, PinRead, AskedInv
  <1> QED  BY <1>1, <1>2, <1>3, PTL DEF FlowSafety, RequestHonoured

(***************************************************************************)
(* The search for a key, and its invariant: an application is being        *)
(* installed only while the kernel runs, in pages that hold no other, and  *)
(* none of the keys tried so far is its signer's.                          *)
(***************************************************************************)
TriedInv ==
  /\ tried \in 0..KeyTotal
  /\ writing # {} =>
       /\ mode = "kernel"
       /\ writing \cap apps = {}
       /\ \A n \in 1..tried : public_keys[n] # signer

\* What the kernel learns from a call: below the end the key at that place,
\* from the end on that there is none.
LEMMA KeyAnswers ==
  ASSUME NEW n \in 0..KeyTotal
  PROVE  /\ sys_get_public_key(n).result = 0 =>
              n < KeyTotal /\ sys_get_public_key(n).id = public_keys[n + 1]
         /\ sys_get_public_key(n).result # 0 => n = KeyTotal
  <1>1. KeyTotal \in Nat
    BY DEF KeyTotal, public_keys
  <1> HIDE DEF KeyTotal, public_keys
  <1> QED  BY <1>1 DEF sys_get_public_key

\* What a step does to the search.
LEMMA TriedStep ==
  ASSUME TypeOK, TriedInv, [FlowNext]_flowVars
  PROVE  TriedInv'
  <1>0. KeyTotal \in Nat
    BY DEF KeyTotal, public_keys
  <1> HIDE DEF KeyTotal, public_keys
  <1>1. CASE HostErases \/ HostWrites
    BY <1>1 DEF HostErases, HostWrites, EraseKernel, WriteKernel, bootVars, install,
                TriedInv
  <1>2. CASE HostResets \/ boot_invoke_bootloader \/ PowerLoss \/ ResetButton
    BY <1>0, <1>2 DEF HostResets, boot_invoke_bootloader, PowerLoss, ResetButton,
                      Restarts, Reset, TriedInv
  <1>3. CASE RunKernel \/ Stay
    BY <1>3 DEF RunKernel, Stay, StartKernel, StartUpdate, install, TriedInv
  <1>4. CASE ClearStatics \/ OpenLink \/ World \/ UNCHANGED flowVars
    BY <1>4 DEF ClearStatics, OpenLink, World, flowVars, vars, bootVars, install,
                TriedInv
  <1>5. ASSUME NEW page \in AppPages(board), Install(page)
        PROVE  TriedInv'
    BY <1>0, <1>5 DEF Install, EraseApp, TriedInv
  <1>6. ASSUME NEW page \in AppPages(board), TryKey(page)
        PROVE  TriedInv'
    <2>1. tried < KeyTotal /\ sys_get_public_key(tried).id = public_keys[tried + 1]
      BY <1>6, KeyAnswers DEF TryKey, TriedInv
    <2>2. CASE WriteApp(page) /\ tried' = 0
      BY <1>0, <2>2 DEF WriteApp, TriedInv
    <2>3. CASE /\ public_keys[tried + 1] # signer /\ UNCHANGED <<vars, signer>>
               /\ tried' = tried + 1
      <3>1. \A n \in 1..tried' : n \in 1..tried \/ n = tried + 1
        BY <2>3 DEF TriedInv
      <3> QED
        BY <1>0, <2>1, <2>3, <3>1 DEF TriedInv, vars
    <2> QED
      BY <1>6, <2>1, <2>2, <2>3 DEF TryKey
  <1>7. ASSUME NEW page \in AppPages(board), NoKey(page)
        PROVE  TriedInv'
    BY <1>0, <1>7 DEF NoKey, RejectApp, TriedInv
  <1>8. ASSUME NEW page \in AppPages(board), Remove(page)
        PROVE  TriedInv'
    BY <1>8 DEF Remove, RemoveApp, bootVars, install, TriedInv
  <1> QED  BY <1>1, <1>2, <1>3, <1>4, <1>5, <1>6, <1>7, <1>8 DEF FlowNext

\* Every variable of a boot flow keeps its type, whatever the layout.
LEMMA FlowTypeStep ==
  ASSUME FlowTypeOK, TriedInv', [FlowNext]_flowVars
  PROVE  FlowTypeOK'
  <1> USE DEF FlowTypeOK
  <1>1. TypeOK'
    BY FlowStepIsFlashStep, FlashType
  <1>2. tried' \in 0..KeyTotal
    BY DEF TriedInv
  <1> HIDE DEF KeyTotal, public_keys, sys_get_public_key, TypeOK
  <1>3. CASE ClearStatics \/ OpenLink \/ World \/ UNCHANGED flowVars
    BY <1>1, <1>2, <1>3 DEF ClearStatics, OpenLink, World, flowVars, vars, bootVars,
                            install, env
  <1>4. CASE RunKernel \/ Stay
    BY <1>1, <1>2, <1>4 DEF RunKernel, Stay, install, env
  <1>5. CASE HostErases \/ HostWrites
    BY <1>1, <1>2, <1>5 DEF HostErases, HostWrites, bootVars, install
  <1>6. CASE HostResets \/ boot_invoke_bootloader \/ PowerLoss \/ ResetButton
    BY <1>1, <1>2, <1>6 DEF HostResets, boot_invoke_bootloader, PowerLoss,
                            ResetButton, Restarts, env
  <1>7. ASSUME NEW page \in AppPages(board),
               Install(page) \/ TryKey(page) \/ NoKey(page) \/ Remove(page)
        PROVE  FlowTypeOK'
    BY <1>1, <1>2, <1>7 DEF Install, TryKey, NoKey, Remove, others, bootVars,
                            install, env
  <1> QED  BY <1>3, <1>4, <1>5, <1>6, <1>7 DEF FlowNext

\* Typing and the search together are inductive.
LEMMA FlowInduction == FlowSafety => [](FlowTypeOK /\ TriedInv)
  <1>1. FlowInit => FlowTypeOK /\ TriedInv
    <2>1. KeyTotal \in Nat
      BY DEF KeyTotal, public_keys
    <2>2. Init => TypeOK
      BY PartsAreSectors DEF Init, TypeOK
    <2> HIDE DEF KeyTotal, public_keys
    <2>3. FlowInit => TriedInv
      BY <2>1 DEF FlowInit, Init, TriedInv
    <2>4. FlowInit => FlowTypeOK
      <3>1. 0 \in 0..KeyTotal
        BY <2>1
      <3> QED
        BY <2>2, <3>1, Zenon DEF FlowInit, FlowTypeOK
    <2> QED
      BY <2>3, <2>4
  <1>2. FlowTypeOK /\ TriedInv /\ [FlowNext]_flowVars => (FlowTypeOK /\ TriedInv)'
    BY TriedStep, FlowTypeStep DEF FlowTypeOK
  <1> QED  BY <1>1, <1>2, PTL DEF FlowSafety

(***************************************************************************)
(* A boot flow is type correct on every layout: the flash holds what some  *)
(* party put there, and the kernel never asks for a key past the end.      *)
(***************************************************************************)
THEOREM FlowTypeCorrect == FlowSafety => []FlowTypeOK
  BY FlowInduction, PTL

(***************************************************************************)
(* Whatever the board, its layout and the signers of what is sent to it,   *)
(* an installation that is not cut short succeeds exactly if one of the    *)
(* board's keys is the signer's.                                           *)
(***************************************************************************)
THEOREM KeysDecideAlone == FlowSafety => KeysDecide
  <1>1. FlowTypeOK /\ TriedInv /\ [FlowNext]_flowVars =>
          [writing # {} /\ writing' = {} /\ mode' = "kernel" =>
             (apps' # apps <=> signer \in Known)]_flowVars
    <2> SUFFICES ASSUME TriedInv, [FlowNext]_flowVars,
                        writing # {}, writing' = {}, mode' = "kernel"
                 PROVE  apps' # apps <=> signer \in Known
      OBVIOUS
    <2>0. KeyTotal \in Nat
      BY DEF KeyTotal, public_keys
    <2> HIDE DEF KeyTotal, public_keys, sys_get_public_key
    <2>1. PICK page \in AppPages(board) : TryKey(page) \/ NoKey(page)
      BY DEF FlowNext, ClearStatics, RunKernel, StartKernel, Stay, StartUpdate,
             HostErases, EraseKernel, HostWrites, WriteKernel, HostResets, OpenLink,
             boot_invoke_bootloader, PowerLoss, ResetButton, Restarts, Reset, World,
             Install, EraseApp, Remove, RemoveApp, vars, flowVars
    <2>2. CASE TryKey(page)
      <3>1. sys_get_public_key(tried).id = signer /\ WriteApp(page)
        BY <2>2 DEF TryKey, vars
      <3>2. tried < KeyTotal /\ sys_get_public_key(tried).id = public_keys[tried + 1]
        BY <2>2, KeyAnswers DEF TryKey, TriedInv
      <3>3. tried + 1 \in 1..KeyTotal
        BY <2>0, <3>2 DEF TriedInv
      <3>4. signer \in Known
        BY <3>1, <3>2, <3>3 DEF Known
      <3>5. page \notin apps /\ page \in apps'
        BY <3>1 DEF WriteApp, TriedInv
      <3> QED  BY <3>4, <3>5
    <2>3. CASE NoKey(page)
      <3>1. tried = KeyTotal
        BY <2>3, KeyAnswers DEF NoKey, TriedInv
      <3>2. signer \notin Known
        BY <3>1 DEF Known, TriedInv
      <3>3. apps' = apps
        BY <2>3 DEF NoKey, RejectApp
      <3> QED  BY <3>2, <3>3
    <2> QED  BY <2>1, <2>2, <2>3
  <1> QED  BY <1>1, FlowInduction, PTL DEF FlowSafety, KeysDecide

(***************************************************************************)
(* FlashApart, from addresses.  An address is a sector's border if no      *)
(* sector lies across it; regions on either side of one share no sector.   *)
(***************************************************************************)
Border(b, k) ==
  \A s \in SectorsOf(b) :
    End(Sector(Layout[b].unit, s)) <= k \/ k <= Sector(Layout[b].unit, s).start

\* A region of flash: it starts and ends somewhere, in that order.
IsRegion(r) == r.start \in Nat /\ r.size \in Nat

LEMMA SectorIsRegion ==
  ASSUME NEW unit \in Nat, NEW s \in Nat \ {0}
  PROVE  IsRegion(Sector(unit, s))
  <1>1. CASE s <= 4
    <2>1. s - 1 \in Nat /\ (s - 1) * unit \in Nat
      OBVIOUS
    <2> QED  BY <1>1, <2>1 DEF Sector, Region, IsRegion
  <1>2. CASE s = 5
    BY <1>2 DEF Sector, Region, IsRegion
  <1>3. CASE s > 5
    <2>1. (s - 5) * 8 \in Nat /\ (s - 5) * 8 * unit \in Nat
      BY <1>3
    <2> QED  BY <1>3, <2>1 DEF Sector, Region, IsRegion
  <1> QED  BY <1>1, <1>2, <1>3

\* Two regions with a border between them are in different sectors.
LEMMA BorderParts ==
  ASSUME NEW b, Layout[b].unit \in Nat, Layout[b].link.flash_page_count \in Nat,
         NEW r, IsRegion(r), NEW q, IsRegion(q),
         NEW k \in Nat, End(r) <= k, k <= q.start, Border(b, k)
  PROVE  Touches(b, r) \cap Touches(b, q) = {}
  <1> SUFFICES ASSUME NEW s \in SectorsOf(b),
                      Overlap(Sector(Layout[b].unit, s), r),
                      Overlap(Sector(Layout[b].unit, s), q)
               PROVE  FALSE
    BY DEF Touches
  <1> DEFINE sec == Sector(Layout[b].unit, s)
  <1>1. s \in Nat \ {0}
    BY DEF SectorsOf
  <1>2. sec.start \in Nat /\ sec.size \in Nat
    BY <1>1, SectorIsRegion DEF IsRegion
  <1>3. End(sec) <= k \/ k <= sec.start
    BY DEF Border
  <1>4. sec.start < End(r) /\ q.start < End(sec)
    BY DEF Overlap
  <1> HIDE DEF sec
  <1> QED  BY <1>2, <1>3, <1>4 DEF End, IsRegion

(***************************************************************************)
(* A layout in order: the bootloader, then pages that do not overlap and   *)
(* start at borders, then the kernel, which starts at one too.             *)
(***************************************************************************)
InOrder(b) ==
  LET kernel == Layout[b].build.kernel
      boot == Layout[b].appfs.boot
  IN /\ Layout[b].unit \in Nat /\ Layout[b].link.flash_page_count \in Nat
     /\ boot \in Nat /\ kernel \in Nat /\ Layout[b].link.flash.size - kernel \in Nat
     /\ Border(b, kernel) /\ boot <= kernel
     /\ \A page \in AppPages(b) :
          /\ IsRegion(page) /\ Border(b, page.start)
          /\ boot <= page.start /\ End(page) <= kernel
          /\ \A other \in AppPages(b) : other # page =>
               End(page) <= other.start \/ End(other) <= page.start

LEMMA InOrderIsApart ==
  ASSUME NEW b \in Boards, InOrder(b)
  PROVE  FlashApart(b)
  <1> DEFINE bl == Region(0, Layout[b].appfs.boot)
  <1>1. /\ BootSectors(b) = Touches(b, bl)
        /\ KernelSectors(b) = Touches(b, KernelFlash(b))
        /\ \A page \in AppPages(b) : PageSectors(b, page) = Touches(b, page)
    BY DEF BootSectors, KernelSectors, PageSectors, Parts
  <1>2. /\ IsRegion(bl) /\ End(bl) = Layout[b].appfs.boot
        /\ IsRegion(KernelFlash(b))
        /\ KernelFlash(b).start = Layout[b].build.kernel
    BY DEF InOrder, IsRegion, KernelFlash, Region, End
  <1> HIDE DEF bl
  <1>3. BootSectors(b) \cap KernelSectors(b) = {}
    BY <1>1, <1>2, BorderParts DEF InOrder, IsRegion
  <1>4. ASSUME NEW page \in AppPages(b)
        PROVE  /\ PageSectors(b, page) \cap BootSectors(b) = {}
               /\ PageSectors(b, page) \cap KernelSectors(b) = {}
               /\ \A other \in AppPages(b) :
                    other # page => PageSectors(b, page) \cap PageSectors(b, other) = {}
    <2>1. Touches(b, bl) \cap Touches(b, page) = {}
      BY <1>2, BorderParts DEF InOrder, IsRegion
    <2>2. Touches(b, page) \cap Touches(b, KernelFlash(b)) = {}
      BY <1>2, BorderParts DEF InOrder, IsRegion
    <2>3. ASSUME NEW other \in AppPages(b), other # page
          PROVE  Touches(b, page) \cap Touches(b, other) = {}
      <3>1. CASE End(page) <= other.start
        BY <3>1, BorderParts DEF InOrder, IsRegion
      <3>2. CASE End(other) <= page.start
        <4>1. Touches(b, other) \cap Touches(b, page) = {}
          BY <3>2, BorderParts DEF InOrder, IsRegion
        <4> QED  BY <4>1
      <3> QED  BY <2>3, <3>1, <3>2 DEF InOrder
    <2> QED  BY <1>1, <2>1, <2>2, <2>3
  <1> QED  BY <1>3, <1>4 DEF FlashApart

\* The boards of the repository whose kernel starts behind the pages, with
\* the numbers of their linker scripts, pages and builds; on the F746ZG it
\* starts in the middle of a page.
LEMMA F446ZE_InOrder ==
  ASSUME Layout = Layouts
  PROVE  InOrder("F446ZE")
  <1> DEFINE b == "F446ZE"
  <1>1. /\ Layout[b].unit = 16 /\ Layout[b].appfs = F446ZE_appfs
        /\ Layout[b].link = F446ZE_link /\ Layout[b].build = F446ZE_build
    BY DEF Layouts, Board
  <1>2. /\ Layout[b].link.flash_page_count = 8 /\ Layout[b].link.flash.size = 512
        /\ Layout[b].build.kernel = 256 /\ Layout[b].appfs.boot = 32
    BY <1>1 DEF F446ZE_appfs, F446ZE_link, F446ZE_build, Region
  <1>3. \A page \in AppPages(b) : page \in
          {Region(32, 16), Region(48, 16), Region(64, 64),
           Region(128, 128)}
    BY <1>1 DEF AppPages, F446ZE_appfs, SectionPages
  <1>4. \A k \in {32, 48, 64, 128, 256} : Border(b, k)
    BY <1>1, <1>2 DEF Border, SectorsOf, Sector, Region, End
  <1>5. \A page \in AppPages(b) :
          /\ IsRegion(page) /\ Border(b, page.start)
          /\ 32 <= page.start /\ End(page) <= 256
    BY <1>3, <1>4 DEF IsRegion, Region, End
  <1>6. \A page \in AppPages(b) : \A other \in AppPages(b) : other # page =>
          End(page) <= other.start \/ End(other) <= page.start
    BY <1>3 DEF Region, End
  <1> QED  BY <1>1, <1>2, <1>4, <1>5, <1>6 DEF InOrder

LEMMA F767ZI_InOrder ==
  ASSUME Layout = Layouts
  PROVE  InOrder("F767ZI")
  <1> DEFINE b == "F767ZI"
  <1>1. /\ Layout[b].unit = 32 /\ Layout[b].appfs = F767ZI_appfs
        /\ Layout[b].link = F767ZI_link /\ Layout[b].build = F767ZI_build
    BY DEF Layouts, Board
  <1>2. /\ Layout[b].link.flash_page_count = 12 /\ Layout[b].link.flash.size = 2048
        /\ Layout[b].build.kernel = 1536 /\ Layout[b].appfs.boot = 32
    BY <1>1 DEF F767ZI_appfs, F767ZI_link, F767ZI_build, Region
  <1>3. \A page \in AppPages(b) : page \in
          {Region(32, 32), Region(64, 32), Region(96, 32),
           Region(128, 128), Region(256, 256), Region(512, 256),
           Region(768, 256), Region(1024, 256), Region(1280, 256)}
    BY <1>1 DEF AppPages, F767ZI_appfs, SectionPages
  <1>4. \A k \in {32, 64, 96, 128, 256, 512, 768, 1024, 1280, 1536} : Border(b, k)
    BY <1>1, <1>2 DEF Border, SectorsOf, Sector, Region, End
  <1>5. \A page \in AppPages(b) :
          /\ IsRegion(page) /\ Border(b, page.start)
          /\ 32 <= page.start /\ End(page) <= 1536
    BY <1>3, <1>4 DEF IsRegion, Region, End
  <1>6. \A page \in AppPages(b) : \A other \in AppPages(b) : other # page =>
          End(page) <= other.start \/ End(other) <= page.start
    BY <1>3 DEF Region, End
  <1> QED  BY <1>1, <1>2, <1>4, <1>5, <1>6 DEF InOrder

LEMMA F412ZG_InOrder ==
  ASSUME Layout = Layouts
  PROVE  InOrder("F412ZG")
  <1> DEFINE b == "F412ZG"
  <1>1. /\ Layout[b].unit = 16 /\ Layout[b].appfs = F412ZG_appfs
        /\ Layout[b].link = F412ZG_link /\ Layout[b].build = F412ZG_build
    BY DEF Layouts, Board
  <1>2. /\ Layout[b].link.flash_page_count = 12 /\ Layout[b].link.flash.size = 1024
        /\ Layout[b].build.kernel = 768 /\ Layout[b].appfs.boot = 48
    BY <1>1 DEF F412ZG_appfs, F412ZG_link, F412ZG_build, Region
  <1>3. \A page \in AppPages(b) : page \in
          {Region(48, 16), Region(64, 64), Region(128, 128),
           Region(256, 128), Region(384, 128), Region(512, 128),
           Region(640, 128)}
    BY <1>1 DEF AppPages, F412ZG_appfs, SectionPages
  <1>4. \A k \in {48, 64, 128, 256, 384, 512, 640, 768} : Border(b, k)
    BY <1>1, <1>2 DEF Border, SectorsOf, Sector, Region, End
  <1>5. \A page \in AppPages(b) :
          /\ IsRegion(page) /\ Border(b, page.start)
          /\ 48 <= page.start /\ End(page) <= 768
    BY <1>3, <1>4 DEF IsRegion, Region, End
  <1>6. \A page \in AppPages(b) : \A other \in AppPages(b) : other # page =>
          End(page) <= other.start \/ End(other) <= page.start
    BY <1>3 DEF Region, End
  <1> QED  BY <1>1, <1>2, <1>4, <1>5, <1>6 DEF InOrder

LEMMA F413ZH_InOrder ==
  ASSUME Layout = Layouts
  PROVE  InOrder("F413ZH")
  <1> DEFINE b == "F413ZH"
  <1>1. /\ Layout[b].unit = 16 /\ Layout[b].appfs = F413ZH_appfs
        /\ Layout[b].link = F413ZH_link /\ Layout[b].build = F413ZH_build
    BY DEF Layouts, Board
  <1>2. /\ Layout[b].link.flash_page_count = 16 /\ Layout[b].link.flash.size = 1536
        /\ Layout[b].build.kernel = 1024 /\ Layout[b].appfs.boot = 48
    BY <1>1 DEF F413ZH_appfs, F413ZH_link, F413ZH_build, Region
  <1>3. \A page \in AppPages(b) : page \in
          {Region(48, 16), Region(64, 64), Region(128, 128),
           Region(256, 128), Region(384, 128), Region(512, 128),
           Region(640, 128), Region(768, 128), Region(896, 128)}
    BY <1>1 DEF AppPages, F413ZH_appfs, SectionPages
  <1>4. \A k \in {48, 64, 128, 256, 384, 512, 640, 768, 896, 1024} : Border(b, k)
    BY <1>1, <1>2 DEF Border, SectorsOf, Sector, Region, End
  <1>5. \A page \in AppPages(b) :
          /\ IsRegion(page) /\ Border(b, page.start)
          /\ 48 <= page.start /\ End(page) <= 1024
    BY <1>3, <1>4 DEF IsRegion, Region, End
  <1>6. \A page \in AppPages(b) : \A other \in AppPages(b) : other # page =>
          End(page) <= other.start \/ End(other) <= page.start
    BY <1>3 DEF Region, End
  <1> QED  BY <1>1, <1>2, <1>4, <1>5, <1>6 DEF InOrder

OrderedBoards == {"F446ZE", "F767ZI", "F412ZG", "F413ZH"}

\* All of them keep the parties apart.
LEMMA OrderedBoardsAreApart ==
  ASSUME Layout = Layouts, Boards \subseteq OrderedBoards
  PROVE  \A b \in Boards : FlashApart(b)
  <1>1. \A b \in OrderedBoards : InOrder(b)
    BY F446ZE_InOrder, F767ZI_InOrder, F412ZG_InOrder, F413ZH_InOrder DEF OrderedBoards
  <1> QED  BY <1>1, InOrderIsApart

(***************************************************************************)
(* On these boards, with no further premise: from reset to kernel and      *)
(* back, through updates, installations and power losses, for any number   *)
(* of applications and any signers, nobody erases what another owns.       *)
(***************************************************************************)
THEOREM BoardsShareFlash ==
  ASSUME Layout = Layouts, Boards \subseteq OrderedBoards
  PROVE  FlowSafety => [](BootSurvives /\ KernelSurvives /\ AppsSurvive)
  <1>1. \A b \in Boards : FlashApart(b)
    BY OrderedBoardsAreApart
  <1>2. Spec => [](BootSurvives /\ KernelSurvives /\ AppsSurvive)
    BY <1>1, FlashIsShared
  <1> QED  BY <1>2, FlowIsFlashMap, PTL

\* On the F746ZG no sector lies across the border behind the bootloader.
LEMMA F746ZG_BootApart ==
  ASSUME Layout = Layouts, "F746ZG" \in Boards
  PROVE  BootApart("F746ZG")
  <1> DEFINE b == "F746ZG"
             bl == Region(0, Layout[b].appfs.boot)
  <1>1. /\ Layout[b].unit = 32 /\ Layout[b].appfs = F746ZG_appfs
        /\ Layout[b].link = F746ZG_link /\ Layout[b].build = F746ZG_build
    BY DEF Layouts, Board
  <1>2. /\ Layout[b].link.flash_page_count = 8 /\ Layout[b].link.flash.size = 1024
        /\ Layout[b].build.kernel = 384 /\ Layout[b].appfs.boot = 32
    BY <1>1 DEF F746ZG_appfs, F746ZG_link, F746ZG_build, Region
  <1>3. \A page \in AppPages(b) : IsRegion(page) /\ 32 <= page.start
    BY <1>1 DEF AppPages, F746ZG_appfs, SectionPages, Region, IsRegion
  <1>4. Border(b, 32)
    BY <1>1, <1>2 DEF Border, SectorsOf, Sector, Region, End
  <1>5. IsRegion(bl) /\ End(bl) = 32
    BY <1>2 DEF IsRegion, Region, End
  <1>6. IsRegion(KernelFlash(b)) /\ 32 <= KernelFlash(b).start
    BY <1>2 DEF KernelFlash, IsRegion, Region
  <1>7. /\ BootSectors(b) = Touches(b, bl)
        /\ KernelSectors(b) = Touches(b, KernelFlash(b))
        /\ \A page \in AppPages(b) : PageSectors(b, page) = Touches(b, page)
    BY DEF BootSectors, KernelSectors, PageSectors, Parts
  <1> HIDE DEF bl
  <1>8. Touches(b, bl) \cap Touches(b, KernelFlash(b)) = {}
    BY <1>1, <1>2, <1>4, <1>5, <1>6, BorderParts
  <1>9. \A page \in AppPages(b) : Touches(b, bl) \cap Touches(b, page) = {}
    BY <1>1, <1>2, <1>3, <1>4, <1>5, BorderParts
  <1> QED  BY <1>7, <1>8, <1>9 DEF BootApart

(***************************************************************************)
(* On every board of the repository, the F746ZG included whose kernel and  *)
(* applications share sectors, the bootloader survives whatever happens.   *)
(***************************************************************************)
THEOREM BoardsKeepBootloader ==
  ASSUME Layout = Layouts, Boards \subseteq AllBoards
  PROVE  FlowSafety => []BootSurvives
  <1>1. ASSUME NEW b \in Boards
        PROVE  BootApart(b)
    <2>1. CASE b = "F746ZG"
      BY <2>1, F746ZG_BootApart
    <2>2. CASE b \in OrderedBoards
      <3>1. InOrder(b)
        BY <2>2, F446ZE_InOrder, F767ZI_InOrder, F412ZG_InOrder, F413ZH_InOrder
        DEF OrderedBoards
      <3> QED  BY <3>1, InOrderIsApart DEF FlashApart, BootApart
    <2> QED  BY <2>1, <2>2 DEF AllBoards, OrderedBoards
  <1>2. Spec => [](TypeOK /\ BootSurvives)
    BY <1>1, BootloaderSurvives
  <1> QED  BY <1>2, FlowIsFlashMap, PTL

(***************************************************************************)
(* And a request is honoured if the bootloader's statics do not reach the  *)
(* word, 16 KB into the RAM of the boards whose RAM starts at 0; on the    *)
(* F7 boards, whose statics start behind it, whatever they take.           *)
(***************************************************************************)
THEOREM BoardsHonourRequests ==
  ASSUME Layout = Layouts, Boards \subseteq AllBoards,
         BootData <= 16 \/ Boards \subseteq {"F746ZG", "F767ZI"}
  PROVE  FlowSafety => RequestHonoured
  <1>1. ASSUME NEW b \in Boards
        PROVE  WordSafe(b)
    <2>1. Layout[b].link.ram.start \in {0, 64, 128}
      BY DEF Layouts, Board, AllBoards, Region,
             F446ZE_link, F746ZG_link, F767ZI_link, F412ZG_link, F413ZH_link
    <2>2. b \in {"F746ZG", "F767ZI"} => Layout[b].link.ram.start \in {64, 128}
      BY DEF Layouts, Board, Region, F746ZG_link, F767ZI_link
    <2>3. BootData \in Nat
      BY BootDataAssumption
    <2> QED
      BY <2>1, <2>2, <2>3 DEF WordSafe, Cleared, RequestAddress, Overlap, Region, End
  <1> QED  BY <1>1, RequestsAreHonoured

(***************************************************************************)
(* Repairing a board: what is left to do.  Sectors of the kernel are       *)
(* erased, then written; a reset takes two steps to the kernel, or to the  *)
(* link if the kernel is broken or the word still asks.                    *)
(***************************************************************************)
NonBlank == {s \in KernelSectors(board) : flash[s] # Blank}
Unwritten == {s \in KernelSectors(board) : flash[s] # Kernel}
KernelSize == Cardinality(KernelSectors(board))
ToStart == IF stage = "reset" THEN 2 ELSE 1
Distance ==
  IF mode = "kernel" THEN 0
  ELSE IF mode = "write" THEN 3 + Cardinality(Unwritten)
  ELSE IF mode = "erase" THEN 3 + KernelSize + Cardinality(NonBlank)
  ELSE IF word \/ ~KernelWhole THEN ToStart + 3 + 2 * KernelSize
  ELSE ToStart

\* The way to a repair: the link is open from the choice to stay on, the
\* word is gone with it, an update writes blank sectors, and who does not
\* interfere holds no button and has a host connected.
RepairInv ==
  /\ mode = "boot" <=> stage \in {"reset", "main"}
  /\ mode \in {"erase", "write"} => usb /\ ~word
  /\ mode = "write" => \A s \in KernelSectors(board) : flash[s] \in {Blank, Kernel}
  /\ calm => ~button /\ host

\* Some step of the bootloader or the host can be taken: its guards, spelt
\* out.
GoesOn ==
  \/ mode = "boot" /\ stage = "reset"                        \* ClearStatics
  \/ mode = "boot" /\ stage = "main" /\ ~Wanted /\ CanVerify /\ KernelWhole
  \/ mode = "boot" /\ stage = "main" /\ (Wanted \/ ~KernelWhole)  \* Stay
  \/ Served /\ mode = "erase" /\ NonBlank # {}               \* HostErases
  \/ /\ Served /\ Unwritten # {}                             \* HostWrites
     /\ \/ mode = "write" /\ \E s \in KernelSectors(board) : flash[s] = Blank
        \/ mode = "erase" /\ NonBlank = {}
  \/ Served /\ mode \in {"erase", "write"} /\ KernelWhole    \* HostResets

\* A board has finitely many sectors.
Counted == \A b \in Boards : Layout[b].link.flash_page_count \in Nat

LEMMA KernelFinite ==
  ASSUME Counted, NEW b \in Boards
  PROVE  IsFiniteSet(KernelSectors(b))
  <1>1. IsFiniteSet(SectorsOf(b))
    BY FS_Interval DEF Counted, SectorsOf
  <1>2. KernelSectors(b) \subseteq SectorsOf(b)
    BY PartsAreSectors
  <1> QED  BY <1>1, <1>2, FS_Subset

\* What is left is a number, and never more than the kernel's sectors.
LEMMA LeftIsCounted ==
  ASSUME Counted, TypeOK
  PROVE  /\ KernelSize \in Nat
         /\ IsFiniteSet(NonBlank) /\ Cardinality(NonBlank) \in 0..KernelSize
         /\ IsFiniteSet(Unwritten) /\ Cardinality(Unwritten) \in 0..KernelSize
         /\ Distance \in Nat
  <1>1. IsFiniteSet(KernelSectors(board))
    BY KernelFinite DEF TypeOK
  <1>2. KernelSize \in Nat
    BY <1>1, FS_CardinalityType DEF KernelSize
  <1>3. NonBlank \in SUBSET KernelSectors(board) /\ Unwritten \in SUBSET KernelSectors(board)
    BY DEF NonBlank, Unwritten
  <1>4. IsFiniteSet(NonBlank) /\ Cardinality(NonBlank) \in 0..KernelSize
    <2>1. IsFiniteSet(NonBlank) /\ Cardinality(NonBlank) <= KernelSize
      BY <1>1, <1>3, FS_Subset DEF KernelSize
    <2> QED  BY <1>2, <2>1, FS_CardinalityType
  <1>5. IsFiniteSet(Unwritten) /\ Cardinality(Unwritten) \in 0..KernelSize
    <2>1. IsFiniteSet(Unwritten) /\ Cardinality(Unwritten) <= KernelSize
      BY <1>1, <1>3, FS_Subset DEF KernelSize
    <2> QED  BY <1>2, <2>1, FS_CardinalityType
  <1> HIDE DEF KernelSize
  <1>6. Distance \in Nat
    BY <1>2, <1>4, <1>5 DEF Distance, ToStart
  <1> QED  BY <1>2, <1>4, <1>5, <1>6

\* A board, and with it its kernel's size, never changes.
LEMMA SizeStays ==
  ASSUME TypeOK, [Next]_vars
  PROVE  KernelSize' = KernelSize
  BY FlashType DEF KernelSize

\* What a step does to the way.
LEMMA RepairStep ==
  ASSUME TypeOK, RepairInv, [FlowNext]_flowVars
  PROVE  RepairInv'
  <1> USE DEF RepairInv
  <1>0. board' = board /\ TypeOK'
    BY FlowStepIsFlashStep, FlashType
  <1>1. CASE HostErases
    <2>1. mode = "erase" /\ mode' = mode /\ UNCHANGED bootVars
      BY <1>1 DEF HostErases, EraseKernel
    <2> QED  BY <2>1 DEF bootVars
  <1>2. CASE HostWrites
    <2>1. PICK s \in KernelSectors(board) : WriteKernel(s)
      BY <1>2 DEF HostWrites
    <2>2. /\ mode \in {"erase", "write"} /\ mode' = "write"
          /\ UNCHANGED bootVars
      BY <1>2, <2>1 DEF HostWrites, WriteKernel
    <2>3. \A q \in SectorsOf(board) : flash'[q] = IF q = s THEN Kernel ELSE flash[q]
      BY <2>1, PutChanges DEF WriteKernel
    <2>4. KernelSectors(board) \subseteq SectorsOf(board)
      BY PartsAreSectors DEF TypeOK
    <2>5. \A q \in KernelSectors(board) : flash[q] \in {Blank, Kernel}
      BY <2>1 DEF WriteKernel
    <2>6. \A q \in KernelSectors(board) : flash'[q] \in {Blank, Kernel}
      BY <2>3, <2>4, <2>5
    <2> QED  BY <1>0, <2>2, <2>6 DEF bootVars
  <1>3. CASE HostResets \/ boot_invoke_bootloader \/ PowerLoss \/ ResetButton
    BY <1>3 DEF HostResets, boot_invoke_bootloader, PowerLoss, ResetButton,
                Restarts, Reset, env
  <1>4. CASE RunKernel \/ Stay
    BY <1>4 DEF RunKernel, Stay, StartKernel, StartUpdate, env
  <1>5. CASE ClearStatics \/ OpenLink \/ UNCHANGED flowVars
    BY <1>5 DEF ClearStatics, OpenLink, flowVars, vars, bootVars, env
  <1>6. CASE World
    BY <1>6 DEF World, vars
  <1>7. ASSUME NEW page \in AppPages(board),
               Install(page) \/ TryKey(page) \/ NoKey(page) \/ Remove(page)
        PROVE  RepairInv'
    <2>1. mode = "kernel" /\ mode' = mode /\ UNCHANGED <<stage, usb, word, button, host, calm>>
      BY <1>7 DEF Install, EraseApp, TryKey, WriteApp, NoKey, RejectApp, Remove,
                  RemoveApp, others, bootVars, env, vars
    <2> QED  BY <2>1
  <1> QED  BY <1>1, <1>2, <1>3, <1>4, <1>5, <1>6, <1>7 DEF FlowNext

\* Where the FIFOs of this configuration end, one by one.
LEMMA FifoEnds == FifoEnd[6] = 288
  <1> DEFINE fifo(f, n) == IF n = 0 THEN rx_fifo_word_size
                           ELSE f[n - 1] + tx_fifo_word_size[n]
             ends == [n \in 0..6 |-> IF n = 0 THEN 128 ELSE IF n = 1 THEN 160
                        ELSE IF n = 2 THEN 192 ELSE IF n = 3 THEN 224 ELSE 288]
  <1>1. Len(tx_fifo_word_size) = 6
    BY DEF tx_fifo_word_size
  <1>2. ends = [n \in 0..6 |-> fifo(ends, n)]
    <2>1. \A n \in 0..6 : ends[n] = fifo(ends, n)
      BY DEF tx_fifo_word_size, rx_fifo_word_size
    <2> HIDE DEF fifo
    <2> QED  BY <2>1
  <1>3. FifoEnd = CHOOSE f : f = [n \in 0..6 |-> fifo(f, n)]
    BY <1>1 DEF FifoEnd
  <1>4. FifoEnd = [n \in 0..6 |-> fifo(FifoEnd, n)]
    <2> HIDE DEF fifo
    <2> QED  BY <1>2, <1>3
  <1>5. FifoEnd[0] = 128
    BY <1>4 DEF rx_fifo_word_size
  <1>6. FifoEnd[1] = 160 
    BY <1>4, <1>5 DEF tx_fifo_word_size
  <1>7. FifoEnd[2] = 192
    BY <1>4, <1>6 DEF tx_fifo_word_size
  <1>8. FifoEnd[3] = 224
    BY <1>4, <1>7 DEF tx_fifo_word_size
  <1>9. FifoEnd[4] = 288 
    BY <1>4, <1>8 DEF tx_fifo_word_size
  <1>10. FifoEnd[5] = 288
    BY <1>4, <1>9 DEF tx_fifo_word_size
  <1> QED  BY <1>4, <1>10 DEF tx_fifo_word_size

\* The packet memory holds them all, and each holds its packets.
LEMMA FifosDoFit == FifosFit
  <1>1. FifoEnd[Len(tx_fifo_word_size)] <= FifoRam
    BY FifoEnds DEF tx_fifo_word_size, FifoRam
  <1>2. RxNeeds <= rx_fifo_word_size
    BY DEF RxNeeds, Words, BulkPacket, tx_fifo_word_size, rx_fifo_word_size
  <1>3. \A n \in DOMAIN tx_fifo_word_size :
       tx_fifo_word_size[n] = 0 \/ Needs(n) <= tx_fifo_word_size[n]
    BY DEF Needs, Words, BulkPacket, tx_fifo_word_size, control_endpoint_max_size
  <1> QED
    BY <1>1, <1>2, <1>3 DEF FifosFit, tx_fifo_word_size, BulkPacket, UsbRxBuffer

\* Nobody is stuck before the kernel runs.
LEMMA RepairGoesOn ==
  ASSUME Counted, TypeOK, RepairInv, calm, mode # "kernel"
  PROVE  GoesOn
  <1>1. CanVerify
    BY DEF CanVerify, boot_kernel_request_api
  <1>2. FifosFit
    BY FifosDoFit
  <1>3. CASE mode = "boot"
    BY <1>1, <1>3 DEF GoesOn, RepairInv
  <1>4. CASE mode = "write"
    <2>1. Served
      BY <1>2, <1>4 DEF Served, RepairInv
    <2>2. KernelWhole \/ \E s \in KernelSectors(board) : flash[s] = Blank
      BY <1>4 DEF RepairInv, KernelWhole
    <2>3. ~KernelWhole => Unwritten # {}
      BY DEF KernelWhole, Unwritten
    <2> QED  BY <1>4, <2>1, <2>2, <2>3 DEF GoesOn
  <1>5. CASE mode = "erase"
    <2>1. Served
      BY <1>2, <1>5 DEF Served, RepairInv
    <2>2. ~KernelWhole => Unwritten # {}
      BY DEF KernelWhole, Unwritten
    <2> QED  BY <1>5, <2>1, <2>2 DEF GoesOn
  <1> QED  BY <1>3, <1>4, <1>5 DEF TypeOK

\* Every step of the bootloader and of the host leaves less to do.
LEMMA RepairNearer ==
  ASSUME Counted, TypeOK, RepairInv, RepairInv', FlowNext, calm, mode # "kernel"
  PROVE  Distance' < Distance
  <1>0. TypeOK' /\ board' = board /\ KernelSize' = KernelSize
    BY FlowStepIsFlashStep, FlashType, SizeStays
  <1>1. /\ KernelSize \in Nat
        /\ IsFiniteSet(NonBlank) /\ Cardinality(NonBlank) \in 0..KernelSize
        /\ IsFiniteSet(Unwritten) /\ Cardinality(Unwritten) \in 0..KernelSize
        /\ Distance \in Nat
    BY LeftIsCounted
  <1>2. KernelSectors(board) \subseteq SectorsOf(board)
    BY PartsAreSectors DEF TypeOK
  <1>3. Wanted <=> word
    BY DEF Wanted, boot_is_bootloader_requested, PinRead, RepairInv
  <1> HIDE DEF KernelSize
  <1>4. CASE HostErases
    <2>1. PICK s \in KernelSectors(board) : EraseKernel(s)
      BY <1>4 DEF HostErases
    <2>2. mode = "erase" /\ mode' = "erase" /\ s \in NonBlank
      BY <2>1 DEF EraseKernel, NonBlank
    <2>3. NonBlank' = NonBlank \ {s}
      <3>1. \A q \in SectorsOf(board) : flash'[q] = IF q = s THEN Blank ELSE flash[q]
        BY <2>1, PutChanges DEF EraseKernel
      <3> QED  BY <1>0, <1>2, <3>1 DEF NonBlank
    <2>4. Cardinality(NonBlank') = Cardinality(NonBlank) - 1
      BY <1>1, <2>2, <2>3, FS_RemoveElement
    <2> QED  BY <1>0, <1>1, <2>2, <2>4 DEF Distance
  <1>5. CASE HostWrites
    <2>1. PICK s \in KernelSectors(board) : WriteKernel(s)
      BY <1>5 DEF HostWrites
    <2>2. mode \in {"erase", "write"} /\ mode' = "write" /\ s \in Unwritten
      BY <2>1 DEF WriteKernel, Unwritten, Blank, Kernel
    <2>3. Unwritten' = Unwritten \ {s}
      <3>1. \A q \in SectorsOf(board) : flash'[q] = IF q = s THEN Kernel ELSE flash[q]
        BY <2>1, PutChanges DEF WriteKernel
      <3> QED  BY <1>0, <1>2, <3>1 DEF Unwritten
    <2>4. Cardinality(Unwritten') = Cardinality(Unwritten) - 1
      BY <1>1, <2>2, <2>3, FS_RemoveElement
    <2> QED  BY <1>0, <1>1, <2>2, <2>4 DEF Distance
  <1>6. CASE HostResets
    <2>1. /\ mode \in {"erase", "write"} /\ KernelWhole /\ UNCHANGED <<word, flash>>
          /\ mode' = "boot" /\ stage' = "reset"
      BY <1>6 DEF HostResets, Restarts, Reset
    <2>2. ~word' /\ KernelWhole'
      BY <1>0, <2>1 DEF RepairInv, KernelWhole
    <2>3. Distance' = 2
      BY <2>1, <2>2 DEF Distance, ToStart
    <2>4. Distance >= 3
      BY <1>1, <2>1 DEF Distance
    <2> QED  BY <1>1, <2>3, <2>4
  <1>7. CASE RunKernel
    <2>1. mode = "boot" /\ mode' = "kernel" /\ stage = "main"
      BY <1>7 DEF RunKernel, StartKernel
    <2> QED  BY <1>1, <2>1 DEF Distance, ToStart
  <1>8. CASE Stay
    <2>1. mode = "boot" /\ stage = "main" /\ mode' = "erase" /\ (word \/ ~KernelWhole)
      BY <1>3, <1>8 DEF Stay, StartUpdate
    <2>2. Cardinality(NonBlank') <= KernelSize /\ Cardinality(NonBlank') \in Nat
      <3>1. NonBlank' \in SUBSET KernelSectors(board)
        BY <1>0 DEF NonBlank
      <3>2. IsFiniteSet(KernelSectors(board))
        BY KernelFinite DEF TypeOK
      <3> QED  BY <3>1, <3>2, FS_Subset, FS_CardinalityType DEF KernelSize
    <2>3. Distance = 1 + 3 + 2 * KernelSize
      BY <2>1 DEF Distance, ToStart
    <2>4. Distance' = 3 + KernelSize + Cardinality(NonBlank')
      BY <1>0, <2>1 DEF Distance
    <2> QED  BY <1>1, <2>2, <2>3, <2>4
  <1>9. CASE ClearStatics
    <2>1. /\ mode = "boot" /\ mode' = "boot" /\ stage = "reset" /\ stage' = "main"
          /\ (word' => word) /\ UNCHANGED flash
      BY <1>9 DEF ClearStatics, vars
    <2>2. KernelWhole' <=> KernelWhole
      BY <1>0, <2>1 DEF KernelWhole
    <2>3. Distance = 2 + (IF word \/ ~KernelWhole THEN 3 + 2 * KernelSize ELSE 0)
      BY <1>1, <2>1 DEF Distance, ToStart
    <2>4. Distance' = 1 + (IF word' \/ ~KernelWhole THEN 3 + 2 * KernelSize ELSE 0)
      BY <1>0, <1>1, <2>1, <2>2 DEF Distance, ToStart
    <2> QED  BY <1>1, <2>1, <2>3, <2>4
  <1>10. CASE OpenLink \/ boot_invoke_bootloader \/ PowerLoss \/ ResetButton \/ World
    BY <1>10 DEF OpenLink, boot_invoke_bootloader, PowerLoss, ResetButton, World
  <1>11. ~ \E page \in AppPages(board) :
             Install(page) \/ TryKey(page) \/ NoKey(page) \/ Remove(page)
    BY DEF Install, EraseApp, TryKey, NoKey, RejectApp, Remove, RemoveApp
  <1> QED  BY <1>4, <1>5, <1>6, <1>7, <1>8, <1>9, <1>10, <1>11 DEF FlowNext

(***************************************************************************)
(* The part of UpdateRepairs that needs no fairness: on every board, once  *)
(* nobody interferes and until the kernel runs, the bootloader or the host *)
(* can take a step, and every step leaves fewer to take.  No order of      *)
(* erasing, writing and resetting brings the flash back where it was.      *)
(***************************************************************************)
THEOREM RepairComesNearer ==
  ASSUME Counted
  PROVE  FlowSafety => /\ [](Distance \in Nat /\ (calm /\ mode # "kernel" => GoesOn))
                       /\ [][calm /\ mode # "kernel" => Distance' < Distance]_flowVars
  <1>1. FlowInit => RepairInv
    BY DEF FlowInit, Init, RepairInv
  <1>2. FlowTypeOK /\ RepairInv /\ [FlowNext]_flowVars => RepairInv'
    BY RepairStep DEF FlowTypeOK
  <1>3. FlowTypeOK /\ RepairInv => Distance \in Nat /\ (calm /\ mode # "kernel" => GoesOn)
    BY LeftIsCounted, RepairGoesOn DEF FlowTypeOK
  <1>4. FlowTypeOK /\ RepairInv /\ RepairInv' /\ [FlowNext]_flowVars =>
          [calm /\ mode # "kernel" => Distance' < Distance]_flowVars
    BY RepairNearer DEF FlowTypeOK
  <1> QED  BY <1>1, <1>2, <1>3, <1>4, FlowTypeCorrect, PTL DEF FlowSafety

=============================================================================
