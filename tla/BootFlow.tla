------------------------------ MODULE BootFlow ------------------------------
(***************************************************************************)
(* From a reset to a running kernel, and back.  The image at the start of  *)
(* flash clears its statics, looks whether somebody asked for the          *)
(* bootloader - the button, or the word the kernel leaves in RAM before it *)
(* resets - and either runs the kernel or opens its USB link, by which a  *)
(* host erases and writes the kernel.  The flash is that of FlashMap:      *)
(* every step here is a step of it or leaves it alone.                     *)
(***************************************************************************)
EXTENDS FlashMap, UsbFifos, AppKeys

CONSTANTS
  BootData,  \* KB of statics that the bootloader's start-up code writes
  Signers    \* who may have signed an application

ASSUME BootDataAssumption == BootData \in Nat
ASSUME SignersAssumption == Nobody \notin Signers

VARIABLES
  stage,   \* of the bootloader: "reset", "main" with its statics, or "done"
  word,    \* the RAM word holds software_bootloader_request_value
  button,  \* the user button, PC13, is held
  gpio,    \* the GPIO ports have a clock
  usb,    \* the USB link is open
  host,    \* a host is at the other end
  signer,  \* of the application that is being installed
  tried,   \* keys its signature has been compared with
  asked,   \* the kernel has asked for the bootloader and it has not started yet
  calm     \* from here on nobody interferes: no faults, no button, host present

install == <<signer, tried>>
bootVars == <<stage, word, button, gpio, usb, host, install, asked, calm>>
flowVars == <<vars, bootVars>>
env == <<button, host, calm>>

\* software_bootloader_request_address, in KB of RAM.
RequestAddress == 16
\* .data and .bss start where the linker's ram region does; .sysmem is left
\* alone.
Cleared(b) == Region(Layout[b].link.ram.start, BootData)
WordCleared == Overlap(Region(RequestAddress, 1), Cleared(board))

FlowInit ==
  /\ Init
  /\ stage = "reset" /\ word = FALSE /\ asked = FALSE
  /\ gpio = FALSE /\ usb = FALSE
  /\ button \in BOOLEAN /\ host \in BOOLEAN /\ calm = FALSE
  /\ signer = Nobody /\ tried = 0

\* Reset handler of the bootloader.
ClearStatics ==
  /\ mode = "boot" /\ stage = "reset"
  /\ stage' = "main"
  /\ word' = (word /\ ~WordCleared)
  /\ UNCHANGED <<vars, gpio, usb, install, asked, env>>

\* A pin that is pulled down reads 1 if it is held and its port has a clock.
PinRead(clocked) == clocked /\ button

\* Mutant: the pin is read before its port has a clock.
boot_is_bootloader_requested_early == PinRead(gpio)

\* stm32_initialize starts the clocks of the ports, then PC13 is read.
boot_is_bootloader_requested == PinRead(TRUE)

\* The libraries the bootloader can ask for, all that it takes to check the
\* signature of an image.
boot_kernel_request_api == {"CRYPT_SHA256_ROOT", "CRYPT_ECC_ROOT"}
CanVerify == {"CRYPT_SHA256_ROOT", "CRYPT_ECC_ROOT"} \subseteq boot_kernel_request_api

KernelWhole == \A s \in KernelSectors(board) : flash[s] = Kernel
Wanted == boot_is_bootloader_requested \/ word

\* No request and an image that checks out: the kernel runs.
RunKernel ==
  /\ stage = "main" /\ ~Wanted /\ CanVerify
  /\ StartKernel
  /\ stage' = "done" /\ gpio' = TRUE
  /\ UNCHANGED <<word, usb, install, asked, env>>

\* Otherwise the bootloader stays, takes the word away and opens the link.
Stay ==
  /\ stage = "main" /\ (Wanted \/ ~KernelWhole)
  /\ StartUpdate
  /\ word' = FALSE /\ asked' = FALSE
  /\ stage' = "done" /\ gpio' = TRUE /\ usb' = TRUE
  /\ UNCHANGED <<install, env>>

\* The host's commands come through endpoints that work if their FIFOs fit.
Served == usb /\ FifosFit /\ host
HostErases ==
  /\ Served /\ \E s \in KernelSectors(board) : EraseKernel(s)
  /\ UNCHANGED bootVars
HostWrites ==
  /\ Served /\ \E s \in KernelSectors(board) : WriteKernel(s)
  /\ UNCHANGED bootVars

\* What a reset does to the rest; the RAM keeps its contents.
Restarts ==
  /\ Reset
  /\ stage' = "reset" /\ gpio' = FALSE /\ usb' = FALSE
  /\ signer' = Nobody /\ tried' = 0
  /\ UNCHANGED env

\* The host has the last word of an update, or gives one up.
HostResets ==
  /\ Served /\ mode \in {"erase", "write"}
  /\ calm => KernelWhole
  /\ Restarts /\ UNCHANGED <<word, asked>>

\* The kernel opens its link and serves applications.
OpenLink ==
  /\ mode = "kernel" /\ ~usb /\ usb' = TRUE
  /\ UNCHANGED <<vars, stage, word, gpio, install, asked, env>>

others == <<stage, word, gpio, usb, asked, env>>

\* An application arrives.  When it is in its page, the kernel asks for one
\* public key after the other until one matches its signature or there is
\* none left.
Install(page) ==
  /\ EraseApp(page)
  /\ signer' \in Signers /\ tried' = 0
  /\ UNCHANGED others
TryKey(page) ==
  LET key == sys_get_public_key(tried)
  IN  /\ mode = "kernel" /\ page \in writing /\ key.result = 0
      /\ \/ /\ key.id = signer /\ WriteApp(page)
            /\ signer' = Nobody /\ tried' = 0
         \/ /\ key.id # signer /\ UNCHANGED <<vars, signer>>
            /\ tried' = IF tried < KeyTotal THEN tried + 1 ELSE tried
      /\ UNCHANGED others
NoKey(page) ==
  /\ sys_get_public_key(tried).result # 0
  /\ RejectApp(page)
  /\ signer' = Nobody /\ tried' = 0
  /\ UNCHANGED others
Remove(page) == RemoveApp(page) /\ UNCHANGED bootVars

\* sos_config.boot.api.exec, called by the kernel: the word, then a reset.
boot_invoke_bootloader ==
  /\ mode = "kernel" /\ ~calm
  /\ word' = TRUE /\ asked' = TRUE
  /\ Restarts

\* Power goes, and the RAM with it; or the reset button is pressed, when the
\* word may be a variable of the kernel that ran.
PowerLoss ==
  /\ ~calm /\ Restarts
  /\ word' \in BOOLEAN /\ asked' = FALSE
ResetButton ==
  /\ ~calm /\ Restarts
  /\ IF mode = "kernel" THEN word' \in BOOLEAN ELSE UNCHANGED word
  /\ UNCHANGED asked

\* The user and the host.
World ==
  /\ ~calm
  /\ \/ button' = ~button /\ UNCHANGED <<host, calm>>
     \/ host' = ~host /\ UNCHANGED <<button, calm>>
     \/ button' = FALSE /\ host' = TRUE /\ calm' = TRUE
  /\ UNCHANGED <<vars, stage, word, gpio, usb, install, asked>>

FlowNext ==
  \/ ClearStatics \/ RunKernel \/ Stay
  \/ HostErases \/ HostWrites \/ HostResets
  \/ OpenLink \/ boot_invoke_bootloader
  \/ PowerLoss \/ ResetButton \/ World
  \/ \E page \in AppPages(board) :
       Install(page) \/ TryKey(page) \/ NoKey(page) \/ Remove(page)

FlowSafety == FlowInit /\ [][FlowNext]_flowVars

\* The processor goes on, and a host that is there carries an update through.
\* (An update that erases again what it wrote would not end; a host erases
\* first and writes then, as FlashMap has it.)
FlowSpec ==
  /\ FlowSafety
  /\ WF_flowVars(ClearStatics) /\ WF_flowVars(RunKernel) /\ WF_flowVars(Stay)
  /\ WF_flowVars(HostErases \/ HostWrites) /\ WF_flowVars(HostResets)

FlowTypeOK ==
  /\ TypeOK
  /\ stage \in {"reset", "main", "done"}
  /\ word \in BOOLEAN /\ button \in BOOLEAN /\ gpio \in BOOLEAN
  /\ signer \in Signers \cup {Nobody} /\ tried \in 0..KeyTotal
  /\ usb \in BOOLEAN /\ host \in BOOLEAN /\ asked \in BOOLEAN /\ calm \in BOOLEAN

(***************************************************************************)
(* Who asks for the bootloader gets it: the kernel that called             *)
(* boot_invoke_bootloader, whatever the start-up code of the bootloader    *)
(* clears, even through a second reset on the way, and the user who holds  *)
(* the button.  No start goes past either to the kernel.                   *)
(***************************************************************************)
RequestHonoured ==
  [][mode = "boot" /\ mode' = "kernel" => ~asked /\ ~button]_flowVars

(***************************************************************************)
(* A board can be repaired: from any state the flash was left in, with any *)
(* value in the request word, once nobody interferes and a host is         *)
(* connected the kernel runs.  A request that outlived its start would     *)
(* bring the bootloader back for ever.                                     *)
(***************************************************************************)
UpdateRepairs == calm ~> mode = "kernel"

(***************************************************************************)
(* Unless it is cut short, an installation succeeds exactly if one of the  *)
(* board's public keys, the first and the last included, verifies the      *)
(* application: the search neither misses a key nor takes its end for one. *)
(***************************************************************************)
KeysDecide ==
  [][writing # {} /\ writing' = {} /\ mode' = "kernel" =>
       (apps' # apps <=> signer \in Known)]_flowVars

=============================================================================
