----------------------------- MODULE SetupWizard -----------------------------
(***************************************************************************)
(* The interview of nixstead setup (setup/wizard.py, features/ssh.py).     *)
(*                                                                         *)
(* Seven sections fill one HostConfig in place, question by question.      *)
(* Previous leaves a section in the middle and returns to the start of the *)
(* one before it, with the answers given so far left in the object; the    *)
(* review follows the last section.  Answers are left out where nothing    *)
(* depends on them.  What may go wrong with those is that one is begun and *)
(* never completed ("LAN" without its selector, GRUB without its device):  *)
(* half follows one such answer, and which one is chosen at the start.     *)
(***************************************************************************)
EXTENDS NasLayout

CONSTANTS
  Services,    \* services of the registry that have a setup entry
  Controlled,  \* those a preset controls
  Nginx, Tailscale, Cifs, Nas,
  WithInputs,  \* services that must be given a value
  Presets      \* the services of each preset; "custom" has none

ASSUME ServiceAssumption ==
  /\ {Nginx, Tailscale} \subseteq Controlled /\ Controlled \subseteq Services
  /\ {Cifs, Nas} \subseteq Services \ Controlled /\ Cifs # Nas
  /\ WithInputs \subseteq Controlled \ {Tailscale}
ASSUME PresetAssumption ==
  /\ Presets \in [DOMAIN Presets -> SUBSET Controlled]
  /\ "custom" \in DOMAIN Presets /\ Presets["custom"] = {}

VARIABLES
  enabled,      \* service_flags
  preset,       \* service_preset
  given,        \* services whose inputs are in service_settings
  initialized,  \* services_initialized
  access,       \* service_access
  keyMode,      \* ssh.key_mode, "" before the first visit
  passwords,    \* ssh.password_authentication
  cifsOn,       \* cifs.enabled
  nasOn,        \* nas.enabled
  nasReady,     \* nas.configured
  watched,      \* the answer that half is about
  half          \* that answer is begun and not completed

serviceVars == <<enabled, preset, given, initialized>>
sshVars == <<keyMode, passwords>>
storageVars == <<cifsOn, nasOn, nasReady>>
answers == <<serviceVars, access, sshVars, storageVars, half>>
wizardVars == <<nasVars, answers, watched>>

Answers == {"lan", "key", "grub", "swap", "route", "shares"}

\* The questions of each section.
Section == <<
  {"identity", "createUser"},
  {"preset", "modify", "checklists", "inputs"},
  {"infrastructure"},
  {"addresses", "access", "public", "lan", "ssh", "keyMode", "key", "password", "root"},
  {"boot", "grub", "grubConfirm", "hardware", "swap", "gpu"},
  {"externals", "tailscale", "route", "server", "shares", "sources"} \cup NasPrompts,
  {"privileges"},
  {"review"} >>

Prompts == UNION {Section[i] : i \in 1..8}
Ends == {"applied", "cancelled", "refused"}

WizardTypeOK ==
  /\ prompt \in Prompts \cup Ends
  /\ NasTypeOK
  /\ enabled \in SUBSET Services /\ given \in SUBSET WithInputs
  /\ preset \in DOMAIN Presets /\ initialized \in BOOLEAN
  /\ access \in {"loopback", "lan", "tailnet", "public"}
  /\ keyMode \in {"", "provided", "generated", "none"}
  /\ passwords \in BOOLEAN
  /\ cifsOn \in BOOLEAN /\ nasOn \in BOOLEAN /\ nasReady \in BOOLEAN
  /\ watched \in Answers /\ half \in BOOLEAN

\* initial_state and the defaults of HostConfig.
NoAnswers ==
  /\ NasInit
  /\ enabled = {} /\ preset = "custom" /\ given = {} /\ initialized = FALSE
  /\ access = "loopback"
  /\ keyMode = "" /\ passwords = FALSE
  /\ cifsOn = FALSE /\ nasOn = FALSE /\ nasReady = FALSE
  /\ half = FALSE

\* A finished interview leaves nothing but the HostConfig it returns.
ForgetAnswers ==
  /\ prompt' = "identity" /\ ForgetLayout
  /\ enabled' = {} /\ preset' = "custom" /\ given' = {} /\ initialized' = FALSE
  /\ access' = "loopback"
  /\ keyMode' = "" /\ passwords' = FALSE
  /\ cifsOn' = FALSE /\ nasOn' = FALSE /\ nasReady' = FALSE
  /\ half' = FALSE /\ watched' = "lan"

WizardInit == prompt = "identity" /\ NoAnswers /\ watched \in Answers

Ask(p) == prompt' = p /\ UNCHANGED layoutVars

Opened(a) == half' = (half \/ watched = a)
Closed(a) == half' = (half /\ watched # a)

-----------------------------------------------------------------------------
(* Section 1: identity.  A name that is taken is asked for again. *)

Identity ==
  /\ \/ prompt = "identity" /\ (Ask("preset") \/ Ask("createUser"))
     \/ prompt = "createUser" /\ (Ask("preset") \/ Ask("identity"))
  /\ UNCHANGED answers

-----------------------------------------------------------------------------
(* Section 2: services. *)

\* A preset overwrites the flags it controls; once the section has been
\* completed, the current choices may be kept.
ChoosePreset ==
  /\ prompt = "preset"
  /\ \/ \E p \in DOMAIN Presets :
          preset' = p /\ enabled' = (enabled \ Controlled) \cup Presets[p]
     \/ initialized /\ UNCHANGED <<preset, enabled>>
  /\ Ask("modify")
  /\ UNCHANGED <<given, initialized, access, sshVars, storageVars, half>>

\* The services chosen, the inputs of those that have any are asked for.
Questioned == enabled \cap WithInputs

ServicesChosen ==
  IF Questioned' = {} THEN Ask("infrastructure") /\ initialized' = TRUE
                      ELSE Ask("inputs") /\ UNCHANGED initialized

ModifyServices ==
  /\ prompt = "modify"
  /\ UNCHANGED <<enabled, preset, given, access, sshVars, storageVars, half>>
  /\ \/ Ask("checklists") /\ UNCHANGED initialized
     \/ ServicesChosen

\* One page for each group of services.
Checklists ==
  /\ prompt = "checklists"
  /\ \E S \in SUBSET Controlled : enabled' = (enabled \ Controlled) \cup S
  /\ \/ Ask("checklists") /\ UNCHANGED initialized
     \/ ServicesChosen
  /\ UNCHANGED <<preset, given, access, sshVars, storageVars, half>>

\* One form for each service.
Inputs ==
  /\ prompt = "inputs"
  /\ \E s \in Questioned :
       /\ given' = given \cup {s}
       /\ \/ Ask("inputs") /\ UNCHANGED initialized
          \/ /\ Questioned \subseteq given'
             /\ Ask("infrastructure") /\ initialized' = TRUE
  /\ UNCHANGED <<enabled, preset, access, sshVars, storageVars, half>>

-----------------------------------------------------------------------------
(* Section 3: external infrastructure and storage. *)

Infrastructure ==
  /\ prompt = "infrastructure"
  /\ \E S \in SUBSET (Services \ Controlled) :
       /\ enabled' = (enabled \cap Controlled) \cup S
       /\ cifsOn' = (cifsOn /\ Cifs \in S)
       /\ IF Cifs \in S THEN UNCHANGED half ELSE Closed("shares")
       /\ nasOn' = (nasOn /\ Nas \in S)
  /\ Ask("addresses")
  /\ UNCHANGED <<preset, given, initialized, access, sshVars, nasReady>>

-----------------------------------------------------------------------------
(* Section 4: network, exposure and SSH. *)

\* Without Nginx there is no exposure to choose.
Addresses ==
  /\ prompt = "addresses"
  /\ IF Nginx \in enabled
       THEN Ask("access") /\ UNCHANGED <<access, half>>
       ELSE Ask("ssh") /\ access' = "loopback" /\ Closed("lan")
  /\ UNCHANGED <<serviceVars, sshVars, storageVars>>

Access ==
  /\ prompt = "access"
  /\ \/ Ask("ssh") /\ access' = "loopback" /\ Closed("lan") /\ UNCHANGED enabled
     \/ Ask("lan") /\ access' = "lan" /\ Opened("lan") /\ UNCHANGED enabled
     \/ /\ Ask("ssh") /\ access' = "tailnet" /\ Closed("lan")
        /\ enabled' = enabled \cup {Tailscale}
     \/ Ask("public") /\ UNCHANGED <<access, half, enabled>>
  /\ UNCHANGED <<preset, given, initialized, sshVars, storageVars>>

\* Exposure to the Internet is asked twice.
Public ==
  /\ prompt = "public"
  /\ \/ Ask("ssh") /\ access' = "public" /\ Closed("lan")
     \/ Ask("access") /\ UNCHANGED <<access, half>>
  /\ UNCHANGED <<serviceVars, sshVars, storageVars>>

\* An interface or a source network is required; without one the form returns.
Lan ==
  /\ prompt = "lan"
  /\ Ask("ssh") /\ Closed("lan")
  /\ UNCHANGED <<serviceVars, access, sshVars, storageVars>>

\* The port, and on the first visit the proposed way to log in.
Ssh ==
  /\ prompt = "ssh"
  /\ IF keyMode = "" THEN keyMode' \in {"provided", "generated"} ELSE UNCHANGED keyMode
  /\ Ask("keyMode")
  /\ UNCHANGED <<serviceVars, access, passwords, storageVars, half>>

\* Without a key, passwords are the only way in; a key again turns them off.
KeyMode ==
  /\ prompt = "keyMode"
  /\ \/ /\ keyMode' = "provided" /\ passwords' = (passwords /\ keyMode # "none")
        /\ Ask("key") /\ Opened("key")
     \/ /\ keyMode' = "generated" /\ passwords' = (passwords /\ keyMode # "none")
        /\ Ask("password") /\ Closed("key")
     \/ /\ keyMode' = "none" /\ passwords' = TRUE
        /\ Ask("root") /\ Closed("key")
  /\ UNCHANGED <<serviceVars, access, storageVars>>

Key ==
  /\ prompt = "key"
  /\ Ask("password") /\ Closed("key")
  /\ UNCHANGED <<serviceVars, access, sshVars, storageVars>>

Password ==
  /\ prompt = "password"
  /\ passwords' \in BOOLEAN
  /\ Ask("root")
  /\ UNCHANGED <<serviceVars, access, keyMode, storageVars, half>>

RootLogin == prompt = "root" /\ Ask("boot") /\ UNCHANGED answers

-----------------------------------------------------------------------------
(* Section 5: hardware. *)

Boot ==
  /\ prompt = "boot"
  /\ \/ Ask("grub") /\ Opened("grub")
     \/ Ask("hardware") /\ Closed("grub")
  /\ UNCHANGED <<serviceVars, access, sshVars, storageVars>>

\* A device, a look at it, and a confirmation, until it is confirmed.
Grub ==
  /\ \/ prompt = "grub" /\ Ask("grubConfirm") /\ UNCHANGED half
     \/ prompt = "grubConfirm" /\ Ask("grub") /\ UNCHANGED half
     \/ prompt = "grubConfirm" /\ Ask("hardware") /\ Closed("grub")
  /\ UNCHANGED <<serviceVars, access, sshVars, storageVars>>

Hardware ==
  /\ \/ prompt = "hardware" /\ Ask("swap") /\ Opened("swap")
     \/ prompt \in {"hardware", "swap"} /\ Ask("gpu") /\ Closed("swap")
  /\ UNCHANGED <<serviceVars, access, sshVars, storageVars>>

-----------------------------------------------------------------------------
(* Section 6: the details of what was selected, each asked only for what is *)
(* enabled.  Entering one goes on to the next when there is nothing to ask;  *)
(* h is what the answers before it have made of half.                        *)

\* A layout that was saved is used again without a question.
EnterNas(h) ==
  /\ half' = h
  /\ UNCHANGED nasReady
  /\ IF Nas \notin enabled THEN Ask("privileges") /\ UNCHANGED nasOn
     ELSE IF nasReady THEN Ask("privileges") /\ nasOn' = TRUE
     ELSE LookAtDisks /\ UNCHANGED nasOn

EnterCifs(h) ==
  IF Cifs \in enabled
    THEN /\ Ask("server")
         /\ cifsOn' = TRUE /\ half' = (h \/ watched = "shares")
         /\ UNCHANGED <<nasOn, nasReady>>
    ELSE EnterNas(h) /\ UNCHANGED cifsOn

\* Without Tailscale this machine routes nothing.
EnterTailscale ==
  IF Tailscale \in enabled
    THEN Ask("tailscale") /\ UNCHANGED <<storageVars, half>>
    ELSE EnterCifs(half /\ watched # "route")

\* Addresses are asked for when a switch or an external service needs one.
EnterDetails ==
  /\ \/ Ask("externals") /\ UNCHANGED <<storageVars, half>>
     \/ EnterTailscale
  /\ UNCHANGED <<serviceVars, access, sshVars>>

Gpu == prompt = "gpu" /\ EnterDetails

Externals ==
  /\ prompt = "externals"
  /\ EnterTailscale
  /\ UNCHANGED <<serviceVars, access, sshVars>>

\* Faulty: a route is forgotten only with Tailscale itself.
TailscaleRouter_KeepsRoute ==
  /\ \/ prompt = "tailscale" /\ Ask("route") /\ Opened("route") /\ UNCHANGED storageVars
     \/ prompt = "tailscale" /\ EnterCifs(half)
     \/ prompt = "route" /\ EnterCifs(half /\ watched # "route")
  /\ UNCHANGED <<serviceVars, access, sshVars>>

TailscaleRouter ==
  /\ \/ prompt = "tailscale" /\ Ask("route") /\ Opened("route") /\ UNCHANGED storageVars
     \/ prompt \in {"tailscale", "route"} /\ EnterCifs(half /\ watched # "route")
  /\ UNCHANGED <<serviceVars, access, sshVars>>

\* The server, the shares (one of them at least is taken), where they are.
CifsShares ==
  /\ \/ prompt = "server" /\ Ask("shares") /\ UNCHANGED <<storageVars, half>>
     \/ prompt = "shares" /\ Ask("sources") /\ UNCHANGED <<storageVars, half>>
     \/ prompt = "sources" /\ EnterNas(half /\ watched # "shares") /\ UNCHANGED cifsOn
  /\ UNCHANGED <<serviceVars, access, sshVars>>

AskAboutDisks == NasStep /\ UNCHANGED answers

SaveLayout ==
  /\ prompt = "save"
  /\ nasOn' = TRUE /\ nasReady' = TRUE
  /\ prompt' = "privileges" /\ ForgetLayout
  /\ UNCHANGED <<serviceVars, access, sshVars, cifsOn, half>>

\* Without a usable disk, go on without the NAS or give up.
DisableNas ==
  /\ prompt = "noDisks"
  /\ \/ /\ prompt' = "privileges"
        /\ enabled' = enabled \ {Nas} /\ nasOn' = FALSE /\ nasReady' = FALSE
     \/ prompt' = "refused" /\ UNCHANGED <<enabled, nasOn, nasReady>>
  /\ ForgetLayout
  /\ UNCHANGED <<preset, given, initialized, access, sshVars, cifsOn, half>>

-----------------------------------------------------------------------------
(* Section 7, the review, and navigation. *)

Privileges == prompt = "privileges" /\ Ask("review") /\ UNCHANGED answers

Review ==
  /\ prompt = "review"
  /\ Ask("applied") \/ Ask("privileges")
  /\ UNCHANGED answers

\* SectionBack, which every question but those of the first section may raise.
\* The details have no first question of their own, and may have none at all.
Back ==
  \/ prompt = "privileges" /\ EnterDetails
  \/ \E i \in 2..6 :
       /\ prompt \in Section[i]
       /\ prompt' = CASE i = 2 -> "identity"  [] i = 3 -> "preset"
                      [] i = 4 -> "infrastructure"
                      [] i = 5 -> "addresses" [] i = 6 -> "boot"
       /\ ForgetLayout
       /\ UNCHANGED answers

Cancel ==
  /\ prompt \in Prompts
  /\ prompt' = "cancelled" /\ ForgetLayout
  /\ UNCHANGED answers

WizardNext ==
  /\ UNCHANGED watched
  /\ \/ Identity \/ ChoosePreset \/ ModifyServices \/ Checklists \/ Inputs
     \/ Infrastructure \/ Addresses \/ Access \/ Public \/ Lan
     \/ Ssh \/ KeyMode \/ Key \/ Password \/ RootLogin
     \/ Boot \/ Grub \/ Hardware \/ Gpu \/ Externals \/ TailscaleRouter
     \/ CifsShares \/ AskAboutDisks \/ SaveLayout \/ DisableNas
     \/ Privileges \/ Review \/ Back \/ Cancel

WizardSpec == WizardInit /\ [][WizardNext]_wizardVars

-----------------------------------------------------------------------------
(* What render_host writes, and what the modules make of it. *)

Defaults == Presets[preset]

Rendered == Services \ {Nas, Cifs, Tailscale}

\* Faulty: only what a preset would leave out is written.
Overrides_Additions == {s \in Rendered : s \in enabled /\ s \notin Defaults}

\* Explicit choices: those that differ from the preset.
Overrides == {s \in Rendered : (s \in enabled) # (s \in Defaults)}

\* The sections of render_host that enable a service by themselves.
CifsSection == IF cifsOn THEN {Cifs} ELSE {}
NasSection == IF nasOn THEN {Nas} ELSE {}
TailscaleSection == enabled \cap {Tailscale}

\* The services of the host that is generated: the preset's defaults where
\* nothing else is said, the explicit choices, and those sections.
HostServices ==
  (Defaults \ Overrides) \cup (enabled \cap Overrides)
    \cup CifsSection \cup NasSection \cup TailscaleSection

-----------------------------------------------------------------------------
(* Properties *)

\* However the operator went back and forth, what is shown for review hangs
\* together: no answer was left half given, exposure has the service it needs,
\* someone can log in, every required input was given, and storage that is
\* configured was confirmed.
ReviewIsConsistent ==
  prompt = "review" =>
    /\ ~half
    /\ access = "tailnet" => Tailscale \in enabled
    /\ access # "loopback" => Nginx \in enabled
    /\ keyMode # "" /\ (keyMode = "none" => passwords)
    /\ Questioned \subseteq given
    /\ nasOn => nasReady

\* docs/setup-wizard.md: the preset and the explicit options together give the
\* services that were chosen.  Tailscale is left out: render_service_overrides
\* never writes it, so deselecting it from a preset that has it is lost.
GeneratedMatchesChoice ==
  prompt = "review" =>
    HostServices \ {Tailscale} = enabled \ {Tailscale}
=============================================================================
