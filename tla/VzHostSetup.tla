---------------------------- MODULE VzHostSetup ----------------------------
(***************************************************************************)
(* VzHostSetup.setup() of trunk/openvz/package-builder/vzhostsetup.py: the *)
(* steps that prepare a host with an OpenVZ guest (VEID 102) for package   *)
(* builds and an apache proxy to the Ubuntu mirrors.                       *)
(*                                                                         *)
(* The host state persists across runs: the cached template, the guest,    *)
(* apache.  The operator runs the script again after it failed; a run      *)
(* ends with exit(1), an uncaught IOError, or 'Setup Done'.  Commands run  *)
(* through _quietRun, whose exit status is ignored, so a command that      *)
(* fails simply has no effect.  The network (wget, apt-get) may fail.       *)
(***************************************************************************)
EXTENDS Naturals

CONSTANTS
    HostPkgs,     \* vzquota, vzctl and python: the packages _checkHostPkgs needs
    Installed0    \* the host packages installed before the first run

VARIABLES
    pc,           \* where the current run is ("idle" between runs)
    root,         \* the current run has os.geteuid() = 0
    hostpkgs,     \* the host packages that are installed
    template,     \* the cached template file: absent, empty or good
    guest,        \* the VZ instance 102
    apache        \* the host's apache2

vars == <<pc, root, hostpkgs, template, guest, apache>>

PC == {"idle", "prereq", "template", "clear", "create", "params", "quota",
       "iface", "apache", "apachecfg", "sites", "instance", "done"}

Sites == {"default", "proxy"}

NoGuest == [exists |-> FALSE, fresh |-> FALSE, params |-> FALSE,
            quota |-> FALSE, running |-> FALSE, sources |-> FALSE,
            builddirs |-> FALSE]

Goto(l) == pc' = l

(* An exit(1) or an exception: the run is over. *)
Abort == Goto("idle")

-----------------------------------------------------------------------------
(* __main__: VzHostSetup() then setup(), by root or by another user; a    *)
(* guest is new only if this run creates it.                               *)
Start(asRoot) ==
    /\ pc \in {"idle", "done"}
    /\ Goto("prereq")
    /\ root' = asRoot
    /\ guest' = [guest EXCEPT !.fresh = FALSE]
    /\ UNCHANGED <<hostpkgs, template, apache>>

(* checkPreReqs: _checkUID and _checkHostPkgs exit(1) when not root or a   *)
(* host package is missing.                                                *)
CheckPreReqsFail ==
    /\ pc = "prereq"
    /\ ~root \/ HostPkgs \ hostpkgs # {}
    /\ Abort
    /\ UNCHANGED <<root, hostpkgs, template, guest, apache>>

CheckPreReqs ==
    /\ pc = "prereq"
    /\ root /\ HostPkgs \subseteq hostpkgs
    /\ Goto("template")
    /\ UNCHANGED <<root, hostpkgs, template, guest, apache>>

(* aquireVzTemplate: a readable file is taken as the template. *)
TemplateCached ==
    /\ pc = "template"
    /\ template # "absent"
    /\ Goto("clear")
    /\ UNCHANGED <<root, hostpkgs, template, guest, apache>>

(* Otherwise wget -O fetches it; a failed fetch still leaves the (empty)   *)
(* output file behind.                                                     *)
FetchTemplate(ok) ==
    /\ pc = "template"
    /\ template = "absent"
    /\ template' = IF ok THEN "good" ELSE "empty"
    /\ Goto("clear")
    /\ UNCHANGED <<root, hostpkgs, guest, apache>>

(* Variant: clearOldInstance runs vzctl stop but not vzctl destroy. *)
ClearOldStopOnly ==
    /\ pc = "clear"
    /\ guest' = [guest EXCEPT !.running = FALSE]
    /\ Goto("create")
    /\ UNCHANGED <<root, hostpkgs, template, apache>>

(* clearOldInstance: if the private area of 102 exists, vzctl stop and     *)
(* vzctl destroy.                                                          *)
ClearOldInstance ==
    /\ pc = "clear"
    /\ guest' = IF guest.exists THEN NoGuest ELSE guest
    /\ Goto("create")
    /\ UNCHANGED <<root, hostpkgs, template, apache>>

(* createVzInstance: vzctl create succeeds only from a good template and   *)
(* when 102 does not exist yet.                                            *)
CreateVzInstance ==
    /\ pc = "create"
    /\ guest' = IF template = "good" /\ ~guest.exists
                THEN [NoGuest EXCEPT !.exists = TRUE, !.fresh = TRUE]
                ELSE guest
    /\ Goto("params")
    /\ UNCHANGED <<root, hostpkgs, template, apache>>

(* setVzParams: createVzEther adds netif_add (the dict is new in every     *)
(* run), then vzctl set --save of every parameter.                         *)
SetVzParams ==
    /\ pc = "params"
    /\ guest' = [guest EXCEPT !.params = guest.exists]
    /\ Goto("quota")
    /\ UNCHANGED <<root, hostpkgs, template, apache>>

(* adjustQuota: vzquota setlimit of the inode limits. *)
AdjustQuota ==
    /\ pc = "quota"
    /\ guest' = [guest EXCEPT !.quota = guest.exists]
    /\ Goto("iface")
    /\ UNCHANGED <<root, hostpkgs, template, apache>>

(* startAndConfigureInterfaces: vzctl start, then host and guest ifconfig. *)
StartAndConfigureInterfaces ==
    /\ pc = "iface"
    /\ guest' = [guest EXCEPT !.running = guest.exists]
    /\ Goto("apache")
    /\ UNCHANGED <<root, hostpkgs, template, apache>>

(* setupApache, first list: apt-get install apache2 (which starts it with  *)
(* the default site), a2enmod proxy_http, mem_cache and cache.             *)
InstallApache(ok) ==
    /\ pc = "apache"
    /\ apache' = IF ok /\ ~apache.installed
                 THEN [apache EXCEPT !.installed = TRUE, !.running = TRUE,
                                     !.loaded = apache.enabled]
                 ELSE apache
    /\ Goto("apachecfg")
    /\ UNCHANGED <<root, hostpkgs, template, guest>>

(* The proxy site file is written; without apache2 installed its directory *)
(* does not exist and open() raises IOError.                               *)
WriteApacheCfg ==
    /\ pc = "apachecfg"
    /\ apache.installed
    /\ Goto("sites")
    /\ UNCHANGED <<root, hostpkgs, template, guest, apache>>

WriteApacheCfgFails ==
    /\ pc = "apachecfg"
    /\ ~apache.installed
    /\ Abort
    /\ UNCHANGED <<root, hostpkgs, template, guest, apache>>

(* setupApache, second list.  Without a comma after '000-default' Python   *)
(* joins two strings into 'a2dissite 000-default/etc/init.d/apache2 stop', *)
(* which names no site, so the list runs: a2ensite proxy, that failing     *)
(* a2dissite, and apache2 start, which does nothing to a running apache.   *)
ApacheSites ==
    /\ pc = "sites"
    /\ apache' = [apache EXCEPT !.enabled = @ \cup {"proxy"}, !.running = TRUE,
                                !.loaded = IF apache.running THEN @
                                           ELSE apache.enabled \cup {"proxy"}]
    /\ Goto("instance")
    /\ UNCHANGED <<root, hostpkgs, template, guest>>

(* setupInstance: sources.list is written into the guest's private area    *)
(* (IOError if the guest does not exist), then apt-get and mkdir -p of the *)
(* /build directories through vzctl exec, which needs the guest running.   *)
SetupInstance ==
    /\ pc = "instance"
    /\ guest.exists
    /\ guest' = [guest EXCEPT !.sources = TRUE, !.builddirs = guest.running]
    /\ Goto("done")
    /\ UNCHANGED <<root, hostpkgs, template, apache>>

SetupInstanceFails ==
    /\ pc = "instance"
    /\ ~guest.exists
    /\ Abort
    /\ UNCHANGED <<root, hostpkgs, template, guest, apache>>

(* Between runs the operator installs a host package that was missing. *)
InstallHostPkg(pkg) ==
    /\ pc \in {"idle", "done"}
    /\ pkg \notin hostpkgs
    /\ hostpkgs' = hostpkgs \cup {pkg}
    /\ UNCHANGED <<pc, root, template, guest, apache>>

-----------------------------------------------------------------------------
(* The host as earlier runs or the administrator may have left it: a       *)
(* cached template (possibly the empty file of a failed fetch), a guest    *)
(* 102, apache2 installed and serving the default site.                    *)
Init ==
    /\ pc = "idle"
    /\ root = FALSE
    /\ hostpkgs = Installed0
    /\ template \in {"absent", "empty", "good"}
    /\ guest \in {NoGuest, [NoGuest EXCEPT !.exists = TRUE, !.running = TRUE]}
    /\ apache \in {[installed |-> FALSE, running |-> FALSE,
                    enabled |-> {"default"}, loaded |-> {}],
                   [installed |-> TRUE, running |-> TRUE,
                    enabled |-> {"default"}, loaded |-> {"default"}]}

Next ==
    \/ \E asRoot \in BOOLEAN : Start(asRoot)
    \/ CheckPreReqsFail \/ CheckPreReqs
    \/ TemplateCached \/ \E ok \in BOOLEAN : FetchTemplate(ok)
    \/ ClearOldInstance \/ CreateVzInstance \/ SetVzParams \/ AdjustQuota
    \/ StartAndConfigureInterfaces
    \/ \E ok \in BOOLEAN : InstallApache(ok)
    \/ WriteApacheCfg \/ WriteApacheCfgFails
    \/ ApacheSites
    \/ SetupInstance \/ SetupInstanceFails
    \/ \E pkg \in HostPkgs : InstallHostPkg(pkg)

Spec == Init /\ [][Next]_vars

(* The operator runs the script again after every failure, sooner or     *)
(* later as root, installs the host packages _checkHostPkgs asks for,     *)
(* each step of a run returns, and the network does not fail forever.     *)
FairSpec ==
    /\ Spec
    /\ WF_vars(Next)
    /\ SF_vars(Start(TRUE))
    /\ SF_vars(\E pkg \in HostPkgs : InstallHostPkg(pkg))
    /\ SF_vars(FetchTemplate(TRUE))
    /\ SF_vars(InstallApache(TRUE))

-----------------------------------------------------------------------------
(* Safety across reruns: when a run prints 'Setup Done', guest 102 is one  *)
(* that this run created from the template and configured (parameters,     *)
(* quota, sources.list, /build directories), not a guest left by an        *)
(* earlier run.  It rests on clearOldInstance destroying an old guest      *)
(* before vzctl create, which fails while 102 exists.                      *)
FreshGuestWhenDone ==
    pc = "done" =>
        /\ guest.exists /\ guest.fresh
        /\ guest.params /\ guest.quota /\ guest.sources /\ guest.builddirs

(* What setupApache's command lists are for: once setup is done, the       *)
(* running apache has loaded the proxy site (apache2 stop and start after  *)
(* a2ensite proxy) and no longer serves the default site (a2dissite), so   *)
(* the guest's sources.list reaches the mirrors through it.                *)
ProxyServedWhenDone ==
    pc = "done" => apache.running /\ apache.loaded = {"proxy"}

(* Liveness across reruns: an operator who runs the script again after     *)
(* each failure, with a network that does not fail forever, eventually     *)
(* gets a set-up host.                                                     *)
RerunSucceeds == <>(pc = "done")

=============================================================================
