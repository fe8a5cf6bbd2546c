------------------------------ MODULE TunProofs ------------------------------
(***************************************************************************)
(* Proofs about Tun: the default route survives the engine however it ends *)
(* and a stop leaves nothing of b4's behind.  The commands are taken one   *)
(* by one from w.pc; what an invariant needs to know of that sequence is   *)
(* which commands are still to come, and which never follow which.         *)
(***************************************************************************)
EXTENDS Tun, SequenceTheorems, TLAPS

(* The commands *)

InSetup == {"loosen", "forward", "snat", "notrack", "client_notrack", "mode", "tear", "save", "bypass",
            "btab", "crule", "ctab", "chain", "fill", "jumps", "captured", "into_tun"}

InRestore == {"restore", "undo_route", "undo_rp", "forget"}

InLoop == {"refresh", "resource", "forward", "snat", "renotrack", "rebypass", "recapture", "redefault", "unrp",
           "unsnat", "repoint", "loosen", "tear", "save", "flush", "btab", "ctab", "into_tun", "source"}

InTeardown == {"unchain", "uncapture", "undefault", "unmark", "flush", "link_del", "unforward", "unnat", "unrp",
               "forget"}

CommandNames == InSetup \cup InRestore \cup InLoop \cup InTeardown
         \cup {"open", "setup", "fail", "teardown", "stale_chains", "stale_nat", "stale_tables"}

(* Types *)

UpRoutes == [dev : Uplinks, src : Addresses \cup {None}, metric : 0..1]

Commands == [do : CommandNames, dev : Uplinks \cup {None}, src : Addresses \cup {None}]

Kernels ==
  [dev : BOOLEAN, fwd : BOOLEAN, snat : SUBSET Addresses, notrack : SUBSET {"reinject", "client"},
   brule : BOOLEAN, btab : Uplinks \cup {None}, crule : BOOLEAN,
   ctab : [src : Addresses \cup {None}] \cup {None}, chain : {None, Empty, 0, 1}, gate : BOOLEAN,
   jumps : SUBSET {"out", "pre", "gate"}]

Managers ==
  [out : Uplinks \cup {None}, src : Addresses \cup {None}, saved : UpRoutes \cup {None},
   rp : {"admin", "loose", None}, cap : {"ports", "default", None}, fwd : BOOLEAN, snat : BOOLEAN,
   notrack : SUBSET {"reinject", "client"}, rules : BOOLEAN, excl : {None, 0, 1}]

Files ==
  [cap : {"ports", "default", None}, saved : UpRoutes \cup {None}, out : Uplinks \cup {None},
   rp : {"admin", "loose", None}]

Machines ==
  [main : [0..1 -> Routes \cup {None}], rp : [Uplinks -> {"admin", "loose"}], k : Kernels,
   file : Files \cup {None, Torn}, m : Managers, warned : BOOLEAN, pc : Seq(Commands)]

Budgets == [moves : Nat, readdr : Nat, wipes : Nat, kills : Nat, fails : Nat, starts : Nat, sets : Nat]

Phases == {"stopped", "failed", "dead", "cleared", "starting", "clearing", "running", "stopping", "tearing",
           "failing"}

TunTypes ==
  /\ cfg \in Settings /\ wan \in Uplinks /\ addr \in [Uplinks -> Addresses] /\ sets \in 0..1
  /\ w \in Machines /\ phase \in Phases /\ left \in Budgets
  /\ left.kills <= cfg.left.kills /\ left.readdr <= cfg.left.readdr

(* The commands to come *)

Coming(x) == {x.pc[i].do : i \in DOMAIN x.pc}

\* What a phase issues.
Issued(p) ==
  CASE p = "starting" -> InRestore \cup {"open", "setup", "fail"} \cup InSetup
    [] p = "clearing" -> InRestore \cup {"stale_chains", "stale_nat", "stale_tables"}
    [] p \in {"running", "stopping"} -> InLoop
    [] p = "tearing" -> InTeardown \cup {"teardown"}
    [] p = "failing" -> InTeardown
    [] OTHER -> {}

\* The commands whose error ends setup.
Fallible == {"loosen", "bypass", "btab", "crule", "ctab", "into_tun"}

AtEnd == {"resource", "forward", "snat", "renotrack", "rebypass", "recapture", "redefault"}

\* b never comes after a.
NeverThen(a, b) ==
  \/ a \in {"setup", "fail", "into_tun", "captured"}
  \/ a \notin InRestore \cup {"open"} /\ b \in {"setup", "fail"}
  \/ a = "restore" /\ b \in InRestore
  \/ a = "forget" /\ b \in {"restore", "undo_route", "undo_rp"}
  \/ a \in {"tear", "save"} /\ b \in {"mode", "undo_route", "undo_rp"}
  \/ a = "save" /\ b = "tear"
  \/ a = "loosen" /\ b = "loosen"
  \/ a \in {"ctab", "chain", "fill", "jumps"} /\ b \in Fallible

NeverThenInLoop(a, b) ==
  \/ a \in {"refresh", "resource"} /\ b \notin AtEnd
  \/ a = "loosen" /\ b \in {"unrp", "repoint", "loosen"}
  \/ a = "repoint" /\ b \in {"unrp", "unsnat"}
  \/ a = "source" /\ b = "unsnat"
  \/ a = "snat" /\ b \in {"unsnat", "repoint", "source"}

NeverThenInTeardown(a, b) == a = "teardown" \/ b = "teardown" \/ (a = "forget" /\ b = "undefault")

Excluded(p, a, b) ==
  CASE p \in {"starting", "clearing"} -> NeverThen(a, b)
    [] p \in {"running", "stopping"} -> NeverThenInLoop(a, b)
    [] OTHER -> NeverThenInTeardown(a, b)

InOrder(p, s) == \A i, j \in DOMAIN s : i < j => ~Excluded(p, s[i].do, s[j].do)

Sequenced ==
  /\ Coming(w) \subseteq Issued(phase)
  /\ InOrder(phase, w.pc)

\* What a refresh hands to its later commands.
Args(Z) ==
  {c \in Commands : /\ c.src \in Z \cup {None} /\ (c.do \in {"repoint", "source"} => c.src # None)
                    /\ (c.do = "repoint" => c.dev \in Uplinks)}

Needs(a, b) == a \in Coming(w) => b \in Coming(w)

\* What comes, and with what.
Prepared ==
  /\ phase = "starting" =>
       /\ \A a \in InRestore \cup {"open"} : Needs(a, "setup")
       /\ Needs("tear", "save")
       /\ \A a \in {"crule", "ctab", "chain", "fill", "jumps"} : Needs(a, "captured")
       /\ "captured" \in Coming(w) => cfg.capture = "ports"
       /\ "into_tun" \in Coming(w) => cfg.capture = "default"
       /\ cfg.skip => Coming(w) \cap {"loosen", "forward", "snat", "notrack", "client_notrack"} = {}
  /\ phase \in {"running", "stopping"} =>
       /\ Coming(w) \cap {"into_tun", "redefault"} # {} => cfg.capture = "default"
       /\ Coming(w) \cap {"ctab", "recapture"} # {} => cfg.capture = "ports"
       /\ cfg.skip => Coming(w) \cap {"loosen", "forward", "snat", "renotrack"} = {}
       /\ w.pc \in Seq(Args(Addresses))

\* Setup has read the default route.
Begun ==
  \/ phase \in {"running", "stopping", "tearing"}
  \/ phase = "starting" /\ Coming(w) \cap {"setup", "fail"} = {}

Managed ==
  /\ Begun => w.m.out \in Uplinks
  /\ Begun /\ (phase = "starting" => "mode" \notin Coming(w)) => w.m.cap = cfg.capture
  /\ w.k.dev => phase \in {"starting", "running", "failing"}
  /\ (\E i \in 0..1 : w.main[i] # None /\ w.main[i].dev = Dev)
       => phase = "running" \/ (phase = "starting" /\ w.pc = <<>>)
  /\ Coming(w) \cap {"undo_route", "undo_rp"} # {} => w.file \in Files
  /\ "undefault" \in Coming(w) => w.m.saved # None

Basics == TunTypes /\ Sequenced /\ Prepared /\ Managed

(* The default route *)

Routable(x) == \E i \in 0..1 : x.main[i] # None /\ x.main[i].dev # Dev

\* The state file is enough for the next start, or it will be reported.
Backed == w.file = Torn \/ (w.file \in Files /\ w.file.cap = "default" /\ w.file.saved # None)

RouteSaved ==
  Begun /\ ~w.warned =>
    /\ phase # "tearing" => w.m.saved # None
    /\ (cfg.capture = "default" /\ phase # "tearing" /\ (phase = "starting" => "save" \notin Coming(w))) => Backed
    /\ "teardown" \in Coming(w) => w.m.saved # None

Survives ==
  \/ w.warned \/ Routable(w)
  \/ phase = "dead" /\ Backed
  \/ phase \in {"starting", "clearing"} /\ Backed
       /\ ("restore" \in Coming(w) \/ ("undo_route" \in Coming(w) /\ w.file # Torn))
  \/ phase \in {"running", "stopping"} /\ cfg.capture = "default"
  \/ phase = "starting" /\ w.pc = <<>> /\ cfg.capture = "default"
  \/ phase = "tearing" /\ Backed /\ cfg.capture = "default" /\ w.m.saved # None
       /\ Coming(w) \cap {"teardown", "undefault"} # {}

(* What a killed run left is cleared *)

ClearsAll ==
  /\ phase = "failing" /\ w.k.dev => "link_del" \in Coming(w)
  /\ phase \in {"clearing", "cleared"} =>
       /\ w.k.jumps # {} \/ w.k.chain # None \/ w.k.gate => "stale_chains" \in Coming(w)
       /\ w.k.fwd \/ w.k.snat # {} => "stale_nat" \in Coming(w)
       /\ w.k.crule \/ w.k.brule => "stale_tables" \in Coming(w)
       /\ w.file # None => Coming(w) \cap {"restore", "forget"} # {}

SurviveInv == Basics /\ RouteSaved /\ Survives /\ ClearsAll

(* Everything is undone *)

Untouched == \A u \in Uplinks : w.rp[u] = "admin"

NoSNAT == (cfg.capture = "default" /\ Readdressed) \/ w.k.snat = {}

CapturesPorts == w.k.chain # None \/ w.k.gate \/ w.k.jumps # {} \/ w.k.ctab # None

\* Nothing of b4's is there, the rule of the capture table apart.
Pristine ==
  /\ Untouched /\ NoSNAT /\ ~CapturesPorts /\ ~w.k.fwd /\ w.k.notrack = {} /\ ~w.k.brule /\ w.k.btab = None
  /\ w.file = None

\* The manager remembers what it changed.
Owned ==
  /\ w.k.fwd => w.m.fwd
  /\ NoSNAT \/ (w.k.snat \subseteq {w.m.src} /\ w.m.snat)
  /\ w.k.notrack \subseteq w.m.notrack
  /\ \A u \in Uplinks : w.rp[u] = "admin" \/ (u = w.m.out /\ w.m.rp = "admin")
  /\ w.m.rp # "loose"
  /\ cfg.skip => Untouched /\ NoSNAT /\ ~w.k.fwd /\ w.k.notrack = {}

Starting ==
  /\ "loosen" \in Coming(w) => Untouched
  /\ CapturesPorts => Coming(w) \cap (Fallible \cup {"fail"}) = {} /\ cfg.capture = "ports"
  /\ Begun /\ cfg.capture = "ports" /\ "captured" \notin Coming(w) => w.m.rules

\* A refresh restores before it forgets.
Serving ==
  /\ cfg.capture = "ports" => w.m.rules
  /\ CapturesPorts => cfg.capture = "ports"
  /\ Coming(w) \cap {"loosen", "repoint"} # {} /\ "unrp" \notin Coming(w) => Untouched
  /\ Coming(w) \cap {"repoint", "source"} # {} /\ "unsnat" \notin Coming(w) => NoSNAT

\* What is still there has its command to come.
Undoing ==
  /\ w.k.brule => "unmark" \in Coming(w)
  /\ w.k.btab # None => "flush" \in Coming(w)
  /\ w.k.ctab # None => "link_del" \in Coming(w)
  /\ w.k.chain # None \/ w.k.gate \/ w.k.jumps # {} => "unchain" \in Coming(w)
  /\ w.k.crule => "uncapture" \in Coming(w) \/ phase = "failing"
  /\ w.k.fwd => "unforward" \in Coming(w)
  /\ NoSNAT \/ "unnat" \in Coming(w)
  /\ w.k.notrack # {} => "unnat" \in Coming(w)
  /\ Untouched \/ "unrp" \in Coming(w)
  /\ w.file # None => "forget" \in Coming(w)

\* The sources in use while no uplink got a new address.
Sources == {<<u, 0>> : u \in Uplinks} \cup {None}

Located ==
  Readdressed \/
    /\ addr = [u \in Uplinks |-> <<u, 0>>]
    /\ w.m.src \in Sources /\ (w.m.saved # None => w.m.saved.src \in Sources)
    /\ \A i \in 0..1 : w.main[i] # None => w.main[i].src \in Sources
    /\ \A i \in DOMAIN w.pc : w.pc[i].src \in Sources

\* Nothing was set up yet, or all of it is gone.
Resting == Down \/ phase = "clearing" \/ (phase = "starting" /\ "setup" \in Coming(w))

Clean ==
  /\ w.k.crule => cfg.capture = "ports"
  /\ Owned
  /\ Resting => Pristine
  /\ phase = "starting" => Starting
  /\ (phase \in {"running", "stopping"} \/ "teardown" \in Coming(w)) => Serving
  /\ (phase \in {"tearing", "failing"} /\ "teardown" \notin Coming(w)) => Undoing
  /\ phase = "stopped" => ~w.k.crule
  /\ Located

StopInv == Killed \/ Clean

(* What the assumption gives *)

LEMMA TunDistinct ==
  ASSUME SettingsOK
  PROVE  /\ Uplinks # {} /\ None \notin Uplinks /\ Dev \notin Uplinks /\ Torn # None
         /\ None \notin Addresses /\ None # "admin" /\ None # "loose" /\ None # "ports" /\ None # "default"
         /\ UpRoutes \subseteq Routes /\ None \notin Routes /\ None \notin Files /\ Torn \notin Files
  <1>1. UpRoutes \subseteq Routes
    BY DEF UpRoutes, Routes
  <1>2. Files \subseteq States
    BY <1>1 DEF Files, States
  <1> QED
    BY <1>1, <1>2 DEF SettingsOK

LEMMA TunSettings ==
  ASSUME SettingsOK, NEW c \in Settings
  PROVE  /\ c.capture \in {"ports", "default"} /\ c.metric \in 0..1 /\ c.prints \in BOOLEAN
         /\ c.pin \in Uplinks \cup {None} /\ c.skip \in BOOLEAN /\ c.filter \in BOOLEAN /\ c.left \in Budgets
  BY DEF SettingsOK, Budgets

(* Sequences of commands *)

LEMMA Popped ==
  ASSUME NEW x, x \in Machines, x.pc # <<>>
  PROVE  LET y == [x EXCEPT !.pc = Tail(@)]
             h == Head(x.pc)
         IN  /\ h \in Commands /\ y \in Machines
             /\ y.main = x.main /\ y.rp = x.rp /\ y.k = x.k /\ y.file = x.file /\ y.m = x.m /\ y.warned = x.warned
             /\ Coming(x) = {h.do} \cup Coming(y)
             /\ \A i \in DOMAIN y.pc : i + 1 \in DOMAIN x.pc /\ y.pc[i] = x.pc[i + 1]
             /\ 1 \in DOMAIN x.pc /\ x.pc[1] = h
  <1> DEFINE y == [x EXCEPT !.pc = Tail(@)]
             h == Head(x.pc)
  <1>1. x.pc \in Seq(Commands) /\ y.pc = Tail(x.pc) /\ y.pc \in Seq(Commands)
    BY DEF Machines
  <1>2. y \in Machines /\ y.main = x.main /\ y.rp = x.rp /\ y.k = x.k /\ y.file = x.file /\ y.m = x.m
        /\ y.warned = x.warned
    BY <1>1 DEF Machines
  <1>3. h \in Commands /\ 1 \in DOMAIN x.pc /\ x.pc[1] = h
    BY <1>1
  <1>4. \A i \in DOMAIN y.pc : i + 1 \in DOMAIN x.pc /\ y.pc[i] = x.pc[i + 1]
    BY <1>1
  <1>5. \A i \in DOMAIN x.pc : i = 1 \/ (i - 1 \in DOMAIN y.pc /\ x.pc[i] = y.pc[i - 1])
    BY <1>1
  <1>6. Coming(x) = {h.do} \cup Coming(y)
    <2>1. ASSUME NEW a \in Coming(x) PROVE a \in {h.do} \cup Coming(y)
      BY <1>3, <1>5 DEF Coming
    <2>2. ASSUME NEW a \in {h.do} \cup Coming(y) PROVE a \in Coming(x)
      BY <1>3, <1>4 DEF Coming
    <2> QED
      BY <2>1, <2>2
  <1> QED
    BY <1>2, <1>3, <1>4, <1>6

\* Commands put in front of the ones to come.
LEMMA Pushed ==
  ASSUME NEW x, x \in Machines, NEW s \in Seq(Commands)
  PROVE  LET z == Then(x, s)
         IN  /\ z \in Machines
             /\ z.main = x.main /\ z.rp = x.rp /\ z.k = x.k /\ z.file = x.file /\ z.m = x.m /\ z.warned = x.warned
             /\ z.pc = s \o x.pc
             /\ Coming(z) = {s[i].do : i \in DOMAIN s} \cup Coming(x)
             /\ \A i \in DOMAIN z.pc :
                  \/ i \in DOMAIN s /\ z.pc[i] = s[i]
                  \/ i > Len(s) /\ i - Len(s) \in DOMAIN x.pc /\ z.pc[i] = x.pc[i - Len(s)]
  <1> DEFINE z == Then(x, s)
  <1>1. x.pc \in Seq(Commands) /\ z.pc = s \o x.pc /\ z.pc \in Seq(Commands)
    BY DEF Machines, Then
  <1>2. z \in Machines /\ z.main = x.main /\ z.rp = x.rp /\ z.k = x.k /\ z.file = x.file /\ z.m = x.m
        /\ z.warned = x.warned
    BY <1>1 DEF Machines, Then
  <1>3. \A i \in DOMAIN z.pc :
                  \/ i \in DOMAIN s /\ z.pc[i] = s[i]
                  \/ i > Len(s) /\ i - Len(s) \in DOMAIN x.pc /\ z.pc[i] = x.pc[i - Len(s)]
    BY <1>1
  <1>4. \A i \in DOMAIN s : i \in DOMAIN z.pc /\ z.pc[i] = s[i]
    BY <1>1
  <1>5. \A i \in DOMAIN x.pc : i + Len(s) \in DOMAIN z.pc /\ z.pc[i + Len(s)] = x.pc[i]
    BY <1>1
  <1>6. Coming(z) = {s[i].do : i \in DOMAIN s} \cup Coming(x)
    <2> HIDE DEF z
    <2>1. ASSUME NEW a \in Coming(z) PROVE a \in {s[i].do : i \in DOMAIN s} \cup Coming(x)
      BY <1>3 DEF Coming
    <2>2. ASSUME NEW a \in {s[i].do : i \in DOMAIN s} \cup Coming(x) PROVE a \in Coming(z)
      BY <1>4, <1>5 DEF Coming
    <2> QED
      BY <2>1, <2>2
  <1> QED
    BY <1>1, <1>2, <1>3, <1>6

\* The order, kept when a command is taken and when some are put in front.
LEMMA OrderPopped ==
  ASSUME NEW x, x \in Machines, x.pc # <<>>, NEW p, InOrder(p, x.pc)
  PROVE  LET y == [x EXCEPT !.pc = Tail(@)]
         IN  InOrder(p, y.pc) /\ \A a \in Coming(y) : ~Excluded(p, Head(x.pc).do, a)
  <1> DEFINE y == [x EXCEPT !.pc = Tail(@)]
  <1>1. /\ \A i \in DOMAIN y.pc : i + 1 \in DOMAIN x.pc /\ y.pc[i] = x.pc[i + 1]
        /\ 1 \in DOMAIN x.pc /\ x.pc[1] = Head(x.pc)
    BY Popped
  <1>2. \A i \in DOMAIN y.pc : i \in Nat /\ i > 0
    BY DEF Machines
  <1> HIDE DEF y
  <1>3. InOrder(p, y.pc)
    BY <1>1, <1>2 DEF InOrder
  <1>4. ASSUME NEW a \in Coming(y) PROVE ~Excluded(p, Head(x.pc).do, a)
    <2>1. PICK i \in DOMAIN y.pc : a = y.pc[i].do
      BY DEF Coming
    <2>2. i + 1 \in DOMAIN x.pc /\ a = x.pc[i + 1].do /\ 1 < i + 1
      BY <1>1, <1>2, <2>1
    <2> QED
      BY <1>1, <2>2 DEF InOrder
  <1> QED
    BY <1>3, <1>4 DEF y

LEMMA OrderPushed ==
  ASSUME NEW x, x \in Machines, NEW s \in Seq(Commands), NEW p, InOrder(p, x.pc), InOrder(p, s),
         \A i \in DOMAIN s : \A a \in Coming(x) : ~Excluded(p, s[i].do, a)
  PROVE  InOrder(p, Then(x, s).pc)
  <1> DEFINE z == Then(x, s)
  <1>1. \A i \in DOMAIN z.pc :
                  \/ i \in DOMAIN s /\ z.pc[i] = s[i]
                  \/ i > Len(s) /\ i - Len(s) \in DOMAIN x.pc /\ z.pc[i] = x.pc[i - Len(s)]
    BY Pushed
  <1>2. DOMAIN z.pc \subseteq Nat /\ Len(s) \in Nat /\ DOMAIN s = 1 .. Len(s)
    <2>1. x.pc \in Seq(Commands) /\ z.pc = s \o x.pc
      BY DEF Machines, Then
    <2> QED
      BY <2>1
  <1> HIDE DEF z
  <1>3. ASSUME NEW i \in DOMAIN z.pc, NEW j \in DOMAIN z.pc, i < j
        PROVE  ~Excluded(p, z.pc[i].do, z.pc[j].do)
    <2>1. CASE j \in DOMAIN s /\ z.pc[j] = s[j]
      <3>1. i \in DOMAIN s /\ z.pc[i] = s[i]
        BY <1>1, <1>2, <1>3, <2>1
      <3> QED
        BY <1>3, <2>1, <3>1 DEF InOrder
    <2>2. CASE j > Len(s) /\ j - Len(s) \in DOMAIN x.pc /\ z.pc[j] = x.pc[j - Len(s)]
      <3>1. CASE i \in DOMAIN s /\ z.pc[i] = s[i]
        <4>1. z.pc[j].do \in Coming(x)
          BY <2>2 DEF Coming
        <4> QED
          BY <3>1, <4>1
      <3>2. CASE i > Len(s) /\ i - Len(s) \in DOMAIN x.pc /\ z.pc[i] = x.pc[i - Len(s)]
        <4>1. i - Len(s) < j - Len(s)
          BY <1>2, <1>3
        <4> QED
          BY <2>2, <3>2, <4>1 DEF InOrder
      <3> QED
        BY <1>1, <3>1, <3>2
    <2> QED
      BY <1>1, <2>1, <2>2
  <1> QED
    BY <1>3 DEF InOrder, z

(* What a command changes *)

LEMMA MachineFields ==
  ASSUME NEW x, x \in Machines
  PROVE  /\ x.k \in Kernels /\ x.m \in Managers /\ x.main \in [0..1 -> Routes \cup {None}]
         /\ x.rp \in [Uplinks -> {"admin", "loose"}] /\ x.file \in Files \cup {None, Torn}
         /\ x.warned \in BOOLEAN /\ x.pc \in Seq(Commands)
  BY DEF Machines

LEMMA ManagerFields ==
  ASSUME NEW m, m \in Managers
  PROVE  /\ m.out \in Uplinks \cup {None} /\ m.src \in Addresses \cup {None} /\ m.saved \in UpRoutes \cup {None}
         /\ m.rp \in {"admin", "loose", None} /\ m.cap \in {"ports", "default", None} /\ m.fwd \in BOOLEAN
         /\ m.snat \in BOOLEAN /\ m.notrack \subseteq {"reinject", "client"} /\ m.rules \in BOOLEAN
         /\ m.excl \in {None, 0, 1}
  BY DEF Managers

LEMMA KernelFields ==
  ASSUME NEW k, k \in Kernels
  PROVE  /\ k.dev \in BOOLEAN /\ k.fwd \in BOOLEAN /\ k.snat \subseteq Addresses
         /\ k.notrack \subseteq {"reinject", "client"} /\ k.brule \in BOOLEAN /\ k.btab \in Uplinks \cup {None}
         /\ k.crule \in BOOLEAN /\ k.ctab \in [src : Addresses \cup {None}] \cup {None}
         /\ k.chain \in {None, Empty, 0, 1} /\ k.gate \in BOOLEAN /\ k.jumps \subseteq {"out", "pre", "gate"}
  BY DEF Kernels

OnlyKernel(z, x) ==
  /\ z \in Machines /\ z.pc = x.pc
  /\ z.main = x.main /\ z.rp = x.rp /\ z.file = x.file /\ z.m = x.m /\ z.warned = x.warned

OnlyManager(z, x) ==
  /\ z \in Machines /\ z.pc = x.pc
  /\ z.main = x.main /\ z.rp = x.rp /\ z.file = x.file /\ z.k = x.k /\ z.warned = x.warned

OnlyBoth(z, x) ==
  /\ z \in Machines /\ z.pc = x.pc
  /\ z.main = x.main /\ z.rp = x.rp /\ z.file = x.file /\ z.warned = x.warned

LEMMA KernelSet ==
  ASSUME NEW x, x \in Machines, NEW k \in Kernels
  PROVE  OnlyKernel([x EXCEPT !.k = k], x) /\ [x EXCEPT !.k = k].k = k
  BY DEF Machines, OnlyKernel

LEMMA ManagerSet ==
  ASSUME NEW x, x \in Machines, NEW m \in Managers
  PROVE  OnlyManager([x EXCEPT !.m = m], x) /\ [x EXCEPT !.m = m].m = m
  BY DEF Machines, OnlyManager

LEMMA AddBypassDefaultDoes ==
  ASSUME NEW x, x \in Machines
  PROVE  OnlyKernel(addBypassDefault(x), x) /\ addBypassDefault(x).k = [x.k EXCEPT !.btab = x.m.out]
  <1> DEFINE k == [x.k EXCEPT !.btab = x.m.out]
  <1>1. x.k \in Kernels /\ x.m.out \in Uplinks \cup {None} /\ x.m.notrack \subseteq {"reinject", "client"}
    BY MachineFields, ManagerFields
  <1>2. k \in Kernels
    BY <1>1 DEF Kernels
  <1>3. addBypassDefault(x) = [x EXCEPT !.k = k]
    BY DEF addBypassDefault, Machines
  <1> QED
    BY <1>2, <1>3, KernelSet

LEMMA FlushBypassTableDoes ==
  ASSUME NEW x, x \in Machines
  PROVE  OnlyKernel(flushBypassTable(x), x) /\ flushBypassTable(x).k = [x.k EXCEPT !.btab = None]
  <1> DEFINE k == [x.k EXCEPT !.btab = None]
  <1>1. x.k \in Kernels /\ x.m.out \in Uplinks \cup {None} /\ x.m.notrack \subseteq {"reinject", "client"}
    BY MachineFields, ManagerFields
  <1>2. k \in Kernels
    BY <1>1 DEF Kernels
  <1>3. flushBypassTable(x) = [x EXCEPT !.k = k]
    BY DEF flushBypassTable, Machines
  <1> QED
    BY <1>2, <1>3, KernelSet

LEMMA DelFwmarkRuleDoes ==
  ASSUME NEW x, x \in Machines
  PROVE  OnlyKernel(delFwmarkRule(x), x) /\ delFwmarkRule(x).k = [x.k EXCEPT !.brule = FALSE]
  <1> DEFINE k == [x.k EXCEPT !.brule = FALSE]
  <1>1. x.k \in Kernels /\ x.m.out \in Uplinks \cup {None} /\ x.m.notrack \subseteq {"reinject", "client"}
    BY MachineFields, ManagerFields
  <1>2. k \in Kernels
    BY <1>1 DEF Kernels
  <1>3. delFwmarkRule(x) = [x EXCEPT !.k = k]
    BY DEF delFwmarkRule, Machines
  <1> QED
    BY <1>2, <1>3, KernelSet

LEMMA SetupCaptureTableDoes ==
  ASSUME NEW x, x \in Machines
  PROVE  OnlyKernel(setupCaptureTable(x), x) /\ setupCaptureTable(x).k = [x.k EXCEPT !.crule = TRUE]
  <1> DEFINE k == [x.k EXCEPT !.crule = TRUE]
  <1>1. x.k \in Kernels /\ x.m.out \in Uplinks \cup {None} /\ x.m.notrack \subseteq {"reinject", "client"}
    BY MachineFields, ManagerFields
  <1>2. k \in Kernels
    BY <1>1 DEF Kernels
  <1>3. setupCaptureTable(x) = [x EXCEPT !.k = k]
    BY DEF setupCaptureTable, Machines
  <1> QED
    BY <1>2, <1>3, KernelSet

LEMMA EnsureCaptureChainDoes ==
  ASSUME NEW x, x \in Machines
  PROVE  OnlyKernel(ensureCaptureChain(x), x) /\ ensureCaptureChain(x).k = [x.k EXCEPT !.chain = IF x.k.chain = None THEN Empty ELSE x.k.chain]
  <1> DEFINE k == [x.k EXCEPT !.chain = IF x.k.chain = None THEN Empty ELSE x.k.chain]
  <1>1. x.k \in Kernels /\ x.m.out \in Uplinks \cup {None} /\ x.m.notrack \subseteq {"reinject", "client"}
    BY MachineFields, ManagerFields
  <1>2. k \in Kernels
    BY <1>1 DEF Kernels
  <1>3. ensureCaptureChain(x) = [x EXCEPT !.k = k]
    BY DEF ensureCaptureChain, Machines
  <1> QED
    BY <1>2, <1>3, KernelSet

LEMMA RemoveCaptureRulesDoes ==
  ASSUME NEW x, x \in Machines
  PROVE  OnlyKernel(removeCaptureRules(x), x) /\ removeCaptureRules(x).k = [x.k EXCEPT !.jumps = {}, !.gate = FALSE, !.chain = None]
  <1> DEFINE k == [x.k EXCEPT !.jumps = {}, !.gate = FALSE, !.chain = None]
  <1>1. x.k \in Kernels /\ x.m.out \in Uplinks \cup {None} /\ x.m.notrack \subseteq {"reinject", "client"}
    BY MachineFields, ManagerFields
  <1>2. k \in Kernels
    BY <1>1 DEF Kernels
  <1>3. removeCaptureRules(x) = [x EXCEPT !.k = k]
    BY DEF removeCaptureRules, Machines
  <1> QED
    BY <1>2, <1>3, KernelSet

LEMMA EnsureNotrackDoes ==
  ASSUME NEW x, x \in Machines
  PROVE  OnlyKernel(ensureNotrack(x), x) /\ ensureNotrack(x).k = [x.k EXCEPT !.notrack = x.k.notrack \cup x.m.notrack]
  <1> DEFINE k == [x.k EXCEPT !.notrack = x.k.notrack \cup x.m.notrack]
  <1>1. x.k \in Kernels /\ x.m.out \in Uplinks \cup {None} /\ x.m.notrack \subseteq {"reinject", "client"}
    BY MachineFields, ManagerFields
  <1>2. k \in Kernels
    BY <1>1 DEF Kernels
  <1>3. ensureNotrack(x) = [x EXCEPT !.k = k]
    BY DEF ensureNotrack, Machines
  <1> QED
    BY <1>2, <1>3, KernelSet

LEMMA EnsureBypassDoes ==
  ASSUME NEW x, x \in Machines
  PROVE  OnlyKernel(ensureBypass(x), x) /\ ensureBypass(x).k = [x.k EXCEPT !.brule = TRUE, !.btab = IF x.k.btab = None THEN x.m.out ELSE x.k.btab]
  <1> DEFINE k == [x.k EXCEPT !.brule = TRUE, !.btab = IF x.k.btab = None THEN x.m.out ELSE x.k.btab]
  <1>1. x.k \in Kernels /\ x.m.out \in Uplinks \cup {None} /\ x.m.notrack \subseteq {"reinject", "client"}
    BY MachineFields, ManagerFields
  <1>2. k \in Kernels
    BY <1>1 DEF Kernels
  <1>3. ensureBypass(x) = [x EXCEPT !.k = k]
    BY DEF ensureBypass, Machines
  <1> QED
    BY <1>2, <1>3, KernelSet

LEMMA ClearStaleChainsDoes ==
  ASSUME NEW x, x \in Machines
  PROVE  /\ OnlyKernel(ClearStaleChains(x), x)
         /\ ClearStaleChains(x).k
              = [x.k EXCEPT !.jumps = {}, !.gate = FALSE, !.chain = None, !.notrack = x.k.notrack \ {"reinject"}]
  <1> DEFINE y == removeCaptureRules(x)
             k == [y.k EXCEPT !.notrack = y.k.notrack \ {"reinject"}]
  <1>1. OnlyKernel(y, x) /\ y.k = [x.k EXCEPT !.jumps = {}, !.gate = FALSE, !.chain = None]
    BY RemoveCaptureRulesDoes
  <1>2. x.k \in Kernels /\ y \in Machines /\ y.k \in Kernels
    BY <1>1, MachineFields DEF OnlyKernel
  <1>3. k \in Kernels
    BY <1>2 DEF Kernels
  <1>4. ClearStaleChains(x) = [y EXCEPT !.k = k]
    BY DEF ClearStaleChains
  <1>5. OnlyKernel(ClearStaleChains(x), y) /\ ClearStaleChains(x).k = k
    BY <1>2, <1>3, <1>4, KernelSet
  <1>6. k = [x.k EXCEPT !.jumps = {}, !.gate = FALSE, !.chain = None, !.notrack = x.k.notrack \ {"reinject"}]
    BY <1>1, <1>2 DEF Kernels
  <1> QED
    BY <1>1, <1>5, <1>6 DEF OnlyKernel

LEMMA ClearTunSNATDoes ==
  ASSUME NEW x, x \in Machines
  PROVE  OnlyKernel(clearTunSNAT(x), x) /\ clearTunSNAT(x).k = [x.k EXCEPT !.fwd = FALSE, !.snat = {}]
  <1> DEFINE k == [x.k EXCEPT !.fwd = FALSE, !.snat = {}]
  <1>1. x.k \in Kernels /\ x.m.out \in Uplinks \cup {None} /\ x.m.notrack \subseteq {"reinject", "client"}
    BY MachineFields, ManagerFields
  <1>2. k \in Kernels
    BY <1>1 DEF Kernels
  <1>3. clearTunSNAT(x) = [x EXCEPT !.k = k]
    BY DEF clearTunSNAT, Machines
  <1> QED
    BY <1>2, <1>3, KernelSet

LEMMA ClearOwnedRoutingTableDoes ==
  ASSUME NEW x, x \in Machines
  PROVE  OnlyKernel(clearOwnedRoutingTable(x), x) /\ clearOwnedRoutingTable(x).k = [x.k EXCEPT !.crule = FALSE, !.ctab = IF x.k.crule THEN None ELSE x.k.ctab,
                       !.brule = FALSE, !.btab = IF x.k.brule THEN None ELSE x.k.btab]
  <1> DEFINE k == [x.k EXCEPT !.crule = FALSE, !.ctab = IF x.k.crule THEN None ELSE x.k.ctab,
                       !.brule = FALSE, !.btab = IF x.k.brule THEN None ELSE x.k.btab]
  <1>1. x.k \in Kernels /\ x.m.out \in Uplinks \cup {None} /\ x.m.notrack \subseteq {"reinject", "client"}
    BY MachineFields, ManagerFields
  <1>2. k \in Kernels
    BY <1>1 DEF Kernels
  <1>3. clearOwnedRoutingTable(x) = [x EXCEPT !.k = k]
    BY DEF clearOwnedRoutingTable, Machines
  <1> QED
    BY <1>2, <1>3, KernelSet

LEMMA SetupPortCaptureDoes ==
  ASSUME NEW x, x \in Machines
  PROVE  OnlyManager(setupPortCapture(x), x) /\ setupPortCapture(x).m = [x.m EXCEPT !.rules = TRUE]
  <1> DEFINE m == [x.m EXCEPT !.rules = TRUE]
  <1>1. x.m \in Managers
    BY MachineFields
  <1>2. m \in Managers
    BY <1>1 DEF Managers
  <1>3. setupPortCapture(x) = [x EXCEPT !.m = m]
    BY DEF setupPortCapture, Machines
  <1> QED
    BY <1>2, <1>3, ManagerSet

LEMMA ApplyForwardingDoes ==
  ASSUME NEW x, x \in Machines
  PROVE  /\ OnlyBoth(applyForwarding(x), x)
         /\ applyForwarding(x).k = [x.k EXCEPT !.fwd = TRUE]
         /\ applyForwarding(x).m = [x.m EXCEPT !.fwd = TRUE]
  <1> DEFINE k == [x.k EXCEPT !.fwd = TRUE]
             m == [x.m EXCEPT !.fwd = TRUE]
  <1>1. x.k \in Kernels /\ x.m \in Managers
    BY MachineFields
  <1>2. k \in Kernels
    BY <1>1 DEF Kernels
  <1>3. m \in Managers
    BY <1>1 DEF Managers
  <1>4. applyForwarding(x) = [x EXCEPT !.k = k, !.m = m]
    BY DEF applyForwarding, Machines
  <1>5. OnlyBoth(applyForwarding(x), x) /\ applyForwarding(x).k = k /\ applyForwarding(x).m = m
    <2> HIDE DEF k, m
    <2> QED
      BY <1>2, <1>3, <1>4 DEF Machines, OnlyBoth
  <1> QED
    BY <1>5

LEMMA RebuildCaptureChainDoes ==
  ASSUME NEW x, x \in Machines, sets \in 0..1
  PROVE  /\ OnlyBoth(rebuildCaptureChain(x), x)
         /\ rebuildCaptureChain(x).k = [x.k EXCEPT !.chain = sets]
         /\ rebuildCaptureChain(x).m = [x.m EXCEPT !.excl = sets]
  <1> DEFINE k == [x.k EXCEPT !.chain = sets]
             m == [x.m EXCEPT !.excl = sets]
  <1>1. x.k \in Kernels /\ x.m \in Managers
    BY MachineFields
  <1>2. k \in Kernels
    BY <1>1 DEF Kernels
  <1>3. m \in Managers
    BY <1>1 DEF Managers
  <1>4. rebuildCaptureChain(x) = [x EXCEPT !.k = k, !.m = m]
    BY DEF rebuildCaptureChain, Machines
  <1>5. OnlyBoth(rebuildCaptureChain(x), x) /\ rebuildCaptureChain(x).k = k /\ rebuildCaptureChain(x).m = m
    <2> HIDE DEF k, m
    <2> QED
      BY <1>2, <1>3, <1>4 DEF Machines, OnlyBoth
  <1> QED
    BY <1>5

LEMMA TeardownPortCaptureDoes ==
  ASSUME NEW x, x \in Machines
  PROVE  /\ OnlyBoth(teardownPortCapture(x), x)
         /\ teardownPortCapture(x).k = [x.k EXCEPT !.crule = FALSE, !.ctab = None]
         /\ teardownPortCapture(x).m = [x.m EXCEPT !.rules = FALSE]
  <1> DEFINE k == [x.k EXCEPT !.crule = FALSE, !.ctab = None]
             m == [x.m EXCEPT !.rules = FALSE]
  <1>1. x.k \in Kernels /\ x.m \in Managers
    BY MachineFields
  <1>2. k \in Kernels
    BY <1>1 DEF Kernels
  <1>3. m \in Managers
    BY <1>1 DEF Managers
  <1>4. teardownPortCapture(x) = [x EXCEPT !.k = k, !.m = m]
    BY DEF teardownPortCapture, Machines
  <1>5. OnlyBoth(teardownPortCapture(x), x) /\ teardownPortCapture(x).k = k /\ teardownPortCapture(x).m = m
    <2> HIDE DEF k, m
    <2> QED
      BY <1>2, <1>3, <1>4 DEF Machines, OnlyBoth
  <1> QED
    BY <1>5

LEMMA EnsureCaptureJumpsDoes ==
  ASSUME NEW x, x \in Machines
  PROVE  LET z == ensureCaptureJumps(x)
         IN  OnlyKernel(z, x) /\ z.k = [x.k EXCEPT !.gate = z.k.gate, !.jumps = z.k.jumps]
  <1> DEFINE z == ensureCaptureJumps(x)
             g == [x.k EXCEPT !.gate = TRUE, !.jumps = (x.k.jumps \ {"pre"}) \cup {"out", "gate"}]
             p == [x.k EXCEPT !.jumps = (x.k.jumps \ {"gate"}) \cup {"out", "pre"}]
  <1>1. x.k \in Kernels
    BY MachineFields
  <1>2. CASE cfg.filter
    <2>1. z = [x EXCEPT !.k = g]
      BY <1>2 DEF ensureCaptureJumps, ensureGateChain, Machines
    <2>2. g \in Kernels /\ g = [x.k EXCEPT !.gate = g.gate, !.jumps = g.jumps]
      BY <1>1 DEF Kernels
    <2>3. OnlyKernel(z, x) /\ z.k = g
      BY <2>1, <2>2, KernelSet
    <2> HIDE DEF g
    <2> QED
      BY <2>2, <2>3
  <1>3. CASE ~cfg.filter
    <2>1. z = [x EXCEPT !.k = p]
      BY <1>3 DEF ensureCaptureJumps, Machines
    <2>2. p \in Kernels /\ p = [x.k EXCEPT !.gate = p.gate, !.jumps = p.jumps]
      BY <1>1 DEF Kernels
    <2> HIDE DEF p
    <2>3. OnlyKernel(z, x) /\ z.k = p
      BY <2>1, <2>2, KernelSet
    <2> QED
      BY <2>2, <2>3
  <1> QED
    BY <1>2, <1>3

LEMMA TeardownForwardingDoes ==
  ASSUME NEW x, x \in Machines
  PROVE  LET z == teardownForwarding(x)
         IN  OnlyKernel(z, x) /\ z.k = [x.k EXCEPT !.fwd = IF x.m.fwd THEN FALSE ELSE x.k.fwd]
  <1> DEFINE z == teardownForwarding(x)
             k == [x.k EXCEPT !.fwd = FALSE]
  <1>1. x.k \in Kernels
    BY MachineFields
  <1>2. k \in Kernels /\ x.k = [x.k EXCEPT !.fwd = x.k.fwd]
    BY <1>1 DEF Kernels
  <1>3. CASE x.m.fwd
    <2>1. z = [x EXCEPT !.k = k]
      BY <1>3 DEF teardownForwarding
    <2>2. k = [x.k EXCEPT !.fwd = IF x.m.fwd THEN FALSE ELSE x.k.fwd]
      BY <1>3
    <2> HIDE DEF k
    <2>3. OnlyKernel(z, x) /\ z.k = k
      BY <1>2, <2>1, KernelSet
    <2> QED
      BY <2>2, <2>3
  <1>4. CASE ~x.m.fwd
    <2>1. z = x
      BY <1>4 DEF teardownForwarding
    <2> QED
      BY <1>2, <1>4, <2>1 DEF OnlyKernel
  <1> QED
    BY <1>3, <1>4

LEMMA EnsureSNATDoes ==
  ASSUME NEW x, x \in Machines
  PROVE  LET z == ensureSNAT(x)
         IN  /\ OnlyBoth(z, x)
             /\ z.k = [x.k EXCEPT !.snat = z.k.snat] /\ z.m = [x.m EXCEPT !.snat = z.m.snat]
             /\ z = x \/ (z.m.snat = TRUE /\ z.k.snat = x.k.snat \cup {x.m.src})
  <1> DEFINE z == ensureSNAT(x)
             k == [x.k EXCEPT !.snat = x.k.snat \cup {x.m.src}]
             m == [x.m EXCEPT !.snat = TRUE]
  <1>1. x.k \in Kernels /\ x.m \in Managers /\ x.m.src \in Addresses \cup {None}
    BY MachineFields, ManagerFields
  <1>2. CASE x.m.src = None
    <2>1. z = x
      BY <1>2 DEF ensureSNAT
    <2>2. x.k = [x.k EXCEPT !.snat = x.k.snat] /\ x.m = [x.m EXCEPT !.snat = x.m.snat]
      BY <1>1 DEF Kernels, Managers
    <2> QED
      BY <2>1, <2>2 DEF OnlyBoth
  <1>3. CASE x.m.src # None
    <2>1. k \in Kernels /\ k.snat = x.k.snat \cup {x.m.src}
      BY <1>1, <1>3 DEF Kernels
    <2>2. m \in Managers /\ m.snat = TRUE
      BY <1>1 DEF Managers
    <2>3. z = [x EXCEPT !.m = m, !.k = k]
      BY <1>3 DEF ensureSNAT, Machines
    <2>4. OnlyBoth(z, x) /\ z.k = k /\ z.m = m
      <3> HIDE DEF k, m
      <3> QED
        BY <2>1, <2>2, <2>3 DEF Machines, OnlyBoth
    <2> QED
      BY <2>1, <2>2, <2>4
  <1> QED
    BY <1>2, <1>3

LEMMA RemoveSNATDoes ==
  ASSUME NEW x, x \in Machines
  PROVE  LET z == removeSNAT(x)
         IN  /\ OnlyBoth(z, x)
             /\ z.k = [x.k EXCEPT !.snat = z.k.snat] /\ z.m = [x.m EXCEPT !.snat = z.m.snat]
             /\ \/ z = x /\ (~x.m.snat \/ x.m.src = None)
                \/ z.m.snat = FALSE /\ z.k.snat = x.k.snat \ {x.m.src}
  <1> DEFINE z == removeSNAT(x)
             k == [x.k EXCEPT !.snat = x.k.snat \ {x.m.src}]
             m == [x.m EXCEPT !.snat = FALSE]
  <1>1. x.k \in Kernels /\ x.m \in Managers
    BY MachineFields, ManagerFields
  <1>2. CASE ~x.m.snat \/ x.m.src = None
    <2>1. z = x
      BY <1>2 DEF removeSNAT
    <2>2. x.k = [x.k EXCEPT !.snat = x.k.snat] /\ x.m = [x.m EXCEPT !.snat = x.m.snat]
      BY <1>1 DEF Kernels, Managers
    <2> QED
      BY <1>2, <2>1, <2>2 DEF OnlyBoth
  <1>3. CASE ~(~x.m.snat \/ x.m.src = None)
    <2>1. k \in Kernels /\ k.snat = x.k.snat \ {x.m.src}
      BY <1>1, <1>3 DEF Kernels
    <2>2. m \in Managers /\ m.snat = FALSE
      BY <1>1 DEF Managers
    <2>3. z = [x EXCEPT !.m = m, !.k = k]
      BY <1>3 DEF removeSNAT, Machines
    <2>4. OnlyBoth(z, x) /\ z.k = k /\ z.m = m
      <3> HIDE DEF k, m
      <3> QED
        BY <2>1, <2>2, <2>3 DEF Machines, OnlyBoth
    <2> QED
      BY <2>1, <2>2, <2>4
  <1> QED
    BY <1>2, <1>3

LEMMA InstallNotrackDoes ==
  ASSUME NEW x, x \in Machines, NEW a \in {"reinject", "client"}
  PROVE  LET z == installNotrack(x, a)
         IN  /\ OnlyBoth(z, x)
             /\ z.k = [x.k EXCEPT !.notrack = x.k.notrack \cup {a}]
             /\ z.m = [x.m EXCEPT !.notrack = x.m.notrack \cup {a}]
  <1> DEFINE z == installNotrack(x, a)
             k == [x.k EXCEPT !.notrack = x.k.notrack \cup {a}]
             m == [x.m EXCEPT !.notrack = x.m.notrack \cup {a}]
  <1>1. x.k \in Kernels /\ x.m \in Managers
    BY MachineFields, ManagerFields
  <1>2. k \in Kernels
    BY <1>1 DEF Kernels
  <1>3. m \in Managers
    BY <1>1 DEF Managers
  <1>4. z = [x EXCEPT !.k = k, !.m = m]
    BY DEF installNotrack, Machines
  <1>5. OnlyBoth(z, x) /\ z.k = k /\ z.m = m
    <2> HIDE DEF k, m
    <2> QED
      BY <1>2, <1>3, <1>4 DEF Machines, OnlyBoth
  <1> QED
    BY <1>5

LEMMA TeardownNATDoes ==
  ASSUME NEW x, x \in Machines
  PROVE  LET z == teardownNAT(x)
         IN  /\ OnlyBoth(z, x)
             /\ z.k = [x.k EXCEPT !.snat = z.k.snat, !.notrack = x.k.notrack \ x.m.notrack]
             /\ z.m = [x.m EXCEPT !.snat = z.m.snat, !.notrack = {}]
             /\ \/ z.k.snat = x.k.snat /\ z.m.snat = x.m.snat /\ (~x.m.snat \/ x.m.src = None)
                \/ z.m.snat = FALSE /\ z.k.snat = x.k.snat \ {x.m.src}
  <1> DEFINE z == teardownNAT(x)
             y == removeSNAT(x)
             k == [y.k EXCEPT !.notrack = y.k.notrack \ y.m.notrack]
             m == [y.m EXCEPT !.notrack = {}]
  <1>1. /\ OnlyBoth(y, x)
        /\ y.k = [x.k EXCEPT !.snat = y.k.snat] /\ y.m = [x.m EXCEPT !.snat = y.m.snat]
        /\ \/ y = x /\ (~x.m.snat \/ x.m.src = None)
           \/ y.m.snat = FALSE /\ y.k.snat = x.k.snat \ {x.m.src}
    BY RemoveSNATDoes
  <1>2. y \in Machines /\ y.k \in Kernels /\ y.m \in Managers /\ x.k \in Kernels /\ x.m \in Managers
    BY <1>1, MachineFields DEF OnlyBoth
  <1>3. k \in Kernels /\ k = [x.k EXCEPT !.snat = y.k.snat, !.notrack = x.k.notrack \ x.m.notrack]
        /\ k.snat = y.k.snat
    <2>1. y.k.notrack = x.k.notrack /\ y.m.notrack = x.m.notrack
      BY <1>1, <1>2 DEF Kernels, Managers
    <2> QED
      BY <1>1, <1>2, <2>1 DEF Kernels
  <1>4. m \in Managers /\ m = [x.m EXCEPT !.snat = y.m.snat, !.notrack = {}] /\ m.snat = y.m.snat
    BY <1>1, <1>2 DEF Managers
  <1>5. z = [y EXCEPT !.k = k, !.m = m]
    BY <1>2 DEF teardownNAT, removeNotrack, Machines
  <1>6. OnlyBoth(z, y) /\ z.k = k /\ z.m = m
    <2> HIDE DEF k, m, y
    <2> QED
      BY <1>2, <1>3, <1>4, <1>5 DEF Machines, OnlyBoth
  <1>7. OnlyBoth(z, x)
    BY <1>1, <1>6 DEF OnlyBoth
  <1> QED
    BY <1>1, <1>3, <1>4, <1>6, <1>7

LEMMA StepsAre ==
  ASSUME NEW names \in Seq(CommandNames)
  PROVE  /\ Steps(names) \in Seq(Commands) /\ Len(Steps(names)) = Len(names)
         /\ DOMAIN Steps(names) = DOMAIN names
         /\ \A i \in DOMAIN names : Steps(names)[i] = [do |-> names[i], dev |-> None, src |-> None]
         /\ {Steps(names)[i].do : i \in DOMAIN Steps(names)} = {names[i] : i \in DOMAIN names}
  <1> DEFINE s == Steps(names)
  <1>1. s = [i \in 1 .. Len(names) |-> [do |-> names[i], dev |-> None, src |-> None]]
    BY DEF Steps, Do
  <1>2. \A i \in 1 .. Len(names) : [do |-> names[i], dev |-> None, src |-> None] \in Commands
    BY DEF Commands
  <1>3. s \in Seq(Commands) /\ Len(s) = Len(names) /\ DOMAIN s = DOMAIN names
    BY <1>1, <1>2
  <1>4. \A i \in DOMAIN names : s[i] = [do |-> names[i], dev |-> None, src |-> None] /\ s[i].do = names[i]
    BY <1>1
  <1> HIDE DEF s
  <1>5. {s[i].do : i \in DOMAIN s} = {names[i] : i \in DOMAIN names}
    BY <1>3, <1>4
  <1> QED
    BY <1>3, <1>4, <1>5 DEF s

\* The command before "fail" is the last of setup.
Fails(z, x) ==
  /\ z \in Machines /\ z.pc = Steps(<<"fail">>)
  /\ z.main = x.main /\ z.rp = x.rp /\ z.file = x.file /\ z.m = x.m /\ z.k = x.k /\ z.warned = x.warned

LEMMA FailSet ==
  ASSUME NEW x, x \in Machines
  PROVE  Fails([x EXCEPT !.pc = Steps(<<"fail">>)], x)
  <1>1. Steps(<<"fail">>) \in Seq(Commands)
    <2>1. <<"fail">> \in Seq(CommandNames)
      BY DEF CommandNames
    <2> QED
      BY <2>1, StepsAre
  <1> QED
    BY <1>1 DEF Machines, Fails

LEMMA SetupBypassTableDoes ==
  ASSUME NEW x, x \in Machines
  PROVE  LET z == setupBypassTable(x)
         IN  Fails(z, x) \/ (OnlyKernel(z, x) /\ z.k = [x.k EXCEPT !.btab = None, !.brule = TRUE])
  <1> DEFINE z == setupBypassTable(x)
             k == [x.k EXCEPT !.btab = None, !.brule = TRUE]
  <1>1. x.k \in Kernels
    BY MachineFields
  <1>2. k \in Kernels
    BY <1>1 DEF Kernels
  <1>3. z = [x EXCEPT !.pc = Steps(<<"fail">>)] \/ z = [x EXCEPT !.k = k]
    <2>1. CASE x.k.btab # None /\ ~ownsBypassTable(x)
      BY <2>1 DEF setupBypassTable
    <2>2. CASE ~(x.k.btab # None /\ ~ownsBypassTable(x))
      BY <2>2 DEF setupBypassTable, Machines
    <2> QED
      BY <2>1, <2>2
  <1>4. Fails(z, x) \/ (OnlyKernel(z, x) /\ z.k = k)
    <2> HIDE DEF k
    <2> QED
      BY <1>2, <1>3, KernelSet, FailSet
  <1> QED
    BY <1>4

LEMMA ReplaceCaptureDefaultDoes ==
  ASSUME NEW x, x \in Machines
  PROVE  LET z == replaceCaptureDefault(x)
         IN  \/ z = x /\ phase # "starting"
             \/ Fails(z, x) /\ phase = "starting"
             \/ OnlyKernel(z, x) /\ z.k = [x.k EXCEPT !.ctab = z.k.ctab] /\ x.k.dev
  <1> DEFINE z == replaceCaptureDefault(x)
             k == [x.k EXCEPT !.ctab = [src |-> x.m.src]]
  <1>1. x.k \in Kernels /\ x.m.src \in Addresses \cup {None}
    BY MachineFields, ManagerFields
  <1>2. CASE x.k.dev /\ Local(x.m.src)
    <2>1. z = [x EXCEPT !.k = k]
      BY <1>2 DEF replaceCaptureDefault
    <2>2. k \in Kernels /\ k = [x.k EXCEPT !.ctab = k.ctab]
      BY <1>1 DEF Kernels
    <2> HIDE DEF k
    <2>3. OnlyKernel(z, x) /\ z.k = k
      BY <2>1, <2>2, KernelSet
    <2> QED
      BY <1>2, <2>2, <2>3
  <1>3. CASE ~(x.k.dev /\ Local(x.m.src)) /\ phase = "starting"
    <2>1. z = [x EXCEPT !.pc = Steps(<<"fail">>)]
      BY <1>3 DEF replaceCaptureDefault
    <2> QED
      BY <1>3, <2>1, FailSet
  <1>4. CASE ~(x.k.dev /\ Local(x.m.src)) /\ phase # "starting"
    <2>1. z = x
      BY <1>4 DEF replaceCaptureDefault
    <2> QED
      BY <1>4, <2>1
  <1> QED
    BY <1>2, <1>3, <1>4

\* Everything but the address in use and the main table stays.
IntoTun(z, x) ==
  /\ z \in Machines /\ z.pc = x.pc
  /\ z.rp = x.rp /\ z.file = x.file /\ z.k = x.k /\ z.warned = x.warned
  /\ x.k.dev
  /\ z.m = [x.m EXCEPT !.src = z.m.src] /\ z.m.src = (IF Local(x.m.src) THEN x.m.src ELSE None)
  /\ z.main = [x.main EXCEPT ![0] = [dev |-> Dev, src |-> z.m.src, metric |-> 0]]

LEMMA ReplaceDefaultIntoTunDoes ==
  ASSUME NEW x, x \in Machines
  PROVE  LET z == replaceDefaultIntoTun(x) IN z = x \/ IntoTun(z, x)
  <1> DEFINE z == replaceDefaultIntoTun(x)
             a == IF Local(x.m.src) THEN x.m.src ELSE None
             m == [x.m EXCEPT !.src = a]
             t == [x.main EXCEPT ![0] = [dev |-> Dev, src |-> a, metric |-> 0]]
  <1>1. x.m \in Managers /\ x.m.src \in Addresses \cup {None} /\ x.main \in [0..1 -> Routes \cup {None}]
    BY MachineFields, ManagerFields
  <1>2. a \in Addresses \cup {None}
    BY <1>1
  <1>3. CASE ~x.k.dev
    BY <1>3 DEF replaceDefaultIntoTun
  <1>4. CASE x.k.dev
    <2>1. z = [x EXCEPT !.m = m, !.main = t]
      BY <1>4 DEF replaceDefaultIntoTun, Route, Machines
    <2> HIDE DEF a
    <2>2. m \in Managers /\ m.src = a
      BY <1>1, <1>2 DEF Managers
    <2>3. t \in [0..1 -> Routes \cup {None}]
      BY <1>1, <1>2 DEF Routes
    <2>4. z \in Machines /\ z.pc = x.pc /\ z.rp = x.rp /\ z.file = x.file /\ z.k = x.k /\ z.warned = x.warned
          /\ z.m = m /\ z.main = t
      <3> HIDE DEF m, t
      <3> QED
        BY <2>1, <2>2, <2>3 DEF Machines
    <2>5. z.m.src = (IF Local(x.m.src) THEN x.m.src ELSE None)
      BY <2>2, <2>4 DEF a
    <2>6. z.m.src = a
      BY <2>2, <2>4
    <2> QED
      BY <1>4, <2>4, <2>5, <2>6 DEF IntoTun
  <1> QED
    BY <1>3, <1>4

LEMMA LoosenDoes ==
  ASSUME NEW x, x \in Machines, x.m.out \in Uplinks
  PROVE  LET z == loosenRPFilter(x)
         IN  /\ z \in Machines /\ z.pc = x.pc
             /\ z.main = x.main /\ z.file = x.file /\ z.k = x.k /\ z.warned = x.warned
             /\ z.m = [x.m EXCEPT !.rp = x.rp[x.m.out]] /\ z.rp = [x.rp EXCEPT ![x.m.out] = "loose"]
  <1> DEFINE z == loosenRPFilter(x)
             m == [x.m EXCEPT !.rp = x.rp[x.m.out]]
             r == [x.rp EXCEPT ![x.m.out] = "loose"]
  <1>1. x.m \in Managers /\ x.rp \in [Uplinks -> {"admin", "loose"}]
    BY MachineFields
  <1>2. m \in Managers
    BY <1>1 DEF Managers
  <1>3. r \in [Uplinks -> {"admin", "loose"}]
    BY <1>1
  <1>4. z = [x EXCEPT !.m = m, !.rp = r]
    BY <1>1 DEF loosenRPFilter, Machines
  <1>5. z \in Machines /\ z.pc = x.pc /\ z.main = x.main /\ z.file = x.file /\ z.k = x.k /\ z.warned = x.warned
        /\ z.m = m /\ z.rp = r
    <2> HIDE DEF m, r
    <2> QED
      BY <1>2, <1>3, <1>4 DEF Machines
  <1> QED
    BY <1>5

OnlyFilter(z, x) ==
  /\ z \in Machines /\ z.pc = x.pc
  /\ z.main = x.main /\ z.file = x.file /\ z.k = x.k /\ z.m = x.m /\ z.warned = x.warned

LEMMA FilterSet ==
  ASSUME NEW x, x \in Machines, NEW r \in [Uplinks -> {"admin", "loose"}]
  PROVE  OnlyFilter([x EXCEPT !.rp = r], x) /\ [x EXCEPT !.rp = r].rp = r
  BY DEF Machines, OnlyFilter

LEMMA RestoreRPDoes ==
  ASSUME NEW x, x \in Machines
  PROVE  LET z == restoreRPFilter(x)
         IN  \/ z = x /\ x.m.rp = None
             \/ OnlyFilter(z, x) /\ z.rp = [x.rp EXCEPT ![x.m.out] = x.m.rp]
  <1> DEFINE r == [x.rp EXCEPT ![x.m.out] = x.m.rp]
  <1>1. x.m.rp \in {"admin", "loose", None} /\ x.rp \in [Uplinks -> {"admin", "loose"}]
    BY MachineFields, ManagerFields
  <1>2. CASE x.m.rp = None
    BY <1>2 DEF restoreRPFilter
  <1>3. CASE x.m.rp # None
    <2>1. restoreRPFilter(x) = [x EXCEPT !.rp = r]
      BY <1>3 DEF restoreRPFilter
    <2>2. r \in [Uplinks -> {"admin", "loose"}]
      BY <1>1, <1>3
    <2>3. OnlyFilter(restoreRPFilter(x), x) /\ restoreRPFilter(x).rp = r
      <3> HIDE DEF r
      <3> QED
        BY <2>1, <2>2, FilterSet
    <2> QED
      BY <2>3
  <1> QED
    BY <1>2, <1>3

LEMMA RestoreRPFromStateDoes ==
  ASSUME NEW x, x \in Machines, x.file \in Files
  PROVE  OnlyFilter(RestoreRPFromState(x), x)
  <1> DEFINE r == [x.rp EXCEPT ![x.file.out] = x.file.rp]
  <1>1. x.file.rp \in {"admin", "loose", None} /\ x.rp \in [Uplinks -> {"admin", "loose"}]
    BY MachineFields DEF Files
  <1>2. CASE x.file.rp = None
    BY <1>2 DEF RestoreRPFromState, OnlyFilter
  <1>3. CASE x.file.rp # None
    <2>1. RestoreRPFromState(x) = [x EXCEPT !.rp = r]
      BY <1>3 DEF RestoreRPFromState
    <2>2. r \in [Uplinks -> {"admin", "loose"}]
      BY <1>1, <1>3
    <2> HIDE DEF r
    <2> QED
      BY <2>1, <2>2, FilterSet
  <1> QED
    BY <1>2, <1>3

(* Files and routes *)

OnlyFile(z, x) ==
  /\ z \in Machines /\ z.pc = x.pc
  /\ z.main = x.main /\ z.rp = x.rp /\ z.k = x.k /\ z.m = x.m /\ z.warned = x.warned

LEMMA FileCommandsDo ==
  ASSUME NEW x, x \in Machines
  PROVE  /\ OnlyFile(writeStateFileTruncates(x), x) /\ writeStateFileTruncates(x).file = Torn
         /\ OnlyFile(removeStateFile(x), x) /\ removeStateFile(x).file = None
         /\ OnlyFile(saveState(x), x) /\ saveState(x).file \in Files
         /\ saveState(x).file.cap = x.m.cap /\ saveState(x).file.saved = x.m.saved
  <1> DEFINE f == [cap |-> x.m.cap, saved |-> x.m.saved, out |-> x.m.out, rp |-> x.m.rp]
  <1>1. OnlyFile(writeStateFileTruncates(x), x) /\ writeStateFileTruncates(x).file = Torn
    BY DEF writeStateFileTruncates, OnlyFile, Machines
  <1>2. OnlyFile(removeStateFile(x), x) /\ removeStateFile(x).file = None
    BY DEF removeStateFile, OnlyFile, Machines
  <1>3. f \in Files /\ f.cap = x.m.cap /\ f.saved = x.m.saved
    BY MachineFields, ManagerFields DEF Files
  <1>4. saveState(x) = [x EXCEPT !.file = f]
    BY DEF saveState
  <1>5. OnlyFile(saveState(x), x) /\ saveState(x).file = f
    <2> HIDE DEF f
    <2> QED
      BY <1>3, <1>4 DEF OnlyFile, Machines
  <1> QED
    BY <1>1, <1>2, <1>3, <1>5

OnlyRoutes(z, x) ==
  /\ z \in Machines /\ z.pc = x.pc
  /\ z.rp = x.rp /\ z.k = x.k /\ z.m = x.m /\ z.file = x.file

LEMMA ReplaceDefaultDoes ==
  ASSUME SettingsOK, NEW x, x \in Machines, NEW r \in UpRoutes
  PROVE  LET z == ReplaceDefault(x, r)
         IN  /\ OnlyRoutes(z, x) /\ (x.warned => z.warned)
             /\ \/ z.main = x.main /\ z.warned
                \/ z.main = [x.main EXCEPT ![r.metric] = r] /\ Routable(z)
  <1> DEFINE t == [x.main EXCEPT ![r.metric] = r]
  <1>1. x.main \in [0..1 -> Routes \cup {None}] /\ r.metric \in 0..1 /\ r \in Routes /\ r.dev \in Uplinks
    BY MachineFields, TunDistinct DEF UpRoutes
  <1>2. t \in [0..1 -> Routes \cup {None}] /\ t[r.metric] = r
    BY <1>1
  <1>3. CASE Local(r.src)
    <2>1. ReplaceDefault(x, r) = [x EXCEPT !.main = t]
      BY <1>3 DEF ReplaceDefault
    <2>2. LET z == ReplaceDefault(x, r) IN OnlyRoutes(z, x) /\ z.warned = x.warned /\ z.main = t
      <3> HIDE DEF t
      <3> QED
        BY <1>2, <2>1 DEF OnlyRoutes, Machines
    <2>3. Routable(ReplaceDefault(x, r))
      BY <1>1, <1>2, <2>2, TunDistinct DEF Routable
    <2> QED
      BY <2>2, <2>3
  <1>4. CASE ~Local(r.src)
    <2>1. ReplaceDefault(x, r) = [x EXCEPT !.warned = TRUE]
      BY <1>4 DEF ReplaceDefault
    <2> QED
      BY <2>1 DEF OnlyRoutes, Machines
  <1> QED
    BY <1>3, <1>4

Hijacked(x) == \E i \in 0..1 : x.main[i] # None /\ x.main[i].dev = Dev

LEMMA DeviceGoneDoes ==
  ASSUME NEW x, x \in Machines
  PROVE  LET z == DeviceGone(x)
         IN  /\ z \in Machines /\ z.pc = x.pc
             /\ z.rp = x.rp /\ z.m = x.m /\ z.file = x.file /\ z.warned = x.warned
             /\ z.k = [x.k EXCEPT !.dev = FALSE, !.ctab = None]
             /\ \A i \in 0..1 : z.main[i] \in {x.main[i], None}
             /\ ~Hijacked(z) /\ (Routable(x) => Routable(z))
  <1> DEFINE z == DeviceGone(x)
             k == [x.k EXCEPT !.dev = FALSE, !.ctab = None]
             t == [i \in 0..1 |-> IF x.main[i] # None /\ x.main[i].dev = Dev THEN None ELSE x.main[i]]
  <1>1. x.k \in Kernels /\ x.main \in [0..1 -> Routes \cup {None}]
    BY MachineFields
  <1>2. k \in Kernels
    BY <1>1 DEF Kernels
  <1>3. t \in [0..1 -> Routes \cup {None}]
    BY <1>1
  <1>4. z = [x EXCEPT !.k = k, !.main = t]
    BY DEF DeviceGone, Machines
  <1>5. z \in Machines /\ z.pc = x.pc /\ z.rp = x.rp /\ z.m = x.m /\ z.file = x.file /\ z.warned = x.warned
        /\ z.k = k /\ z.main = t
    <2> HIDE DEF k, t
    <2> QED
      BY <1>2, <1>3, <1>4 DEF Machines
  <1>6. \A i \in 0..1 : z.main[i] = IF x.main[i] # None /\ x.main[i].dev = Dev THEN None ELSE x.main[i]
    BY <1>5
  <1> HIDE DEF z, k, t
  <1>7. ~Hijacked(z) /\ (Routable(x) => Routable(z)) /\ \A i \in 0..1 : z.main[i] \in {x.main[i], None}
    BY <1>6 DEF Hijacked, Routable
  <1> QED
    BY <1>5, <1>7 DEF z, k

LEMMA RestoreFromStateDoes ==
  ASSUME SettingsOK, NEW x, x \in Machines, x.file \in Files
  PROVE  LET z == RestoreFromState(x)
         IN  /\ OnlyRoutes(z, x) /\ (x.warned => z.warned) /\ (Routable(x) => Routable(z) \/ z.warned)
             /\ (x.file.cap = "default" /\ x.file.saved # None) => Routable(z) \/ z.warned
             /\ Hijacked(z) => Hijacked(x)
  <1> DEFINE z == RestoreFromState(x)
  <1>1. x.file.saved \in UpRoutes \cup {None} /\ x.main \in [0..1 -> Routes \cup {None}]
    BY MachineFields DEF Files
  <1>2. CASE x.file.cap = "default" /\ x.file.saved # None /\ (FirstDefault(x) = None \/ Hijacked(x))
    <2> DEFINE r == x.file.saved
    <2>1. z = ReplaceDefault(x, r)
      BY <1>2 DEF RestoreFromState, Hijacked
    <2>2. r \in UpRoutes
      BY <1>1, <1>2
    <2>3. /\ OnlyRoutes(z, x) /\ (x.warned => z.warned)
          /\ \/ z.main = x.main /\ z.warned
             \/ z.main = [x.main EXCEPT ![r.metric] = r] /\ Routable(z)
      BY <2>1, <2>2, ReplaceDefaultDoes
    <2>4. r.dev # Dev /\ r.metric \in 0..1
      BY <2>2, TunDistinct DEF UpRoutes
    <2>5. Hijacked(z) => Hijacked(x)
      <3>1. ASSUME NEW i \in 0..1, z.main[i] # None, z.main[i].dev = Dev PROVE Hijacked(x)
        <4>1. z.main[i] = x.main[i]
          BY <1>1, <2>3, <2>4, <3>1
        <4> QED
          BY <3>1, <4>1 DEF Hijacked
      <3> QED
        BY <3>1 DEF Hijacked
    <2> QED
      BY <2>3, <2>5
  <1>3. CASE ~(x.file.cap = "default" /\ x.file.saved # None /\ (FirstDefault(x) = None \/ Hijacked(x)))
    <2>1. z = x
      BY <1>3 DEF RestoreFromState, Hijacked
    <2>2. FirstDefault(x) # None /\ ~Hijacked(x) => Routable(x)
      BY DEF FirstDefault, Hijacked, Routable
    <2> QED
      BY <1>3, <2>1, <2>2 DEF OnlyRoutes
  <1> QED
    BY <1>2, <1>3

(* The manager's fields *)

Opened(x) == [x EXCEPT !.k.dev = TRUE, !.m = NoManager]

InMode(x, c) == [x EXCEPT !.m.cap = c]

FromSource(x, a) == [x EXCEPT !.m.src = a]

LEMMA OpenDoes ==
  ASSUME NEW x, x \in Machines
  PROVE  LET z == Opened(x)
         IN  OnlyBoth(z, x) /\ z.k = [x.k EXCEPT !.dev = TRUE] /\ z.m = NoManager /\ z.m \in Managers
  <1> DEFINE k == [x.k EXCEPT !.dev = TRUE]
             z == Opened(x)
  <1>1. x.k \in Kernels
    BY MachineFields
  <1>2. k \in Kernels
    BY <1>1 DEF Kernels
  <1>3. NoManager \in Managers
    BY DEF NoManager, Managers
  <1>4. z = [x EXCEPT !.k = k, !.m = NoManager]
    BY DEF Opened
  <1>5. OnlyBoth(z, x) /\ z.k = k /\ z.m = NoManager
    <2> HIDE DEF k, z
    <2> QED
      BY <1>2, <1>3, <1>4 DEF Machines, OnlyBoth
  <1> QED
    BY <1>3, <1>5

LEMMA ModeDoes ==
  ASSUME NEW x, x \in Machines, NEW c \in {"ports", "default"}
  PROVE  LET z == InMode(x, c) IN OnlyManager(z, x) /\ z.m = [x.m EXCEPT !.cap = c]
  <1> DEFINE m == [x.m EXCEPT !.cap = c]
  <1>1. x.m \in Managers
    BY MachineFields
  <1>2. m \in Managers
    BY <1>1 DEF Managers
  <1>3. InMode(x, c) = [x EXCEPT !.m = m]
    BY DEF InMode
  <1>4. OnlyManager([x EXCEPT !.m = m], x) /\ [x EXCEPT !.m = m].m = m
    <2> HIDE DEF m
    <2> QED
      BY <1>2, ManagerSet
  <1> QED
    BY <1>3, <1>4

LEMMA SourceDoes ==
  ASSUME NEW x, x \in Machines, NEW a \in Addresses \cup {None}
  PROVE  LET z == FromSource(x, a) IN OnlyManager(z, x) /\ z.m = [x.m EXCEPT !.src = a]
  <1> DEFINE m == [x.m EXCEPT !.src = a]
  <1>1. x.m \in Managers
    BY MachineFields
  <1>2. m \in Managers
    BY <1>1 DEF Managers
  <1>3. FromSource(x, a) = [x EXCEPT !.m = m]
    BY DEF FromSource
  <1>4. OnlyManager([x EXCEPT !.m = m], x) /\ [x EXCEPT !.m = m].m = m
    <2> HIDE DEF m
    <2> QED
      BY <1>2, ManagerSet
  <1> QED
    BY <1>3, <1>4

Repointed(z, x, e, r) ==
  /\ z.m = [x.m EXCEPT !.out = e.dev, !.src = e.src, !.rp = None, !.saved = r]
  /\ r = x.m.saved \/ r = [dev |-> e.dev, src |-> e.src, metric |-> 0]

LEMMA RepointDoes ==
  ASSUME NEW x, x \in Machines, NEW e, e.dev \in Uplinks, e.src \in Addresses \cup {None}
  PROVE  LET z == repoint(x, e)
         IN  /\ OnlyManager(z, x)
             /\ \E r : Repointed(z, x, e, r)
  <1> DEFINE r == IF x.m.cap = "default" THEN [dev |-> e.dev, src |-> e.src, metric |-> 0] ELSE x.m.saved
             m == [x.m EXCEPT !.out = e.dev, !.src = e.src, !.rp = None, !.saved = r]
             z == repoint(x, e)
  <1>1. x.m \in Managers
    BY MachineFields
  <1>2. [dev |-> e.dev, src |-> e.src, metric |-> 0] \in UpRoutes
    BY DEF UpRoutes
  <1>3. r \in UpRoutes \cup {None}
    BY <1>1, <1>2, ManagerFields
  <1>4. z = [x EXCEPT !.m = m]
    BY DEF repoint, Route, Machines
  <1>5. r = x.m.saved \/ r = [dev |-> e.dev, src |-> e.src, metric |-> 0]
    OBVIOUS
  <1> HIDE DEF r
  <1>6. m \in Managers /\ m.saved = r
    BY <1>1, <1>3 DEF Managers
  <1>7. OnlyManager(z, x) /\ z.m = m
    <2> HIDE DEF m, z
    <2> QED
      BY <1>4, <1>6, ManagerSet
  <1>8. z.m = [x.m EXCEPT !.out = e.dev, !.src = e.src, !.rp = None, !.saved = r]
    BY <1>7
  <1> HIDE DEF z
  <1> QED
    BY <1>5, <1>7, <1>8 DEF z, Repointed

\* The capture of ports touches its own table, chains and rules.
PortsOnly(z, x) ==
  /\ OnlyBoth(z, x)
  /\ z.m = [x.m EXCEPT !.excl = z.m.excl]
  /\ z.k.dev = x.k.dev /\ z.k.fwd = x.k.fwd /\ z.k.snat = x.k.snat /\ z.k.notrack = x.k.notrack
  /\ z.k.brule = x.k.brule /\ z.k.btab = x.k.btab

LEMMA PortsOnlyTwice ==
  ASSUME NEW x, NEW y, NEW z, x \in Machines, PortsOnly(y, x), PortsOnly(z, y)
  PROVE  PortsOnly(z, x)
  <1>1. x.m \in Managers /\ y.m \in Managers /\ z.m \in Managers
    BY MachineFields DEF PortsOnly, OnlyBoth
  <1>2. z.m = [x.m EXCEPT !.excl = z.m.excl]
    BY <1>1 DEF PortsOnly, Managers
  <1> QED
    BY <1>2 DEF PortsOnly, OnlyBoth

LEMMA PortsOnlyKernel ==
  ASSUME NEW x, x \in Machines, NEW z, OnlyKernel(z, x),
         z.k.dev = x.k.dev, z.k.fwd = x.k.fwd, z.k.snat = x.k.snat, z.k.notrack = x.k.notrack,
         z.k.brule = x.k.brule, z.k.btab = x.k.btab
  PROVE  PortsOnly(z, x)
  <1>1. x.m \in Managers
    BY MachineFields
  <1>2. x.m = [x.m EXCEPT !.excl = x.m.excl]
    BY <1>1 DEF Managers
  <1> QED
    BY <1>2 DEF PortsOnly, OnlyKernel, OnlyBoth

LEMMA EnsurePortCaptureDoes ==
  ASSUME NEW x, x \in Machines, phase # "starting", sets \in 0..1
  PROVE  PortsOnly(ensurePortCapture(x), x)
  <1> DEFINE a == setupCaptureTable(x)
             b == ensureCaptureChain(a)
             c == ensureCaptureJumps(b)
             d == IF c.k.ctab = None THEN replaceCaptureDefault(c) ELSE c
             e == IF d.m.excl # sets THEN rebuildCaptureChain(d) ELSE d
  <1>1. ensurePortCapture(x) = e
    BY DEF ensurePortCapture, setupCaptureTable
  <1>2. PortsOnly(a, x) /\ a \in Machines
    <2>1. OnlyKernel(a, x) /\ a.k = [x.k EXCEPT !.crule = TRUE] /\ x.k \in Kernels
      BY SetupCaptureTableDoes, MachineFields
    <2> HIDE DEF a
    <2>2. a.k.dev = x.k.dev /\ a.k.fwd = x.k.fwd /\ a.k.snat = x.k.snat /\ a.k.notrack = x.k.notrack
          /\ a.k.brule = x.k.brule /\ a.k.btab = x.k.btab
      BY <2>1 DEF Kernels
    <2> QED
      BY <2>1, <2>2, PortsOnlyKernel DEF OnlyKernel
  <1> HIDE DEF a
  <1>3. PortsOnly(b, a) /\ b \in Machines
    <2>1. OnlyKernel(b, a) /\ b.k = [a.k EXCEPT !.chain = IF a.k.chain = None THEN Empty ELSE a.k.chain]
          /\ a.k \in Kernels
      BY <1>2, EnsureCaptureChainDoes, MachineFields
    <2> HIDE DEF b
    <2>2. b.k.dev = a.k.dev /\ b.k.fwd = a.k.fwd /\ b.k.snat = a.k.snat /\ b.k.notrack = a.k.notrack
          /\ b.k.brule = a.k.brule /\ b.k.btab = a.k.btab
      BY <2>1 DEF Kernels
    <2> QED
      BY <1>2, <2>1, <2>2, PortsOnlyKernel DEF OnlyKernel
  <1> HIDE DEF b
  <1>4. PortsOnly(c, b) /\ c \in Machines
    <2>1. OnlyKernel(c, b) /\ c.k = [b.k EXCEPT !.gate = c.k.gate, !.jumps = c.k.jumps] /\ b.k \in Kernels
      BY <1>3, EnsureCaptureJumpsDoes, MachineFields
    <2> HIDE DEF c
    <2>2. c.k.dev = b.k.dev /\ c.k.fwd = b.k.fwd /\ c.k.snat = b.k.snat /\ c.k.notrack = b.k.notrack
          /\ c.k.brule = b.k.brule /\ c.k.btab = b.k.btab
      BY <2>1 DEF Kernels
    <2> QED
      BY <1>3, <2>1, <2>2, PortsOnlyKernel DEF OnlyKernel
  <1> HIDE DEF c
  <1>5. PortsOnly(d, c) /\ d \in Machines
    <2>1. d = c \/ (OnlyKernel(d, c) /\ d.k = [c.k EXCEPT !.ctab = d.k.ctab])
      BY <1>4, ReplaceCaptureDefaultDoes
    <2>2. c.k \in Kernels
      BY <1>4, MachineFields
    <2> HIDE DEF d
    <2>3. (d = c \/ OnlyKernel(d, c)) /\ d.k.dev = c.k.dev /\ d.k.fwd = c.k.fwd /\ d.k.snat = c.k.snat
          /\ d.k.notrack = c.k.notrack /\ d.k.brule = c.k.brule /\ d.k.btab = c.k.btab
      BY <2>1, <2>2 DEF Kernels
    <2>4. OnlyKernel(d, c)
      BY <1>4, <2>3 DEF OnlyKernel
    <2> QED
      BY <1>4, <2>3, <2>4, PortsOnlyKernel DEF OnlyKernel
  <1> HIDE DEF d
  <1>6. PortsOnly(e, d)
    <2>1. CASE d.m.excl # sets
      <3>1. OnlyBoth(e, d) /\ e.k = [d.k EXCEPT !.chain = sets] /\ e.m = [d.m EXCEPT !.excl = sets]
            /\ d.k \in Kernels /\ d.m \in Managers
        BY <1>5, <2>1, RebuildCaptureChainDoes, MachineFields
      <3> HIDE DEF e
      <3>2. e.k.dev = d.k.dev /\ e.k.fwd = d.k.fwd /\ e.k.snat = d.k.snat /\ e.k.notrack = d.k.notrack
            /\ e.k.brule = d.k.brule /\ e.k.btab = d.k.btab
        BY <3>1 DEF Kernels
      <3>3. e.m = [d.m EXCEPT !.excl = e.m.excl]
        BY <3>1 DEF Managers
      <3> QED
        BY <3>1, <3>2, <3>3 DEF PortsOnly
    <2>2. CASE d.m.excl = sets
      <3>1. e = d
        BY <2>2
      <3>2. OnlyKernel(d, d)
        BY <1>5 DEF OnlyKernel
      <3> QED
        BY <1>5, <3>1, <3>2, PortsOnlyKernel
    <2> QED
      BY <2>1, <2>2
  <1> HIDE DEF e
  <1>7. PortsOnly(b, x)
    BY <1>2, <1>3, PortsOnlyTwice
  <1>8. PortsOnly(c, x)
    BY <1>4, <1>7, PortsOnlyTwice
  <1>9. PortsOnly(d, x)
    BY <1>5, <1>8, PortsOnlyTwice
  <1> QED
    BY <1>1, <1>6, <1>9, PortsOnlyTwice

LEMMA EnsureDefaultCaptureDoes ==
  ASSUME NEW x, x \in Machines
  PROVE  LET z == ensureDefaultCapture(x) IN z = x \/ IntoTun(z, x)
  <1>1. ensureDefaultCapture(x) \in {x, replaceDefaultIntoTun(x)}
    BY DEF ensureDefaultCapture
  <1> QED
    BY <1>1, ReplaceDefaultIntoTunDoes

LEMMA EgressIs ==
  ASSUME SettingsOK, NEW x, x \in Machines, addr \in [Uplinks -> Addresses]
  PROVE  LET e == resolveDefaultEgress(x)
         IN  \/ e = None
             \/ /\ e.dev \in Uplinks /\ e.src \in Addresses
                /\ \E i \in 0..1 : x.main[i] # None /\ (e.src = x.main[i].src \/ e.src = addr[e.dev])
  <1> DEFINE ms == {i \in 0..1 : x.main[i] # None /\ x.main[i].dev # Dev}
             e == resolveDefaultEgress(x)
             n == Min(ms)
  <1>1. CASE ms = {}
    BY <1>1 DEF resolveDefaultEgress
  <1>2. CASE ms # {}
    <2>1. n \in ms
      <3>1. PICK i \in ms : TRUE
        BY <1>2
      <3>2. \E j \in ms : \A k \in ms : j <= k
        <4>1. CASE 0 \in ms
          BY <4>1
        <4>2. CASE 0 \notin ms
          BY <3>1, <4>2
        <4> QED
          BY <4>1, <4>2
      <3> QED
        BY <3>2 DEF Min
    <2>2. e = [dev |-> x.main[n].dev, src |-> IF x.main[n].src = None THEN addr[x.main[n].dev] ELSE x.main[n].src]
      BY <1>2 DEF resolveDefaultEgress
    <2>3. n \in 0..1 /\ x.main[n] # None /\ x.main[n].dev # Dev
      BY <2>1
    <2> HIDE DEF e, n, ms
    <2>4. x.main[n] \in Routes
      BY <2>3, MachineFields
    <2>5. x.main[n].dev \in Uplinks /\ x.main[n].src \in Addresses \cup {None}
      BY <2>3, <2>4 DEF Routes
    <2>6. e.dev \in Uplinks /\ e.src \in Addresses /\ (e.src = x.main[n].src \/ e.src = addr[e.dev])
      BY <2>2, <2>5
    <2> QED
      BY <2>3, <2>6 DEF e
  <1> QED
    BY <1>1, <1>2

(* The sequences of commands *)

Does(s) == {s[i].do : i \in DOMAIN s}

LEMMA Joined ==
  ASSUME NEW s \in Seq(Commands), NEW t \in Seq(Commands)
  PROVE  /\ s \o t \in Seq(Commands) /\ Does(s \o t) = Does(s) \cup Does(t)
         /\ \A p : (InOrder(p, s) /\ InOrder(p, t) /\ \A a \in Does(s), b \in Does(t) : ~Excluded(p, a, b))
                     => InOrder(p, s \o t)
  <1> DEFINE z == s \o t
  <1>1. z \in Seq(Commands) /\ Len(s) \in Nat
    OBVIOUS
  <1>2. \A i \in DOMAIN z :
                  \/ i \in DOMAIN s /\ z[i] = s[i]
                  \/ i > Len(s) /\ i - Len(s) \in DOMAIN t /\ z[i] = t[i - Len(s)]
    OBVIOUS
  <1>3. \A i \in DOMAIN s : i \in DOMAIN z /\ z[i] = s[i]
    OBVIOUS
  <1>4. \A i \in DOMAIN t : i + Len(s) \in DOMAIN z /\ z[i + Len(s)] = t[i]
    OBVIOUS
  <1>5. DOMAIN z \subseteq Nat /\ DOMAIN s = 1 .. Len(s)
    OBVIOUS
  <1> HIDE DEF z
  <1>6. Does(z) = Does(s) \cup Does(t)
    <2>1. ASSUME NEW a \in Does(z) PROVE a \in Does(s) \cup Does(t)
      BY <1>2 DEF Does
    <2>2. ASSUME NEW a \in Does(s) \cup Does(t) PROVE a \in Does(z)
      BY <1>3, <1>4 DEF Does
    <2> QED
      BY <2>1, <2>2
  <1>7. ASSUME NEW p, InOrder(p, s), InOrder(p, t), \A a \in Does(s), b \in Does(t) : ~Excluded(p, a, b),
               NEW i \in DOMAIN z, NEW j \in DOMAIN z, i < j
        PROVE  ~Excluded(p, z[i].do, z[j].do)
    <2>1. CASE j \in DOMAIN s /\ z[j] = s[j]
      <3>1. i \in DOMAIN s /\ z[i] = s[i]
        BY <1>1, <1>2, <1>5, <1>7, <2>1
      <3> QED
        BY <1>7, <2>1, <3>1 DEF InOrder
    <2>2. CASE j > Len(s) /\ j - Len(s) \in DOMAIN t /\ z[j] = t[j - Len(s)]
      <3>1. CASE i \in DOMAIN s /\ z[i] = s[i]
        <4>1. z[i].do \in Does(s) /\ z[j].do \in Does(t)
          BY <2>2, <3>1 DEF Does
        <4> QED
          BY <1>7, <4>1
      <3>2. CASE i > Len(s) /\ i - Len(s) \in DOMAIN t /\ z[i] = t[i - Len(s)]
        <4>1. i - Len(s) < j - Len(s)
          BY <1>1, <1>5, <1>7
        <4> QED
          BY <1>7, <2>2, <3>2, <4>1 DEF InOrder
      <3> QED
        BY <1>2, <3>1, <3>2
    <2> QED
      BY <1>2, <2>1, <2>2
  <1>8. ASSUME NEW p, InOrder(p, s), InOrder(p, t), \A a \in Does(s), b \in Does(t) : ~Excluded(p, a, b)
        PROVE  InOrder(p, z)
    BY <1>7, <1>8 DEF InOrder
  <1> QED
    BY <1>1, <1>6, <1>8 DEF z

\* The names of a sequence, and its order.
Named(s, names) == s \in Seq(Commands) /\ Does(s) = names

LEMMA StepsNamed ==
  ASSUME NEW names \in Seq(CommandNames)
  PROVE  /\ Named(Steps(names), {names[i] : i \in DOMAIN names})
         /\ \A p : (\A i, j \in DOMAIN names : i < j => ~Excluded(p, names[i], names[j]))
                     => InOrder(p, Steps(names))
  <1> DEFINE s == Steps(names)
  <1>1. s \in Seq(Commands) /\ Does(s) = {names[i] : i \in DOMAIN names} /\ DOMAIN s = DOMAIN names
    BY StepsAre DEF Does
  <1>2. \A i \in DOMAIN names : s[i].do = names[i]
    <2>1. ASSUME NEW i \in DOMAIN names PROVE s[i].do = names[i]
      <3>1. s[i] = [do |-> names[i], dev |-> None, src |-> None]
        BY StepsAre
      <3> QED
        BY <3>1
    <2> QED
      BY <2>1
  <1> HIDE DEF s
  <1> QED
    BY <1>1, <1>2 DEF Named, InOrder, s

LEMMA StepsJoined ==
  ASSUME NEW a \in Seq(CommandNames), NEW b \in Seq(CommandNames)
  PROVE  Steps(a \o b) = Steps(a) \o Steps(b)
  <1> DEFINE s == Steps(a)
             t == Steps(b)
             z == Steps(a \o b)
  <1>1. s \in Seq(Commands) /\ Len(s) = Len(a) /\ \A i \in DOMAIN a : s[i] = [do |-> a[i], dev |-> None, src |-> None]
    BY StepsAre
  <1>2. t \in Seq(Commands) /\ Len(t) = Len(b) /\ \A i \in DOMAIN b : t[i] = [do |-> b[i], dev |-> None, src |-> None]
    BY StepsAre
  <1>3. a \o b \in Seq(CommandNames) /\ Len(a \o b) = Len(a) + Len(b) /\ Len(a) \in Nat /\ Len(b) \in Nat
    OBVIOUS
  <1>4. z \in Seq(Commands) /\ Len(z) = Len(a) + Len(b)
        /\ \A i \in DOMAIN (a \o b) : z[i] = [do |-> (a \o b)[i], dev |-> None, src |-> None]
    BY <1>3, StepsAre
  <1> HIDE DEF s, t, z
  <1>5. s \o t \in Seq(Commands) /\ Len(s \o t) = Len(a) + Len(b)
    BY <1>1, <1>2
  <1>6. ASSUME NEW i \in 1 .. Len(a) + Len(b) PROVE z[i] = (s \o t)[i]
    <2>1. CASE i <= Len(a)
      <3>1. (a \o b)[i] = a[i] /\ (s \o t)[i] = s[i] /\ i \in DOMAIN a /\ i \in DOMAIN (a \o b)
        BY <1>1, <1>2, <1>3, <2>1
      <3> QED
        BY <1>1, <1>4, <3>1
    <2>2. CASE i > Len(a)
      <3>1. (a \o b)[i] = b[i - Len(a)] /\ (s \o t)[i] = t[i - Len(a)] /\ i - Len(a) \in DOMAIN b
            /\ i \in DOMAIN (a \o b)
        BY <1>1, <1>2, <1>3, <2>2
      <3> QED
        BY <1>2, <1>4, <3>1
    <2>3. i <= Len(a) \/ i > Len(a)
      BY <1>3
    <2> QED
      BY <2>1, <2>2, <2>3
  <1>7. z = s \o t
    BY <1>4, <1>5, <1>6
  <1> QED
    BY <1>7 DEF s, t, z

LEMMA ExcludedIs ==
  ASSUME NEW a, NEW b
  PROVE  /\ \A p \in {"starting", "clearing"} : Excluded(p, a, b) <=> NeverThen(a, b)
         /\ \A p \in {"running", "stopping"} : Excluded(p, a, b) <=> NeverThenInLoop(a, b)
         /\ \A p \in {"tearing", "failing"} : Excluded(p, a, b) <=> NeverThenInTeardown(a, b)
  BY DEF Excluded

LEMMA StartNames ==
  LET n == <<"restore", "open", "setup">>
  IN  /\ n \in Seq(CommandNames) /\ {n[i] : i \in DOMAIN n} = {"restore", "open", "setup"}
      /\ \A i, j \in DOMAIN n : i < j => ~NeverThen(n[i], n[j])
  <1> DEFINE n == <<"restore", "open", "setup">>
  <1>1. n \in Seq(CommandNames) /\ DOMAIN n = 1..3 /\ {n[i] : i \in 1..3} = {"restore", "open", "setup"}
    <2>1. "restore" \in CommandNames /\ "open" \in CommandNames /\ "setup" \in CommandNames
      BY DEF CommandNames, InSetup, InRestore, InLoop, InTeardown
    <2>2. n \in Seq(CommandNames)
      BY <2>1
    <2>3. {n[i] : i \in 1..3} = {"restore", "open", "setup"} /\ DOMAIN n = 1..3
      OBVIOUS
    <2> QED
      BY <2>2, <2>3
  <1>2. n[1] = "restore" /\ n[2] = "open" /\ n[3] = "setup"
    OBVIOUS
  <1> HIDE DEF n
  <1>3. ASSUME NEW i \in 1..3, NEW j \in 1..3, i < j PROVE ~NeverThen(n[i], n[j])
    <2>1. CASE i = 1
      <3>1. j \in {2, 3}
        BY <1>3, <2>1
      <3>2. n[i] = "restore" /\ n[j] \in {"open", "setup"}
        BY <1>2, <2>1, <3>1
      <3> QED
        BY <3>2 DEF NeverThen, Fallible, InRestore
    <2>2. CASE i = 2
      <3>1. j \in {3}
        BY <1>3, <2>2
      <3>2. n[i] = "open" /\ n[j] \in {"setup"}
        BY <1>2, <2>2, <3>1
      <3> QED
        BY <3>2 DEF NeverThen, Fallible, InRestore
    <2> QED
      BY <1>3, <2>1, <2>2
  <1> QED
    BY <1>1, <1>3 DEF n

LEMMA ClearNames ==
  LET n == <<"restore", "stale_chains", "stale_nat", "stale_tables">>
  IN  /\ n \in Seq(CommandNames) /\ {n[i] : i \in DOMAIN n} = {"restore", "stale_chains", "stale_nat", "stale_tables"}
      /\ \A i, j \in DOMAIN n : i < j => ~NeverThen(n[i], n[j])
  <1> DEFINE n == <<"restore", "stale_chains", "stale_nat", "stale_tables">>
  <1>1. n \in Seq(CommandNames) /\ DOMAIN n = 1..4 /\ {n[i] : i \in 1..4} = {"restore", "stale_chains", "stale_nat", "stale_tables"}
    <2>1. "restore" \in CommandNames /\ "stale_chains" \in CommandNames /\ "stale_nat" \in CommandNames /\ "stale_tables" \in CommandNames
      BY DEF CommandNames, InSetup, InRestore, InLoop, InTeardown
    <2>2. n \in Seq(CommandNames)
      BY <2>1
    <2>3. {n[i] : i \in 1..4} = {"restore", "stale_chains", "stale_nat", "stale_tables"} /\ DOMAIN n = 1..4
      OBVIOUS
    <2> QED
      BY <2>2, <2>3
  <1>2. n[1] = "restore" /\ n[2] = "stale_chains" /\ n[3] = "stale_nat" /\ n[4] = "stale_tables"
    OBVIOUS
  <1> HIDE DEF n
  <1>3. ASSUME NEW i \in 1..4, NEW j \in 1..4, i < j PROVE ~NeverThen(n[i], n[j])
    <2>1. CASE i = 1
      <3>1. j \in {2, 3, 4}
        BY <1>3, <2>1
      <3>2. n[i] = "restore" /\ n[j] \in {"stale_chains", "stale_nat", "stale_tables"}
        BY <1>2, <2>1, <3>1
      <3> QED
        BY <3>2 DEF NeverThen, Fallible, InRestore
    <2>2. CASE i = 2
      <3>1. j \in {3, 4}
        BY <1>3, <2>2
      <3>2. n[i] = "stale_chains" /\ n[j] \in {"stale_nat", "stale_tables"}
        BY <1>2, <2>2, <3>1
      <3> QED
        BY <3>2 DEF NeverThen, Fallible, InRestore
    <2>3. CASE i = 3
      <3>1. j \in {4}
        BY <1>3, <2>3
      <3>2. n[i] = "stale_nat" /\ n[j] \in {"stale_tables"}
        BY <1>2, <2>3, <3>1
      <3> QED
        BY <3>2 DEF NeverThen, Fallible, InRestore
    <2> QED
      BY <1>3, <2>1, <2>2, <2>3
  <1> QED
    BY <1>1, <1>3 DEF n

LEMMA UndoNames ==
  LET n == <<"undo_route", "undo_rp", "forget">>
  IN  /\ n \in Seq(CommandNames) /\ {n[i] : i \in DOMAIN n} = {"undo_route", "undo_rp", "forget"}
      /\ \A i, j \in DOMAIN n : i < j => ~NeverThen(n[i], n[j])
  <1> DEFINE n == <<"undo_route", "undo_rp", "forget">>
  <1>1. n \in Seq(CommandNames) /\ DOMAIN n = 1..3 /\ {n[i] : i \in 1..3} = {"undo_route", "undo_rp", "forget"}
    <2>1. "undo_route" \in CommandNames /\ "undo_rp" \in CommandNames /\ "forget" \in CommandNames
      BY DEF CommandNames, InSetup, InRestore, InLoop, InTeardown
    <2>2. n \in Seq(CommandNames)
      BY <2>1
    <2>3. {n[i] : i \in 1..3} = {"undo_route", "undo_rp", "forget"} /\ DOMAIN n = 1..3
      OBVIOUS
    <2> QED
      BY <2>2, <2>3
  <1>2. n[1] = "undo_route" /\ n[2] = "undo_rp" /\ n[3] = "forget"
    OBVIOUS
  <1> HIDE DEF n
  <1>3. ASSUME NEW i \in 1..3, NEW j \in 1..3, i < j PROVE ~NeverThen(n[i], n[j])
    <2>1. CASE i = 1
      <3>1. j \in {2, 3}
        BY <1>3, <2>1
      <3>2. n[i] = "undo_route" /\ n[j] \in {"undo_rp", "forget"}
        BY <1>2, <2>1, <3>1
      <3> QED
        BY <3>2 DEF NeverThen, Fallible, InRestore
    <2>2. CASE i = 2
      <3>1. j \in {3}
        BY <1>3, <2>2
      <3>2. n[i] = "undo_rp" /\ n[j] \in {"forget"}
        BY <1>2, <2>2, <3>1
      <3> QED
        BY <3>2 DEF NeverThen, Fallible, InRestore
    <2> QED
      BY <1>3, <2>1, <2>2
  <1> QED
    BY <1>1, <1>3 DEF n

LEMMA FailNames ==
  LET n == <<"fail">>
  IN  /\ n \in Seq(CommandNames) /\ {n[i] : i \in DOMAIN n} = {"fail"}
      /\ \A i, j \in DOMAIN n : i < j => ~NeverThen(n[i], n[j])
  <1>1. <<"fail">> \in Seq(CommandNames)
    BY DEF CommandNames, InSetup, InRestore, InLoop, InTeardown
  <1> QED
    BY <1>1

LEMMA NatNames ==
  LET n == <<"loosen", "forward", "snat", "notrack", "client_notrack">>
  IN  /\ n \in Seq(CommandNames) /\ {n[i] : i \in DOMAIN n} = {"loosen", "forward", "snat", "notrack", "client_notrack"}
      /\ \A i, j \in DOMAIN n : i < j => ~NeverThen(n[i], n[j])
  <1> DEFINE n == <<"loosen", "forward", "snat", "notrack", "client_notrack">>
  <1>1. n \in Seq(CommandNames) /\ DOMAIN n = 1..5 /\ {n[i] : i \in 1..5} = {"loosen", "forward", "snat", "notrack", "client_notrack"}
    <2>1. "loosen" \in CommandNames /\ "forward" \in CommandNames /\ "snat" \in CommandNames /\ "notrack" \in CommandNames /\ "client_notrack" \in CommandNames
      BY DEF CommandNames, InSetup, InRestore, InLoop, InTeardown
    <2>2. n \in Seq(CommandNames)
      BY <2>1
    <2>3. {n[i] : i \in 1..5} = {"loosen", "forward", "snat", "notrack", "client_notrack"} /\ DOMAIN n = 1..5
      OBVIOUS
    <2> QED
      BY <2>2, <2>3
  <1>2. n[1] = "loosen" /\ n[2] = "forward" /\ n[3] = "snat" /\ n[4] = "notrack" /\ n[5] = "client_notrack"
    OBVIOUS
  <1> HIDE DEF n
  <1>3. ASSUME NEW i \in 1..5, NEW j \in 1..5, i < j PROVE ~NeverThen(n[i], n[j])
    <2>1. CASE i = 1
      <3>1. j \in {2, 3, 4, 5}
        BY <1>3, <2>1
      <3>2. n[i] = "loosen" /\ n[j] \in {"forward", "snat", "notrack", "client_notrack"}
        BY <1>2, <2>1, <3>1
      <3> QED
        BY <3>2 DEF NeverThen, Fallible, InRestore
    <2>2. CASE i = 2
      <3>1. j \in {3, 4, 5}
        BY <1>3, <2>2
      <3>2. n[i] = "forward" /\ n[j] \in {"snat", "notrack", "client_notrack"}
        BY <1>2, <2>2, <3>1
      <3> QED
        BY <3>2 DEF NeverThen, Fallible, InRestore
    <2>3. CASE i = 3
      <3>1. j \in {4, 5}
        BY <1>3, <2>3
      <3>2. n[i] = "snat" /\ n[j] \in {"notrack", "client_notrack"}
        BY <1>2, <2>3, <3>1
      <3> QED
        BY <3>2 DEF NeverThen, Fallible, InRestore
    <2>4. CASE i = 4
      <3>1. j \in {5}
        BY <1>3, <2>4
      <3>2. n[i] = "notrack" /\ n[j] \in {"client_notrack"}
        BY <1>2, <2>4, <3>1
      <3> QED
        BY <3>2 DEF NeverThen, Fallible, InRestore
    <2> QED
      BY <1>3, <2>1, <2>2, <2>3, <2>4
  <1> QED
    BY <1>1, <1>3 DEF n

LEMMA BypassNames ==
  LET n == <<"mode", "tear", "save", "bypass", "btab">>
  IN  /\ n \in Seq(CommandNames) /\ {n[i] : i \in DOMAIN n} = {"mode", "tear", "save", "bypass", "btab"}
      /\ \A i, j \in DOMAIN n : i < j => ~NeverThen(n[i], n[j])
  <1> DEFINE n == <<"mode", "tear", "save", "bypass", "btab">>
  <1>1. n \in Seq(CommandNames) /\ DOMAIN n = 1..5 /\ {n[i] : i \in 1..5} = {"mode", "tear", "save", "bypass", "btab"}
    <2>1. "mode" \in CommandNames /\ "tear" \in CommandNames /\ "save" \in CommandNames /\ "bypass" \in CommandNames /\ "btab" \in CommandNames
      BY DEF CommandNames, InSetup, InRestore, InLoop, InTeardown
    <2>2. n \in Seq(CommandNames)
      BY <2>1
    <2>3. {n[i] : i \in 1..5} = {"mode", "tear", "save", "bypass", "btab"} /\ DOMAIN n = 1..5
      OBVIOUS
    <2> QED
      BY <2>2, <2>3
  <1>2. n[1] = "mode" /\ n[2] = "tear" /\ n[3] = "save" /\ n[4] = "bypass" /\ n[5] = "btab"
    OBVIOUS
  <1> HIDE DEF n
  <1>3. ASSUME NEW i \in 1..5, NEW j \in 1..5, i < j PROVE ~NeverThen(n[i], n[j])
    <2>1. CASE i = 1
      <3>1. j \in {2, 3, 4, 5}
        BY <1>3, <2>1
      <3>2. n[i] = "mode" /\ n[j] \in {"tear", "save", "bypass", "btab"}
        BY <1>2, <2>1, <3>1
      <3> QED
        BY <3>2 DEF NeverThen, Fallible, InRestore
    <2>2. CASE i = 2
      <3>1. j \in {3, 4, 5}
        BY <1>3, <2>2
      <3>2. n[i] = "tear" /\ n[j] \in {"save", "bypass", "btab"}
        BY <1>2, <2>2, <3>1
      <3> QED
        BY <3>2 DEF NeverThen, Fallible, InRestore
    <2>3. CASE i = 3
      <3>1. j \in {4, 5}
        BY <1>3, <2>3
      <3>2. n[i] = "save" /\ n[j] \in {"bypass", "btab"}
        BY <1>2, <2>3, <3>1
      <3> QED
        BY <3>2 DEF NeverThen, Fallible, InRestore
    <2>4. CASE i = 4
      <3>1. j \in {5}
        BY <1>3, <2>4
      <3>2. n[i] = "bypass" /\ n[j] \in {"btab"}
        BY <1>2, <2>4, <3>1
      <3> QED
        BY <3>2 DEF NeverThen, Fallible, InRestore
    <2> QED
      BY <1>3, <2>1, <2>2, <2>3, <2>4
  <1> QED
    BY <1>1, <1>3 DEF n

LEMMA PortNames ==
  LET n == <<"crule", "ctab", "chain", "fill", "jumps", "captured">>
  IN  /\ n \in Seq(CommandNames) /\ {n[i] : i \in DOMAIN n} = {"crule", "ctab", "chain", "fill", "jumps", "captured"}
      /\ \A i, j \in DOMAIN n : i < j => ~NeverThen(n[i], n[j])
  <1> DEFINE n == <<"crule", "ctab", "chain", "fill", "jumps", "captured">>
  <1>1. n \in Seq(CommandNames) /\ DOMAIN n = 1..6 /\ {n[i] : i \in 1..6} = {"crule", "ctab", "chain", "fill", "jumps", "captured"}
    <2>1. "crule" \in CommandNames /\ "ctab" \in CommandNames /\ "chain" \in CommandNames /\ "fill" \in CommandNames /\ "jumps" \in CommandNames /\ "captured" \in CommandNames
      BY DEF CommandNames, InSetup, InRestore, InLoop, InTeardown
    <2>2. n \in Seq(CommandNames)
      BY <2>1
    <2>3. {n[i] : i \in 1..6} = {"crule", "ctab", "chain", "fill", "jumps", "captured"} /\ DOMAIN n = 1..6
      OBVIOUS
    <2> QED
      BY <2>2, <2>3
  <1>2. n[1] = "crule" /\ n[2] = "ctab" /\ n[3] = "chain" /\ n[4] = "fill" /\ n[5] = "jumps" /\ n[6] = "captured"
    OBVIOUS
  <1> HIDE DEF n
  <1>3. ASSUME NEW i \in 1..6, NEW j \in 1..6, i < j PROVE ~NeverThen(n[i], n[j])
    <2>1. CASE i = 1
      <3>1. j \in {2, 3, 4, 5, 6}
        BY <1>3, <2>1
      <3>2. n[i] = "crule" /\ n[j] \in {"ctab", "chain", "fill", "jumps", "captured"}
        BY <1>2, <2>1, <3>1
      <3> QED
        BY <3>2 DEF NeverThen, Fallible, InRestore
    <2>2. CASE i = 2
      <3>1. j \in {3, 4, 5, 6}
        BY <1>3, <2>2
      <3>2. n[i] = "ctab" /\ n[j] \in {"chain", "fill", "jumps", "captured"}
        BY <1>2, <2>2, <3>1
      <3> QED
        BY <3>2 DEF NeverThen, Fallible, InRestore
    <2>3. CASE i = 3
      <3>1. j \in {4, 5, 6}
        BY <1>3, <2>3
      <3>2. n[i] = "chain" /\ n[j] \in {"fill", "jumps", "captured"}
        BY <1>2, <2>3, <3>1
      <3> QED
        BY <3>2 DEF NeverThen, Fallible, InRestore
    <2>4. CASE i = 4
      <3>1. j \in {5, 6}
        BY <1>3, <2>4
      <3>2. n[i] = "fill" /\ n[j] \in {"jumps", "captured"}
        BY <1>2, <2>4, <3>1
      <3> QED
        BY <3>2 DEF NeverThen, Fallible, InRestore
    <2>5. CASE i = 5
      <3>1. j \in {6}
        BY <1>3, <2>5
      <3>2. n[i] = "jumps" /\ n[j] \in {"captured"}
        BY <1>2, <2>5, <3>1
      <3> QED
        BY <3>2 DEF NeverThen, Fallible, InRestore
    <2> QED
      BY <1>3, <2>1, <2>2, <2>3, <2>4, <2>5
  <1> QED
    BY <1>1, <1>3 DEF n

LEMMA IntoTunNames ==
  LET n == <<"into_tun">>
  IN  /\ n \in Seq(CommandNames) /\ {n[i] : i \in DOMAIN n} = {"into_tun"}
      /\ \A i, j \in DOMAIN n : i < j => ~NeverThen(n[i], n[j]) /\ ~NeverThenInLoop(n[i], n[j])
  <1>1. <<"into_tun">> \in Seq(CommandNames)
    BY DEF CommandNames, InSetup, InRestore, InLoop, InTeardown
  <1> QED
    BY <1>1

LEMMA RefreshNames ==
  LET n == <<"refresh", "resource">>
  IN  /\ n \in Seq(CommandNames) /\ {n[i] : i \in DOMAIN n} = {"refresh", "resource"}
      /\ \A i, j \in DOMAIN n : i < j => ~NeverThenInLoop(n[i], n[j])
  <1> DEFINE n == <<"refresh", "resource">>
  <1>1. n \in Seq(CommandNames) /\ DOMAIN n = 1..2 /\ {n[i] : i \in 1..2} = {"refresh", "resource"}
    <2>1. "refresh" \in CommandNames /\ "resource" \in CommandNames
      BY DEF CommandNames, InSetup, InRestore, InLoop, InTeardown
    <2>2. n \in Seq(CommandNames)
      BY <2>1
    <2>3. {n[i] : i \in 1..2} = {"refresh", "resource"} /\ DOMAIN n = 1..2
      OBVIOUS
    <2> QED
      BY <2>2, <2>3
  <1>2. n[1] = "refresh" /\ n[2] = "resource"
    OBVIOUS
  <1> HIDE DEF n
  <1>3. ASSUME NEW i \in 1..2, NEW j \in 1..2, i < j PROVE ~NeverThenInLoop(n[i], n[j])
    <2>1. CASE i = 1
      <3>1. j \in {2}
        BY <1>3, <2>1
      <3>2. n[i] = "refresh" /\ n[j] \in {"resource"}
        BY <1>2, <2>1, <3>1
      <3> QED
        BY <3>2 DEF NeverThenInLoop, AtEnd
    <2> QED
      BY <1>3, <2>1
  <1> QED
    BY <1>1, <1>3 DEF n

LEMMA RenatNames ==
  LET n == <<"forward", "snat", "renotrack">>
  IN  /\ n \in Seq(CommandNames) /\ {n[i] : i \in DOMAIN n} = {"forward", "snat", "renotrack"}
      /\ \A i, j \in DOMAIN n : i < j => ~NeverThenInLoop(n[i], n[j])
  <1> DEFINE n == <<"forward", "snat", "renotrack">>
  <1>1. n \in Seq(CommandNames) /\ DOMAIN n = 1..3 /\ {n[i] : i \in 1..3} = {"forward", "snat", "renotrack"}
    <2>1. "forward" \in CommandNames /\ "snat" \in CommandNames /\ "renotrack" \in CommandNames
      BY DEF CommandNames, InSetup, InRestore, InLoop, InTeardown
    <2>2. n \in Seq(CommandNames)
      BY <2>1
    <2>3. {n[i] : i \in 1..3} = {"forward", "snat", "renotrack"} /\ DOMAIN n = 1..3
      OBVIOUS
    <2> QED
      BY <2>2, <2>3
  <1>2. n[1] = "forward" /\ n[2] = "snat" /\ n[3] = "renotrack"
    OBVIOUS
  <1> HIDE DEF n
  <1>3. ASSUME NEW i \in 1..3, NEW j \in 1..3, i < j PROVE ~NeverThenInLoop(n[i], n[j])
    <2>1. CASE i = 1
      <3>1. j \in {2, 3}
        BY <1>3, <2>1
      <3>2. n[i] = "forward" /\ n[j] \in {"snat", "renotrack"}
        BY <1>2, <2>1, <3>1
      <3> QED
        BY <3>2 DEF NeverThenInLoop, AtEnd
    <2>2. CASE i = 2
      <3>1. j \in {3}
        BY <1>3, <2>2
      <3>2. n[i] = "snat" /\ n[j] \in {"renotrack"}
        BY <1>2, <2>2, <3>1
      <3> QED
        BY <3>2 DEF NeverThenInLoop, AtEnd
    <2> QED
      BY <1>3, <2>1, <2>2
  <1> QED
    BY <1>1, <1>3 DEF n

LEMMA RebypassNames ==
  LET n == <<"rebypass">>
  IN  /\ n \in Seq(CommandNames) /\ {n[i] : i \in DOMAIN n} = {"rebypass"}
      /\ \A i, j \in DOMAIN n : i < j => ~NeverThenInLoop(n[i], n[j])
  <1>1. <<"rebypass">> \in Seq(CommandNames)
    BY DEF CommandNames, InSetup, InRestore, InLoop, InTeardown
  <1> QED
    BY <1>1

LEMMA RecaptureNames ==
  LET n == <<"recapture">>
  IN  /\ n \in Seq(CommandNames) /\ {n[i] : i \in DOMAIN n} = {"recapture"}
      /\ \A i, j \in DOMAIN n : i < j => ~NeverThenInLoop(n[i], n[j])
  <1>1. <<"recapture">> \in Seq(CommandNames)
    BY DEF CommandNames, InSetup, InRestore, InLoop, InTeardown
  <1> QED
    BY <1>1

LEMMA RedefaultNames ==
  LET n == <<"redefault">>
  IN  /\ n \in Seq(CommandNames) /\ {n[i] : i \in DOMAIN n} = {"redefault"}
      /\ \A i, j \in DOMAIN n : i < j => ~NeverThenInLoop(n[i], n[j])
  <1>1. <<"redefault">> \in Seq(CommandNames)
    BY DEF CommandNames, InSetup, InRestore, InLoop, InTeardown
  <1> QED
    BY <1>1

LEMMA SaveNames ==
  LET n == <<"tear", "save", "flush", "btab">>
  IN  /\ n \in Seq(CommandNames) /\ {n[i] : i \in DOMAIN n} = {"tear", "save", "flush", "btab"}
      /\ \A i, j \in DOMAIN n : i < j => ~NeverThenInLoop(n[i], n[j])
  <1> DEFINE n == <<"tear", "save", "flush", "btab">>
  <1>1. n \in Seq(CommandNames) /\ DOMAIN n = 1..4 /\ {n[i] : i \in 1..4} = {"tear", "save", "flush", "btab"}
    <2>1. "tear" \in CommandNames /\ "save" \in CommandNames /\ "flush" \in CommandNames /\ "btab" \in CommandNames
      BY DEF CommandNames, InSetup, InRestore, InLoop, InTeardown
    <2>2. n \in Seq(CommandNames)
      BY <2>1
    <2>3. {n[i] : i \in 1..4} = {"tear", "save", "flush", "btab"} /\ DOMAIN n = 1..4
      OBVIOUS
    <2> QED
      BY <2>2, <2>3
  <1>2. n[1] = "tear" /\ n[2] = "save" /\ n[3] = "flush" /\ n[4] = "btab"
    OBVIOUS
  <1> HIDE DEF n
  <1>3. ASSUME NEW i \in 1..4, NEW j \in 1..4, i < j PROVE ~NeverThenInLoop(n[i], n[j])
    <2>1. CASE i = 1
      <3>1. j \in {2, 3, 4}
        BY <1>3, <2>1
      <3>2. n[i] = "tear" /\ n[j] \in {"save", "flush", "btab"}
        BY <1>2, <2>1, <3>1
      <3> QED
        BY <3>2 DEF NeverThenInLoop, AtEnd
    <2>2. CASE i = 2
      <3>1. j \in {3, 4}
        BY <1>3, <2>2
      <3>2. n[i] = "save" /\ n[j] \in {"flush", "btab"}
        BY <1>2, <2>2, <3>1
      <3> QED
        BY <3>2 DEF NeverThenInLoop, AtEnd
    <2>3. CASE i = 3
      <3>1. j \in {4}
        BY <1>3, <2>3
      <3>2. n[i] = "flush" /\ n[j] \in {"btab"}
        BY <1>2, <2>3, <3>1
      <3> QED
        BY <3>2 DEF NeverThenInLoop, AtEnd
    <2> QED
      BY <1>3, <2>1, <2>2, <2>3
  <1> QED
    BY <1>1, <1>3 DEF n

LEMMA CaptureNames ==
  LET n == <<"ctab">>
  IN  /\ n \in Seq(CommandNames) /\ {n[i] : i \in DOMAIN n} = {"ctab"}
      /\ \A i, j \in DOMAIN n : i < j => ~NeverThenInLoop(n[i], n[j])
  <1>1. <<"ctab">> \in Seq(CommandNames)
    BY DEF CommandNames, InSetup, InRestore, InLoop, InTeardown
  <1> QED
    BY <1>1

LEMMA TeardownNames ==
  LET n == <<"teardown">>
  IN  /\ n \in Seq(CommandNames) /\ {n[i] : i \in DOMAIN n} = {"teardown"}
      /\ \A i, j \in DOMAIN n : i < j => ~NeverThenInTeardown(n[i], n[j])
  <1>1. <<"teardown">> \in Seq(CommandNames)
    BY DEF CommandNames, InSetup, InRestore, InLoop, InTeardown
  <1> QED
    BY <1>1

LEMMA UnchainNames ==
  LET n == <<"unchain", "uncapture">>
  IN  /\ n \in Seq(CommandNames) /\ {n[i] : i \in DOMAIN n} = {"unchain", "uncapture"}
      /\ \A i, j \in DOMAIN n : i < j => ~NeverThenInTeardown(n[i], n[j])
  <1> DEFINE n == <<"unchain", "uncapture">>
  <1>1. n \in Seq(CommandNames) /\ DOMAIN n = 1..2 /\ {n[i] : i \in 1..2} = {"unchain", "uncapture"}
    <2>1. "unchain" \in CommandNames /\ "uncapture" \in CommandNames
      BY DEF CommandNames, InSetup, InRestore, InLoop, InTeardown
    <2>2. n \in Seq(CommandNames)
      BY <2>1
    <2>3. {n[i] : i \in 1..2} = {"unchain", "uncapture"} /\ DOMAIN n = 1..2
      OBVIOUS
    <2> QED
      BY <2>2, <2>3
  <1>2. n[1] = "unchain" /\ n[2] = "uncapture"
    OBVIOUS
  <1> HIDE DEF n
  <1>3. ASSUME NEW i \in 1..2, NEW j \in 1..2, i < j PROVE ~NeverThenInTeardown(n[i], n[j])
    <2>1. CASE i = 1
      <3>1. j \in {2}
        BY <1>3, <2>1
      <3>2. n[i] = "unchain" /\ n[j] \in {"uncapture"}
        BY <1>2, <2>1, <3>1
      <3> QED
        BY <3>2 DEF NeverThenInTeardown
    <2> QED
      BY <1>3, <2>1
  <1> QED
    BY <1>1, <1>3 DEF n

LEMMA UndefaultNames ==
  LET n == <<"undefault">>
  IN  /\ n \in Seq(CommandNames) /\ {n[i] : i \in DOMAIN n} = {"undefault"}
      /\ \A i, j \in DOMAIN n : i < j => ~NeverThenInTeardown(n[i], n[j])
  <1>1. <<"undefault">> \in Seq(CommandNames)
    BY DEF CommandNames, InSetup, InRestore, InLoop, InTeardown
  <1> QED
    BY <1>1

LEMMA UnlinkNames ==
  LET n == <<"unmark", "flush", "link_del">>
  IN  /\ n \in Seq(CommandNames) /\ {n[i] : i \in DOMAIN n} = {"unmark", "flush", "link_del"}
      /\ \A i, j \in DOMAIN n : i < j => ~NeverThenInTeardown(n[i], n[j])
  <1> DEFINE n == <<"unmark", "flush", "link_del">>
  <1>1. n \in Seq(CommandNames) /\ DOMAIN n = 1..3 /\ {n[i] : i \in 1..3} = {"unmark", "flush", "link_del"}
    <2>1. "unmark" \in CommandNames /\ "flush" \in CommandNames /\ "link_del" \in CommandNames
      BY DEF CommandNames, InSetup, InRestore, InLoop, InTeardown
    <2>2. n \in Seq(CommandNames)
      BY <2>1
    <2>3. {n[i] : i \in 1..3} = {"unmark", "flush", "link_del"} /\ DOMAIN n = 1..3
      OBVIOUS
    <2> QED
      BY <2>2, <2>3
  <1>2. n[1] = "unmark" /\ n[2] = "flush" /\ n[3] = "link_del"
    OBVIOUS
  <1> HIDE DEF n
  <1>3. ASSUME NEW i \in 1..3, NEW j \in 1..3, i < j PROVE ~NeverThenInTeardown(n[i], n[j])
    <2>1. CASE i = 1
      <3>1. j \in {2, 3}
        BY <1>3, <2>1
      <3>2. n[i] = "unmark" /\ n[j] \in {"flush", "link_del"}
        BY <1>2, <2>1, <3>1
      <3> QED
        BY <3>2 DEF NeverThenInTeardown
    <2>2. CASE i = 2
      <3>1. j \in {3}
        BY <1>3, <2>2
      <3>2. n[i] = "flush" /\ n[j] \in {"link_del"}
        BY <1>2, <2>2, <3>1
      <3> QED
        BY <3>2 DEF NeverThenInTeardown
    <2> QED
      BY <1>3, <2>1, <2>2
  <1> QED
    BY <1>1, <1>3 DEF n

LEMMA UnnatNames ==
  LET n == <<"unforward", "unnat", "unrp">>
  IN  /\ n \in Seq(CommandNames) /\ {n[i] : i \in DOMAIN n} = {"unforward", "unnat", "unrp"}
      /\ \A i, j \in DOMAIN n : i < j => ~NeverThenInTeardown(n[i], n[j])
  <1> DEFINE n == <<"unforward", "unnat", "unrp">>
  <1>1. n \in Seq(CommandNames) /\ DOMAIN n = 1..3 /\ {n[i] : i \in 1..3} = {"unforward", "unnat", "unrp"}
    <2>1. "unforward" \in CommandNames /\ "unnat" \in CommandNames /\ "unrp" \in CommandNames
      BY DEF CommandNames, InSetup, InRestore, InLoop, InTeardown
    <2>2. n \in Seq(CommandNames)
      BY <2>1
    <2>3. {n[i] : i \in 1..3} = {"unforward", "unnat", "unrp"} /\ DOMAIN n = 1..3
      OBVIOUS
    <2> QED
      BY <2>2, <2>3
  <1>2. n[1] = "unforward" /\ n[2] = "unnat" /\ n[3] = "unrp"
    OBVIOUS
  <1> HIDE DEF n
  <1>3. ASSUME NEW i \in 1..3, NEW j \in 1..3, i < j PROVE ~NeverThenInTeardown(n[i], n[j])
    <2>1. CASE i = 1
      <3>1. j \in {2, 3}
        BY <1>3, <2>1
      <3>2. n[i] = "unforward" /\ n[j] \in {"unnat", "unrp"}
        BY <1>2, <2>1, <3>1
      <3> QED
        BY <3>2 DEF NeverThenInTeardown
    <2>2. CASE i = 2
      <3>1. j \in {3}
        BY <1>3, <2>2
      <3>2. n[i] = "unnat" /\ n[j] \in {"unrp"}
        BY <1>2, <2>2, <3>1
      <3> QED
        BY <3>2 DEF NeverThenInTeardown
    <2> QED
      BY <1>3, <2>1, <2>2
  <1> QED
    BY <1>1, <1>3 DEF n

LEMMA ForgetNames ==
  LET n == <<"forget">>
  IN  /\ n \in Seq(CommandNames) /\ {n[i] : i \in DOMAIN n} = {"forget"}
      /\ \A i, j \in DOMAIN n : i < j => ~NeverThenInTeardown(n[i], n[j])
  <1>1. <<"forget">> \in Seq(CommandNames)
    BY DEF CommandNames, InSetup, InRestore, InLoop, InTeardown
  <1> QED
    BY <1>1

LEMMA NoSteps ==
  /\ <<>> \in Seq(CommandNames) /\ Named(Steps(<<>>), {})
  /\ \A p : InOrder(p, Steps(<<>>))
  <1>1. <<>> \in Seq(CommandNames) /\ DOMAIN <<>> = {}
    OBVIOUS
  <1>2. Named(Steps(<<>>), {<<>>[i] : i \in DOMAIN <<>>})
    BY <1>1, StepsNamed
  <1>3. DOMAIN Steps(<<>>) = {}
    BY <1>1, StepsAre
  <1> QED
    BY <1>1, <1>2, <1>3 DEF InOrder

\* Three parts one after the other.
LEMMA Three ==
  ASSUME NEW p, NEW a \in Seq(CommandNames), NEW b \in Seq(CommandNames), NEW c \in Seq(CommandNames), NEW A, NEW B, NEW C,
         Named(Steps(a), A), Named(Steps(b), B), Named(Steps(c), C),
         InOrder(p, Steps(a)), InOrder(p, Steps(b)), InOrder(p, Steps(c)),
         \A n \in A, m \in B \cup C : ~Excluded(p, n, m),
         \A n \in B, m \in C : ~Excluded(p, n, m)
  PROVE  Named(Steps(a \o b \o c), A \cup B \cup C) /\ InOrder(p, Steps(a \o b \o c))
         /\ a \o b \o c \in Seq(CommandNames)
  <1>1. a \o b \in Seq(CommandNames) /\ a \o b \o c \in Seq(CommandNames)
    OBVIOUS
  <1>2. Steps(a \o b) = Steps(a) \o Steps(b)
    BY StepsJoined
  <1>3. Steps(a \o b \o c) = Steps(a \o b) \o Steps(c)
    BY <1>1, StepsJoined
  <1>4. Named(Steps(a \o b), A \cup B) /\ InOrder(p, Steps(a \o b))
    BY <1>2, Joined DEF Named
  <1>5. \A n \in A \cup B, m \in C : ~Excluded(p, n, m)
    OBVIOUS
  <1> DEFINE f == Steps(a \o b)  g == Steps(c)
  <1>6. f \in Seq(Commands) /\ Does(f) = A \cup B /\ g \in Seq(Commands) /\ Does(g) = C
    BY <1>4 DEF Named
  <1>7. InOrder(p, f) /\ InOrder(p, g) /\ \A n \in Does(f), m \in Does(g) : ~Excluded(p, n, m)
    BY <1>4, <1>5, <1>6
  <1>8. Steps(a \o b \o c) = f \o g
    BY <1>3
  <1> HIDE DEF f, g
  <1>9. f \o g \in Seq(Commands) /\ Does(f \o g) = (A \cup B) \cup C /\ InOrder(p, f \o g)
    BY <1>6, <1>7, Joined
  <1> QED
    BY <1>1, <1>8, <1>9 DEF Named

LEMMA SetupListed ==
  ASSUME SettingsOK, cfg \in Settings
  PROVE  LET s == Steps(SetupSteps)
         IN  /\ SetupSteps \in Seq(CommandNames) /\ s \in Seq(Commands) /\ InOrder("starting", s)
             /\ Does(s) \subseteq InSetup /\ {"mode", "tear", "save"} \subseteq Does(s)
             /\ cfg.skip => Does(s) \cap {"loosen", "forward", "snat", "notrack", "client_notrack"} = {}
             /\ cfg.capture = "ports" => "captured" \in Does(s) /\ "into_tun" \notin Does(s)
             /\ cfg.capture = "default" =>
                  "into_tun" \in Does(s) /\ Does(s) \cap {"crule", "ctab", "chain", "fill", "jumps", "captured"} = {}
  <1> DEFINE a == IF cfg.skip THEN <<>> ELSE <<"loosen", "forward", "snat", "notrack", "client_notrack">>
             b == <<"mode", "tear", "save", "bypass", "btab">>
             c == IF cfg.capture = "ports" THEN <<"crule", "ctab", "chain", "fill", "jumps", "captured">>
                  ELSE <<"into_tun">>
             A == IF cfg.skip THEN {} ELSE {"loosen", "forward", "snat", "notrack", "client_notrack"}
             B == {"mode", "tear", "save", "bypass", "btab"}
             C == IF cfg.capture = "ports" THEN {"crule", "ctab", "chain", "fill", "jumps", "captured"}
                  ELSE {"into_tun"}
             s == Steps(a \o b \o c)
  <1>0. SetupSteps = a \o b \o c
    BY DEF SetupSteps
  <1>1. a \in Seq(CommandNames) /\ Named(Steps(a), A) /\ InOrder("starting", Steps(a))
    <2>1. CASE cfg.skip
      BY <2>1, NoSteps
    <2>2. CASE ~cfg.skip
      <3> DEFINE n == <<"loosen", "forward", "snat", "notrack", "client_notrack">>
      <3>1. n \in Seq(CommandNames) /\ {n[i] : i \in DOMAIN n} = A /\ \A i, j \in DOMAIN n : i < j => ~NeverThen(n[i], n[j])
        BY <2>2, NatNames
      <3>2. a = n
        BY <2>2
      <3> HIDE DEF n, a, A
      <3> QED
        BY <3>1, <3>2, StepsNamed, ExcludedIs
    <2> QED
      BY <2>1, <2>2
  <1>2. b \in Seq(CommandNames) /\ Named(Steps(b), B) /\ InOrder("starting", Steps(b))
    <2>1. b \in Seq(CommandNames) /\ {b[i] : i \in DOMAIN b} = B /\ \A i, j \in DOMAIN b : i < j => ~NeverThen(b[i], b[j])
      BY BypassNames
    <2> HIDE DEF b, B
    <2> QED
      BY <2>1, StepsNamed, ExcludedIs
  <1>3. c \in Seq(CommandNames) /\ Named(Steps(c), C) /\ InOrder("starting", Steps(c))
    <2>1. c \in Seq(CommandNames) /\ {c[i] : i \in DOMAIN c} = C /\ \A i, j \in DOMAIN c : i < j => ~NeverThen(c[i], c[j])
      <3>1. CASE cfg.capture = "ports"
        BY <3>1, PortNames
      <3>2. CASE cfg.capture # "ports"
        BY <3>2, IntoTunNames
      <3> QED
        BY <3>1, <3>2
    <2> HIDE DEF c, C
    <2> QED
      BY <2>1, StepsNamed, ExcludedIs
  <1>4. \A n \in A, m \in B \cup C : ~Excluded("starting", n, m)
    BY ExcludedIs DEF NeverThen, Fallible, InRestore
  <1>5. \A n \in B, m \in C : ~Excluded("starting", n, m)
    BY ExcludedIs DEF NeverThen, Fallible, InRestore
  <1>6. Named(s, A \cup B \cup C) /\ InOrder("starting", s) /\ a \o b \o c \in Seq(CommandNames)
    <2> HIDE DEF a, b, c, A, B, C
    <2> QED
      BY <1>1, <1>2, <1>3, <1>4, <1>5, Three
  <1>7. A \cup B \cup C \subseteq InSetup
    BY DEF InSetup
  <1>8. cfg.capture \in {"ports", "default"}
    BY TunSettings
  <1> HIDE DEF s, a, b, c
  <1> QED
    BY <1>0, <1>6, <1>7, <1>8 DEF Named, s

LEMMA StepsArgs ==
  ASSUME NEW names \in Seq(CommandNames), "repoint" \notin Does(Steps(names)), "source" \notin Does(Steps(names)),
         NEW Z
  PROVE  Steps(names) \in Seq(Args(Z))
  <1> DEFINE s == Steps(names)
  <1>1. s \in Seq(Commands) /\ DOMAIN s = DOMAIN names
        /\ \A i \in DOMAIN names : s[i] = [do |-> names[i], dev |-> None, src |-> None]
    BY StepsAre
  <1> HIDE DEF s
  <1>2. ASSUME NEW i \in DOMAIN s PROVE s[i] \in Args(Z)
    <2>1. s[i] \in Commands /\ s[i].src = None /\ s[i].do \in Does(s)
      BY <1>1 DEF Does
    <2>2. s[i].do \notin {"repoint", "source"}
      BY <2>1 DEF s
    <2> QED
      BY <2>1, <2>2 DEF Args
  <1>3. s \in Seq(Args(Z))
    BY <1>1, <1>2
  <1> QED
    BY <1>3 DEF s

LEMMA TeardownListed ==
  ASSUME NEW x, NEW p \in {"tearing", "failing"}
  PROVE  \E s \in Seq(Commands) :
           /\ teardown(x) = Then(x, s) /\ InOrder(p, s) /\ s \in Seq(Args({}))
           /\ Does(s) \subseteq InTeardown /\ {"unmark", "flush", "link_del", "forget"} \subseteq Does(s)
           /\ x.m.cap = "ports" /\ x.m.rules => {"unchain", "uncapture"} \subseteq Does(s)
           /\ "undefault" \in Does(s) <=> x.m.cap = "default" /\ x.m.saved # None
           /\ ~cfg.skip => {"unforward", "unnat", "unrp"} \subseteq Does(s)
  <1> DEFINE a == IF x.m.cap = "ports" /\ x.m.rules THEN <<"unchain", "uncapture">> ELSE <<>>
             b == IF x.m.cap = "default" /\ x.m.saved # None THEN <<"undefault">> ELSE <<>>
             c == <<"unmark", "flush", "link_del">>
             d == IF cfg.skip THEN <<>> ELSE <<"unforward", "unnat", "unrp">>
             e == <<"forget">>
             A == IF x.m.cap = "ports" /\ x.m.rules THEN {"unchain", "uncapture"} ELSE {}
             B == IF x.m.cap = "default" /\ x.m.saved # None THEN {"undefault"} ELSE {}
             C == {"unmark", "flush", "link_del"}
             D == IF cfg.skip THEN {} ELSE {"unforward", "unnat", "unrp"}
             E == {"forget"}
             f == a \o b \o c
             F == A \cup B \cup C
             s == Steps(f \o d \o e)
  <1>0. teardown(x) = Then(x, s)
    BY DEF teardown
  <1>1. a \in Seq(CommandNames) /\ Named(Steps(a), A) /\ InOrder(p, Steps(a))
    <2>1. CASE x.m.cap = "ports" /\ x.m.rules
      <3> DEFINE n == <<"unchain", "uncapture">>
      <3>1. n \in Seq(CommandNames) /\ {n[i] : i \in DOMAIN n} = A /\ \A i, j \in DOMAIN n : i < j => ~NeverThenInTeardown(n[i], n[j])
        BY <2>1, UnchainNames
      <3>2. a = n
        BY <2>1
      <3> HIDE DEF n, a, A
      <3> QED
        BY <3>1, <3>2, StepsNamed, ExcludedIs
    <2>2. CASE ~(x.m.cap = "ports" /\ x.m.rules)
      BY <2>2, NoSteps
    <2> QED
      BY <2>1, <2>2
  <1>2. b \in Seq(CommandNames) /\ Named(Steps(b), B) /\ InOrder(p, Steps(b))
    <2>1. CASE x.m.cap = "default" /\ x.m.saved # None
      <3> DEFINE n == <<"undefault">>
      <3>1. n \in Seq(CommandNames) /\ {n[i] : i \in DOMAIN n} = B /\ \A i, j \in DOMAIN n : i < j => ~NeverThenInTeardown(n[i], n[j])
        BY <2>1, UndefaultNames
      <3>2. b = n
        BY <2>1
      <3> HIDE DEF n, b, B
      <3> QED
        BY <3>1, <3>2, StepsNamed, ExcludedIs
    <2>2. CASE ~(x.m.cap = "default" /\ x.m.saved # None)
      BY <2>2, NoSteps
    <2> QED
      BY <2>1, <2>2
  <1>3. c \in Seq(CommandNames) /\ Named(Steps(c), C) /\ InOrder(p, Steps(c))
    <2> DEFINE n == <<"unmark", "flush", "link_del">>
    <2>1. n \in Seq(CommandNames) /\ {n[i] : i \in DOMAIN n} = C /\ \A i, j \in DOMAIN n : i < j => ~NeverThenInTeardown(n[i], n[j])
      BY UnlinkNames
    <2>2. c = n
      OBVIOUS
    <2> HIDE DEF n, c, C
    <2> QED
      BY <2>1, <2>2, StepsNamed, ExcludedIs
  <1>4. d \in Seq(CommandNames) /\ Named(Steps(d), D) /\ InOrder(p, Steps(d))
    <2>1. CASE cfg.skip
      BY <2>1, NoSteps
    <2>2. CASE ~(cfg.skip)
      <3> DEFINE n == <<"unforward", "unnat", "unrp">>
      <3>1. n \in Seq(CommandNames) /\ {n[i] : i \in DOMAIN n} = D /\ \A i, j \in DOMAIN n : i < j => ~NeverThenInTeardown(n[i], n[j])
        BY <2>2, UnnatNames
      <3>2. d = n
        BY <2>2
      <3> HIDE DEF n, d, D
      <3> QED
        BY <3>1, <3>2, StepsNamed, ExcludedIs
    <2> QED
      BY <2>1, <2>2
  <1>5. e \in Seq(CommandNames) /\ Named(Steps(e), E) /\ InOrder(p, Steps(e))
    <2> DEFINE n == <<"forget">>
    <2>1. n \in Seq(CommandNames) /\ {n[i] : i \in DOMAIN n} = E /\ \A i, j \in DOMAIN n : i < j => ~NeverThenInTeardown(n[i], n[j])
      BY ForgetNames
    <2>2. e = n
      OBVIOUS
    <2> HIDE DEF n, e, E
    <2> QED
      BY <2>1, <2>2, StepsNamed, ExcludedIs
  <1>6. \A n \in F \cup D : \A m \in F \cup D \cup E : ~Excluded(p, n, m)
    BY ExcludedIs DEF NeverThenInTeardown
  <1>7. Named(Steps(f), F) /\ InOrder(p, Steps(f)) /\ f \in Seq(CommandNames)
    <2>1. \A n \in A, m \in B \cup C : ~Excluded(p, n, m)
      BY <1>6
    <2>2. \A n \in B, m \in C : ~Excluded(p, n, m)
      BY <1>6
    <2> HIDE DEF a, b, c, A, B, C
    <2> QED
      BY <1>1, <1>2, <1>3, <2>1, <2>2, Three
  <1>8. Named(s, F \cup D \cup E) /\ InOrder(p, s)
    <2>1. \A n \in F, m \in D \cup E : ~Excluded(p, n, m)
      BY <1>6
    <2>2. \A n \in D, m \in E : ~Excluded(p, n, m)
      BY <1>6
    <2> HIDE DEF d, e, f, D, E, F
    <2> QED
      BY <1>4, <1>5, <1>7, <2>1, <2>2, Three
  <1>9. F \cup D \cup E \subseteq InTeardown
    BY DEF InTeardown
  <1> HIDE DEF s, a, b, c, d, e, f
  <1>10. s \in Seq(Commands) /\ Does(s) = F \cup D \cup E
    BY <1>8 DEF Named
  <1>11. s \in Seq(Args({}))
    <2>1. "repoint" \notin Does(s) /\ "source" \notin Does(s)
      BY <1>10
    <2>2. f \o d \o e \in Seq(CommandNames)
      BY <1>4, <1>5, <1>7
    <2> QED
      BY <2>1, <2>2, StepsArgs DEF s
  <1> USE <1>10
  <1> WITNESS s \in Seq(Commands)
  <1> QED
    BY <1>0, <1>8, <1>9, <1>11

LEMMA ReconcileListed ==
  ASSUME NEW x, NEW p \in {"running", "stopping"}
  PROVE  \E s \in Seq(Commands) :
           /\ reconcile(x) = Then(x, s) /\ InOrder(p, s) /\ s \in Seq(Args({}))
           /\ Does(s) \subseteq {"refresh"} \cup AtEnd
           /\ cfg.skip => Does(s) \cap {"forward", "snat", "renotrack"} = {}
           /\ IF x.m.cap = "ports" THEN "redefault" \notin Does(s) ELSE "recapture" \notin Does(s)
  <1> DEFINE a == <<"refresh", "resource">>
             b == IF cfg.skip THEN <<>> ELSE <<"forward", "snat", "renotrack">>
             c == <<"rebypass">>
             d == IF x.m.cap = "ports" THEN <<"recapture">> ELSE <<"redefault">>
             A == {"refresh", "resource"}
             B == IF cfg.skip THEN {} ELSE {"forward", "snat", "renotrack"}
             C == {"rebypass"}
             D == IF x.m.cap = "ports" THEN {"recapture"} ELSE {"redefault"}
             f == a \o b \o c
             F == A \cup B \cup C
             s == Steps(f \o d)
  <1>0. reconcile(x) = Then(x, s)
    BY DEF reconcile
  <1>1. a \in Seq(CommandNames) /\ Named(Steps(a), A) /\ InOrder(p, Steps(a))
    <2> DEFINE n == <<"refresh", "resource">>
    <2>1. n \in Seq(CommandNames) /\ {n[i] : i \in DOMAIN n} = A /\ \A i, j \in DOMAIN n : i < j => ~NeverThenInLoop(n[i], n[j])
      BY RefreshNames
    <2>2. a = n
      OBVIOUS
    <2> HIDE DEF n, a, A
    <2> QED
      BY <2>1, <2>2, StepsNamed, ExcludedIs
  <1>2. b \in Seq(CommandNames) /\ Named(Steps(b), B) /\ InOrder(p, Steps(b))
    <2>1. CASE cfg.skip
      BY <2>1, NoSteps
    <2>2. CASE ~(cfg.skip)
      <3> DEFINE n == <<"forward", "snat", "renotrack">>
      <3>1. n \in Seq(CommandNames) /\ {n[i] : i \in DOMAIN n} = B /\ \A i, j \in DOMAIN n : i < j => ~NeverThenInLoop(n[i], n[j])
        BY <2>2, RenatNames
      <3>2. b = n
        BY <2>2
      <3> HIDE DEF n, b, B
      <3> QED
        BY <3>1, <3>2, StepsNamed, ExcludedIs
    <2> QED
      BY <2>1, <2>2
  <1>3. c \in Seq(CommandNames) /\ Named(Steps(c), C) /\ InOrder(p, Steps(c))
    <2> DEFINE n == <<"rebypass">>
    <2>1. n \in Seq(CommandNames) /\ {n[i] : i \in DOMAIN n} = C /\ \A i, j \in DOMAIN n : i < j => ~NeverThenInLoop(n[i], n[j])
      BY RebypassNames
    <2>2. c = n
      OBVIOUS
    <2> HIDE DEF n, c, C
    <2> QED
      BY <2>1, <2>2, StepsNamed, ExcludedIs
  <1>4. d \in Seq(CommandNames) /\ Named(Steps(d), D) /\ InOrder(p, Steps(d))
    <2>1. CASE x.m.cap = "ports"
      <3> DEFINE n == <<"recapture">>
      <3>1. n \in Seq(CommandNames) /\ {n[i] : i \in DOMAIN n} = D /\ \A i, j \in DOMAIN n : i < j => ~NeverThenInLoop(n[i], n[j])
        BY <2>1, RecaptureNames
      <3>2. d = n
        BY <2>1
      <3> HIDE DEF n, d, D
      <3> QED
        BY <3>1, <3>2, StepsNamed, ExcludedIs
    <2>2. CASE ~(x.m.cap = "ports")
      <3> DEFINE n == <<"redefault">>
      <3>1. n \in Seq(CommandNames) /\ {n[i] : i \in DOMAIN n} = D /\ \A i, j \in DOMAIN n : i < j => ~NeverThenInLoop(n[i], n[j])
        BY <2>2, RedefaultNames
      <3>2. d = n
        BY <2>2
      <3> HIDE DEF n, d, D
      <3> QED
        BY <3>1, <3>2, StepsNamed, ExcludedIs
    <2> QED
      BY <2>1, <2>2
  <1>5. \A n \in F, m \in B \cup C \cup D : ~Excluded(p, n, m)
    BY ExcludedIs DEF NeverThenInLoop, AtEnd
  <1>6. Named(Steps(f), F) /\ InOrder(p, Steps(f)) /\ f \in Seq(CommandNames)
    <2>1. \A n \in A, m \in B \cup C : ~Excluded(p, n, m)
      BY <1>5
    <2>2. \A n \in B, m \in C : ~Excluded(p, n, m)
      BY <1>5
    <2> HIDE DEF a, b, c, A, B, C
    <2> QED
      BY <1>1, <1>2, <1>3, <2>1, <2>2, Three
  <1>7. Named(s, F \cup D) /\ InOrder(p, s) /\ f \o d \in Seq(CommandNames)
    <2>1. \A n \in F, m \in D : ~Excluded(p, n, m)
      BY <1>5
    <2> HIDE DEF d, f, D, F
    <2>2. s = Steps(f) \o Steps(d)
      BY <1>4, <1>6, StepsJoined
    <2>3. f \o d \in Seq(CommandNames)
      BY <1>4, <1>6
    <2> QED
      BY <1>4, <1>6, <2>1, <2>2, <2>3, Joined DEF Named
  <1>8. F \cup D \subseteq {"refresh"} \cup AtEnd
    BY DEF AtEnd
  <1> HIDE DEF s, a, b, c, d, f
  <1>9. s \in Seq(Commands) /\ Does(s) = F \cup D
    BY <1>7 DEF Named
  <1>10. s \in Seq(Args({}))
    <2>1. "repoint" \notin Does(s) /\ "source" \notin Does(s)
      BY <1>9
    <2> QED
      BY <1>7, <2>1, StepsArgs DEF s
  <1> USE <1>9
  <1> WITNESS s \in Seq(Commands)
  <1> QED
    BY <1>0, <1>7, <1>8, <1>9, <1>10

LEMMA SetupArgs ==
  ASSUME SettingsOK, cfg \in Settings
  PROVE  Steps(SetupSteps) \in Seq(Args({}))
  <1>1. SetupSteps \in Seq(CommandNames)
    BY SetupListed
  <1>2. Does(Steps(SetupSteps)) \subseteq InSetup
    BY SetupListed
  <1>3. {"repoint", "source"} \cap InSetup = {}
    BY DEF InSetup
  <1> QED
    BY <1>1, <1>2, <1>3, StepsArgs

\* A sequence of commands by its names, with the sources that it carries.
Listed(p, s, N, Z) == s \in Seq(Commands) /\ s \in Seq(Args(Z)) /\ Does(s) = N /\ InOrder(p, s)

LEMMA ListedJoined ==
  ASSUME NEW p, NEW s, NEW t, NEW N, NEW M, NEW Z, Listed(p, s, N, Z), Listed(p, t, M, Z),
         \A a \in N, b \in M : ~Excluded(p, a, b)
  PROVE  Listed(p, s \o t, N \cup M, Z)
  <1>1. s \in Seq(Commands) /\ t \in Seq(Commands) /\ s \in Seq(Args(Z)) /\ t \in Seq(Args(Z))
        /\ Does(s) = N /\ Does(t) = M /\ InOrder(p, s) /\ InOrder(p, t)
    BY DEF Listed
  <1>2. s \o t \in Seq(Args(Z))
    BY <1>1
  <1> QED
    BY <1>1, <1>2, Joined DEF Listed

LEMMA ListedOne ==
  ASSUME NEW p, NEW Z, NEW c \in Args(Z)
  PROVE  Listed(p, <<c>>, {c.do}, Z)
  <1>1. c \in Commands
    BY DEF Args
  <1>2. <<c>> \in Seq(Commands) /\ <<c>> \in Seq(Args(Z)) /\ DOMAIN <<c>> = {1} /\ <<c>>[1] = c
    BY <1>1
  <1> DEFINE s == <<c>>
  <1> HIDE DEF s
  <1>3. Does(s) = {c.do}
    BY <1>2 DEF Does, s
  <1>4. \A i, j \in {1} : ~(i < j)
    OBVIOUS
  <1>5. InOrder(p, s)
    BY <1>2, <1>4 DEF InOrder, s
  <1> QED
    BY <1>2, <1>3, <1>5 DEF Listed, s

LEMMA ListedNone ==
  ASSUME NEW p, NEW Z
  PROVE  Listed(p, <<>>, {}, Z)
  <1>1. <<>> \in Seq(Commands) /\ <<>> \in Seq(Args(Z)) /\ DOMAIN <<>> = {}
    OBVIOUS
  <1> QED
    BY <1>1 DEF Listed, Does, InOrder

LEMMA ListedSteps ==
  ASSUME NEW p, NEW Z, NEW names \in Seq(CommandNames), NEW N, N = {names[i] : i \in DOMAIN names},
         "repoint" \notin N, "source" \notin N,
         \A i, j \in DOMAIN names : i < j => ~Excluded(p, names[i], names[j])
  PROVE  Listed(p, Steps(names), N, Z)
  <1>1. Named(Steps(names), N) /\ InOrder(p, Steps(names))
    BY StepsNamed
  <1>2. Does(Steps(names)) = N /\ Steps(names) \in Seq(Commands)
    BY <1>1 DEF Named
  <1>3. Steps(names) \in Seq(Args(Z))
    BY <1>2, StepsArgs
  <1> QED
    BY <1>1, <1>2, <1>3 DEF Listed

LEMMA CapturesListed ==
  ASSUME NEW x, NEW p \in {"running", "stopping"}, NEW Z
  PROVE  Listed(p, Steps(Captures(x)), IF x.m.cap = "ports" THEN {"ctab"} ELSE {"into_tun"}, Z)
  <1>1. CASE x.m.cap = "ports"
    <2> DEFINE n == <<"ctab">>
    <2>1. n \in Seq(CommandNames) /\ {n[i] : i \in DOMAIN n} = {"ctab"}
          /\ \A i, j \in DOMAIN n : i < j => ~NeverThenInLoop(n[i], n[j])
      BY CaptureNames
    <2>2. Captures(x) = n
      BY <1>1 DEF Captures
    <2> HIDE DEF n
    <2>3. \A i, j \in DOMAIN n : i < j => ~Excluded(p, n[i], n[j])
      BY <2>1, ExcludedIs
    <2>4. Listed(p, Steps(n), {"ctab"}, Z)
      BY <2>1, <2>3, ListedSteps
    <2> QED
      BY <1>1, <2>2, <2>4
  <1>2. CASE x.m.cap # "ports"
    <2> DEFINE n == <<"into_tun">>
    <2>1. n \in Seq(CommandNames) /\ {n[i] : i \in DOMAIN n} = {"into_tun"}
          /\ \A i, j \in DOMAIN n : i < j => ~NeverThenInLoop(n[i], n[j])
      BY IntoTunNames
    <2>2. Captures(x) = n
      BY <1>2 DEF Captures
    <2> HIDE DEF n
    <2>3. \A i, j \in DOMAIN n : i < j => ~Excluded(p, n[i], n[j])
      BY <2>1, ExcludedIs
    <2>4. Listed(p, Steps(n), {"into_tun"}, Z)
      BY <2>1, <2>3, ListedSteps
    <2> QED
      BY <1>2, <2>2, <2>4
  <1> QED
    BY <1>1, <1>2

LEMMA Pair ==
  ASSUME NEW u, NEW v
  PROVE  <<u>> \o <<v>> = <<u, v>>
  <1> DEFINE S == {u, v}
             s == <<u>> \o <<v>>
             t == <<u, v>>
  <1>1. s \in Seq(S) /\ t \in Seq(S) /\ Len(s) = 2 /\ Len(t) = 2
    OBVIOUS
  <1>2. \A i \in 1 .. 2 : s[i] = t[i]
    OBVIOUS
  <1> HIDE DEF s, t, S
  <1>3. s = t
    BY <1>1, <1>2, SeqEqual
  <1> QED
    BY <1>3 DEF s, t

LEMMA DoArgs ==
  ASSUME NEW a \in CommandNames \ {"repoint", "source"}, NEW Z
  PROVE  Do(a) \in Args(Z) /\ Do(a).do = a
  BY DEF Do, Args, Commands

\* What a refresh issues: it restores, repoints, and saves.
LEMMA RefreshListed ==
  ASSUME SettingsOK, NEW x, x \in Machines, addr \in [Uplinks -> Addresses], NEW p \in {"running", "stopping"}
  PROVE  LET e == resolveDefaultEgress(x)
         IN  \/ refreshEgress(x) = x
             \/ e # None /\ \E s, N :
                  /\ refreshEgress(x) = Then(x, s) /\ Listed(p, s, N, {e.src})
                  /\ N \subseteq InLoop \ (AtEnd \cup {"refresh"}) /\ {"unsnat", "repoint"} \subseteq N
                  /\ ~cfg.skip => {"unrp", "loosen"} \subseteq N
                  /\ cfg.skip => "loosen" \notin N
                  /\ IF x.m.cap = "ports" THEN "into_tun" \notin N ELSE "ctab" \notin N
  <1> DEFINE e == resolveDefaultEgress(x)
             Z == {e.src}
             c == [do |-> "repoint", dev |-> e.dev, src |-> e.src]
             n == <<"tear", "save", "flush", "btab">>
             a1 == IF cfg.skip THEN <<>> ELSE <<Do("unrp")>>
             a2 == <<Do("unsnat")>>
             a3 == <<c>>
             a4 == IF cfg.skip THEN <<>> ELSE <<Do("loosen")>>
             a5 == Steps(n)
             a6 == Steps(Captures(x))
             N1 == IF cfg.skip THEN {} ELSE {"unrp"}
             N4 == IF cfg.skip THEN {} ELSE {"loosen"}
             N6 == IF x.m.cap = "ports" THEN {"ctab"} ELSE {"into_tun"}
             s == a1 \o (a2 \o a3) \o a4 \o a5 \o a6
             N == N1 \cup ({"unsnat"} \cup {"repoint"}) \cup N4 \cup {"tear", "save", "flush", "btab"} \cup N6
  <1>1. SUFFICES ASSUME e # None, refreshEgress(x) # x
                 PROVE  \E t, M :
                  /\ refreshEgress(x) = Then(x, t) /\ Listed(p, t, M, {e.src})
                  /\ M \subseteq InLoop \ (AtEnd \cup {"refresh"}) /\ {"unsnat", "repoint"} \subseteq M
                  /\ ~cfg.skip => {"unrp", "loosen"} \subseteq M
                  /\ cfg.skip => "loosen" \notin M
                  /\ IF x.m.cap = "ports" THEN "into_tun" \notin M ELSE "ctab" \notin M
    BY DEF refreshEgress
  <1>2. e.dev \in Uplinks /\ e.src \in Addresses /\ e.src # None
    BY <1>1, EgressIs, TunDistinct
  <1>3. refreshEgress(x) = Then(x, s)
    <2>1. refreshEgress(x) = Then(x, RefreshSteps(e) \o Steps(Captures(x)))
      BY <1>1 DEF refreshEgress
    <2>2. a2 \o a3 = <<Do("unsnat"), c>>
      BY Pair
    <2>3. RefreshSteps(e) = a1 \o <<Do("unsnat"), c>> \o a4 \o a5
      BY DEF RefreshSteps
    <2> HIDE DEF a1, a2, a3, a4, a5, a6, e
    <2> QED
      BY <2>1, <2>2, <2>3 DEF a6
  <1>4. {"unrp", "unsnat", "loosen"} \subseteq CommandNames \ {"repoint", "source"} /\ "repoint" \in CommandNames
    BY DEF CommandNames, InLoop
  <1>5. Listed(p, a1, N1, Z)
    <2>1. CASE cfg.skip
      BY <2>1, ListedNone
    <2>2. CASE ~cfg.skip
      <3>1. Do("unrp") \in Args(Z) /\ Do("unrp").do = "unrp"
        BY <1>4, DoArgs
      <3>2. Listed(p, <<Do("unrp")>>, {Do("unrp").do}, Z)
        BY <3>1, ListedOne
      <3> QED
        BY <2>2, <3>1, <3>2
    <2> QED
      BY <2>1, <2>2
  <1>6. Listed(p, a4, N4, Z)
    <2>1. CASE cfg.skip
      BY <2>1, ListedNone
    <2>2. CASE ~cfg.skip
      <3>1. Do("loosen") \in Args(Z) /\ Do("loosen").do = "loosen"
        BY <1>4, DoArgs
      <3>2. Listed(p, <<Do("loosen")>>, {Do("loosen").do}, Z)
        BY <3>1, ListedOne
      <3> QED
        BY <2>2, <3>1, <3>2
    <2> QED
      BY <2>1, <2>2
  <1>7. Listed(p, a2, {"unsnat"}, Z)
    <2>1. Do("unsnat") \in Args(Z) /\ Do("unsnat").do = "unsnat"
      BY <1>4, DoArgs
    <2> QED
      BY <2>1, ListedOne
  <1>8. Listed(p, a3, {"repoint"}, Z)
    <2>1. c \in Args(Z) /\ c.do = "repoint"
      BY <1>2, <1>4 DEF Args, Commands
    <2> QED
      BY <2>1, ListedOne
  <1>9. Listed(p, a5, {"tear", "save", "flush", "btab"}, Z)
    <2>1. n \in Seq(CommandNames) /\ {n[i] : i \in DOMAIN n} = {"tear", "save", "flush", "btab"}
          /\ \A i, j \in DOMAIN n : i < j => ~NeverThenInLoop(n[i], n[j])
      BY SaveNames
    <2> HIDE DEF n
    <2>2. \A i, j \in DOMAIN n : i < j => ~Excluded(p, n[i], n[j])
      BY <2>1, ExcludedIs
    <2> QED
      BY <2>1, <2>2, ListedSteps
  <1>10. Listed(p, a6, N6, Z)
    BY CapturesListed
  <1>11. /\ \A a \in {"unsnat"}, b \in {"repoint"} : ~Excluded(p, a, b)
         /\ \A a \in N1, b \in {"unsnat"} \cup {"repoint"} : ~Excluded(p, a, b)
         /\ \A a \in N1 \cup ({"unsnat"} \cup {"repoint"}), b \in N4 : ~Excluded(p, a, b)
         /\ \A a \in N1 \cup ({"unsnat"} \cup {"repoint"}) \cup N4,
               b \in {"tear", "save", "flush", "btab"} \cup N6 : ~Excluded(p, a, b)
         /\ \A a \in {"tear", "save", "flush", "btab"}, b \in N6 : ~Excluded(p, a, b)
    BY ExcludedIs DEF NeverThenInLoop
  <1>12. Listed(p, s, N, Z)
    <2> HIDE DEF a1, a2, a3, a4, a5, a6, N1, N4, N6, Z
    <2>1. Listed(p, a2 \o a3, {"unsnat"} \cup {"repoint"}, Z)
      BY <1>7, <1>8, <1>11, ListedJoined
    <2>2. Listed(p, a1 \o (a2 \o a3), N1 \cup ({"unsnat"} \cup {"repoint"}), Z)
      BY <1>5, <1>11, <2>1, ListedJoined
    <2>3. Listed(p, a1 \o (a2 \o a3) \o a4, N1 \cup ({"unsnat"} \cup {"repoint"}) \cup N4, Z)
      BY <1>6, <1>11, <2>2, ListedJoined
    <2>4. Listed(p, a1 \o (a2 \o a3) \o a4 \o a5,
                 N1 \cup ({"unsnat"} \cup {"repoint"}) \cup N4 \cup {"tear", "save", "flush", "btab"}, Z)
      BY <1>9, <1>11, <2>3, ListedJoined
    <2> QED
      BY <1>10, <1>11, <2>4, ListedJoined
  <1>13. N \subseteq InLoop \ (AtEnd \cup {"refresh"})
    BY DEF InLoop, AtEnd
  <1> HIDE DEF s, e
  <1> QED
    BY <1>3, <1>12, <1>13

\* What a new source issues.
LEMMA ResourceListed ==
  ASSUME SettingsOK, NEW x, x \in Machines, addr \in [Uplinks -> Addresses], x.m.out \in Uplinks,
         NEW p \in {"running", "stopping"}
  PROVE  \/ refreshSource(x) = x
         \/ \E a \in Addresses : \E s, N :
                  /\ a = addr[x.m.out] \/ (a = resolveDefaultEgress(x).src /\ resolveDefaultEgress(x) # None)
                  /\ refreshSource(x) = Then(x, s) /\ Listed(p, s, N, {a})
                  /\ N \subseteq InLoop \ (AtEnd \cup {"refresh", "unrp", "repoint", "loosen"})
                  /\ {"unsnat", "source"} \subseteq N
                  /\ IF x.m.cap = "ports" THEN "into_tun" \notin N ELSE "ctab" \notin N
  <1> DEFINE e == resolveDefaultEgress(x)
             a == IF cfg.pin = None /\ e # None THEN e.src ELSE addr[x.m.out]
             Z == {a}
             c == [do |-> "source", dev |-> None, src |-> a]
             a1 == <<Do("unsnat")>>
             a2 == <<c>>
             a3 == Steps(Captures(x))
             N3 == IF x.m.cap = "ports" THEN {"ctab"} ELSE {"into_tun"}
             s == (a1 \o a2) \o a3
             N == {"unsnat"} \cup {"source"} \cup N3
  <1>1. a \in Addresses /\ a # None /\ (a = addr[x.m.out] \/ (a = e.src /\ e # None))
    <2>1. e = None \/ e.src \in Addresses
      BY EgressIs
    <2>2. None \notin Addresses /\ addr[x.m.out] \in Addresses
      BY TunDistinct
    <2> HIDE DEF e
    <2> QED
      BY <2>1, <2>2
  <1>2. refreshSource(x) = x \/ refreshSource(x) = Then(x, s)
    <2>1. a1 \o a2 = <<Do("unsnat"), c>>
      BY Pair
    <2>2. refreshSource(x) = x \/ refreshSource(x) = Then(x, <<Do("unsnat"), c>> \o a3)
      BY DEF refreshSource
    <2> QED
      BY <2>1, <2>2
  <1>3. "unsnat" \in CommandNames \ {"repoint", "source"} /\ "source" \in CommandNames
    BY DEF CommandNames, InLoop
  <1>4. Listed(p, a1, {"unsnat"}, Z)
    <2>1. Do("unsnat") \in Args(Z) /\ Do("unsnat").do = "unsnat"
      BY <1>3, DoArgs
    <2> QED
      BY <2>1, ListedOne
  <1>5. Listed(p, a2, {"source"}, Z)
    <2>1. c \in Args(Z) /\ c.do = "source"
      BY <1>1, <1>3 DEF Args, Commands
    <2> QED
      BY <2>1, ListedOne
  <1>6. Listed(p, a3, N3, Z)
    BY CapturesListed
  <1>7. /\ \A d \in {"unsnat"}, b \in {"source"} : ~Excluded(p, d, b)
        /\ \A d \in {"unsnat"} \cup {"source"}, b \in N3 : ~Excluded(p, d, b)
    BY ExcludedIs DEF NeverThenInLoop
  <1>8. Listed(p, s, N, Z)
    <2> HIDE DEF a1, a2, a3, N3, Z
    <2>1. Listed(p, a1 \o a2, {"unsnat"} \cup {"source"}, Z)
      BY <1>4, <1>5, <1>7, ListedJoined
    <2> QED
      BY <1>6, <1>7, <2>1, ListedJoined
  <1>9. N \subseteq InLoop \ (AtEnd \cup {"refresh", "unrp", "repoint", "loosen"})
    BY DEF InLoop, AtEnd
  <1> HIDE DEF s, a, e
  <1> QED
    BY <1>1, <1>2, <1>8, <1>9 DEF e

LEMMA RunIs ==
  ASSUME NEW s, NEW x
  PROVE  /\ s.do = "restore" => Run(s, x) = readStateFile(x)
         /\ s.do = "undo_route" => Run(s, x) = RestoreFromState(x)
         /\ s.do = "undo_rp" => Run(s, x) = RestoreRPFromState(x)
         /\ s.do = "forget" => Run(s, x) = removeStateFile(x)
         /\ s.do = "open" => Run(s, x) = Opened(x)
         /\ s.do = "setup" => Run(s, x) = setup(x)
         /\ s.do = "loosen" => Run(s, x) = loosenRPFilter(x)
         /\ s.do = "forward" => Run(s, x) = applyForwarding(x)
         /\ s.do = "snat" => Run(s, x) = ensureSNAT(x)
         /\ s.do = "notrack" => Run(s, x) = installNotrack(x, "reinject")
         /\ s.do = "client_notrack" => Run(s, x) = installNotrack(x, "client")
         /\ s.do = "mode" => Run(s, x) = InMode(x, cfg.capture)
         /\ s.do = "tear" => Run(s, x) = writeStateFileTruncates(x)
         /\ s.do = "save" => Run(s, x) = saveState(x)
         /\ s.do = "bypass" => Run(s, x) = setupBypassTable(x)
         /\ s.do = "btab" => Run(s, x) = addBypassDefault(x)
         /\ s.do = "flush" => Run(s, x) = flushBypassTable(x)
         /\ s.do = "unmark" => Run(s, x) = delFwmarkRule(x)
         /\ s.do = "crule" => Run(s, x) = setupCaptureTable(x)
         /\ s.do = "ctab" => Run(s, x) = replaceCaptureDefault(x)
         /\ s.do = "chain" => Run(s, x) = ensureCaptureChain(x)
         /\ s.do = "fill" => Run(s, x) = rebuildCaptureChain(x)
         /\ s.do = "jumps" => Run(s, x) = ensureCaptureJumps(x)
         /\ s.do = "captured" => Run(s, x) = setupPortCapture(x)
         /\ s.do = "into_tun" => Run(s, x) = replaceDefaultIntoTun(x)
         /\ s.do = "teardown" => Run(s, x) = teardown(x)
         /\ s.do = "fail" => Run(s, x) = teardown(x)
         /\ s.do = "unchain" => Run(s, x) = removeCaptureRules(x)
         /\ s.do = "uncapture" => Run(s, x) = teardownPortCapture(x)
         /\ s.do = "undefault" => Run(s, x) = ReplaceDefault(x, x.m.saved)
         /\ s.do = "link_del" => Run(s, x) = DeviceGone(x)
         /\ s.do = "unforward" => Run(s, x) = teardownForwarding(x)
         /\ s.do = "unnat" => Run(s, x) = teardownNAT(x)
         /\ s.do = "unrp" => Run(s, x) = restoreRPFilter(x)
         /\ s.do = "unsnat" => Run(s, x) = removeSNAT(x)
         /\ s.do = "refresh" => Run(s, x) = refreshEgress(x)
         /\ s.do = "repoint" => Run(s, x) = repoint(x, s)
         /\ s.do = "resource" => Run(s, x) = refreshSource(x)
         /\ s.do = "source" => Run(s, x) = FromSource(x, s.src)
         /\ s.do = "renotrack" => Run(s, x) = ensureNotrack(x)
         /\ s.do = "rebypass" => Run(s, x) = ensureBypass(x)
         /\ s.do = "recapture" => Run(s, x) = ensurePortCapture(x)
         /\ s.do = "redefault" => Run(s, x) = ensureDefaultCapture(x)
         /\ s.do = "stale_chains" => Run(s, x) = ClearStaleChains(x)
         /\ s.do = "stale_nat" => Run(s, x) = clearTunSNAT(x)
         /\ s.do = "stale_tables" => Run(s, x) = clearOwnedRoutingTable(x)
  BY DEF Run, Opened, InMode, FromSource

(* A command is taken *)

Taken(a) == SettingsOK /\ Basics /\ Step /\ Head(w.pc).do = a

SameAround == cfg' = cfg /\ wan' = wan /\ addr' = addr /\ sets' = sets /\ left' = left

LEMMA TakenIs ==
  ASSUME NEW a, Taken(a)
  PROVE  LET y == [w EXCEPT !.pc = Tail(@)]
             h == Head(w.pc)
         IN  /\ w' = Run(h, y) /\ h \in Commands /\ h.do = a
             /\ y \in Machines /\ y.pc = Tail(w.pc)
             /\ y.main = w.main /\ y.rp = w.rp /\ y.k = w.k /\ y.file = w.file /\ y.m = w.m /\ y.warned = w.warned
             /\ w \in Machines /\ w.k \in Kernels /\ w.m \in Managers /\ w.pc # <<>> /\ w.pc \in Seq(Commands)
             /\ Coming(w) = {a} \cup Coming(y) /\ a \in Issued(phase)
             /\ InOrder(phase, y.pc) /\ \A b \in Coming(y) : ~Excluded(phase, a, b)
             /\ SameAround /\ (a # "fail" => phase' = phase)
  <1> DEFINE y == [w EXCEPT !.pc = Tail(@)]
             h == Head(w.pc)
  <1>1. w \in Machines /\ w.pc # <<>> /\ h.do = a /\ w' = Run(h, y) /\ Coming(w) \subseteq Issued(phase)
        /\ InOrder(phase, w.pc) /\ SameAround /\ (a # "fail" => phase' = phase)
    BY DEF Taken, Basics, TunTypes, Sequenced, Step, SameAround
  <1>2. h \in Commands /\ y \in Machines
        /\ y.main = w.main /\ y.rp = w.rp /\ y.k = w.k /\ y.file = w.file /\ y.m = w.m /\ y.warned = w.warned
        /\ Coming(w) = {h.do} \cup Coming(y)
    BY <1>1, Popped
  <1>3. InOrder(phase, y.pc) /\ \A b \in Coming(y) : ~Excluded(phase, h.do, b)
    BY <1>1, OrderPopped
  <1>4. y.pc = Tail(w.pc)
    BY <1>1 DEF Machines
  <1>5. w.k \in Kernels /\ w.m \in Managers /\ w.pc \in Seq(Commands)
    BY <1>1, MachineFields
  <1> HIDE DEF y, h
  <1>6. /\ w' = Run(h, y) /\ h \in Commands /\ h.do = a
        /\ y \in Machines /\ y.pc = Tail(w.pc)
        /\ y.main = w.main /\ y.rp = w.rp /\ y.k = w.k /\ y.file = w.file /\ y.m = w.m /\ y.warned = w.warned
        /\ w \in Machines /\ w.k \in Kernels /\ w.m \in Managers /\ w.pc # <<>> /\ w.pc \in Seq(Commands)
        /\ Coming(w) = {a} \cup Coming(y) /\ a \in Issued(phase)
        /\ InOrder(phase, y.pc) /\ \A b \in Coming(y) : ~Excluded(phase, a, b)
        /\ SameAround /\ (a # "fail" => phase' = phase)
    BY <1>1, <1>2, <1>3, <1>4, <1>5
  <1> QED
    BY <1>6 DEF y, h

\* The rest is kept in order.
LEMMA TakenQuietly ==
  ASSUME NEW a, Taken(a), w'.pc = Tail(w.pc)
  PROVE  /\ Coming(w) = {a} \cup Coming(w') /\ a \in Issued(phase) /\ SameAround /\ (a # "fail" => phase' = phase)
         /\ InOrder(phase, w'.pc) /\ \A b \in Coming(w') : ~Excluded(phase, a, b)
         /\ \A i \in DOMAIN w'.pc : i + 1 \in DOMAIN w.pc /\ w'.pc[i] = w.pc[i + 1]
  <1> DEFINE y == [w EXCEPT !.pc = Tail(@)]
  <1>1. /\ y.pc = Tail(w.pc)
        /\ Coming(w) = {a} \cup Coming(y) /\ a \in Issued(phase)
        /\ InOrder(phase, y.pc) /\ \A b \in Coming(y) : ~Excluded(phase, a, b)
        /\ SameAround /\ (a # "fail" => phase' = phase)
    BY TakenIs
  <1>2. \A i \in DOMAIN y.pc : i + 1 \in DOMAIN w.pc /\ y.pc[i] = w.pc[i + 1]
    <2>1. w \in Machines /\ w.pc # <<>>
      BY TakenIs
    <2> QED
      BY <2>1, Popped
  <1> HIDE DEF y
  <1>3. Coming(w') = Coming(y)
    BY <1>1 DEF Coming
  <1> QED
    BY <1>1, <1>2, <1>3

Silent == w' \in Machines /\ w'.pc = Tail(w.pc)

SameRoutes == w'.main = w.main /\ w'.k.dev = w.k.dev /\ w'.m.out = w.m.out /\ w'.m.cap = w.m.cap
              /\ w'.m.saved = w.m.saved

LEMMA IssuedIs ==
  /\ Issued("starting") = InRestore \cup {"open", "setup", "fail"} \cup InSetup
  /\ Issued("clearing") = InRestore \cup {"stale_chains", "stale_nat", "stale_tables"}
  /\ Issued("running") = InLoop /\ Issued("stopping") = InLoop
  /\ Issued("tearing") = InTeardown \cup {"teardown"}
  /\ Issued("failing") = InTeardown
  /\ \A p \in {"stopped", "failed", "dead", "cleared"} : Issued(p) = {}
  BY DEF Issued

\* A command that leaves the routes and the manager's uplink alone.
LEMMA QuietTypes ==
  ASSUME NEW a, Taken(a), Silent, a # "fail"
  PROVE  TunTypes' /\ Sequenced'
  <1>1. SameAround /\ phase' = phase /\ Coming(w) = {a} \cup Coming(w') /\ InOrder(phase, w'.pc)
    BY TakenQuietly DEF Silent
  <1>2. TunTypes /\ Sequenced
    BY DEF Taken, Basics
  <1>3. Coming(w') \subseteq Issued(phase')
    BY <1>1, <1>2 DEF Sequenced
  <1> QED
    BY <1>1, <1>2, <1>3 DEF TunTypes, Sequenced, SameAround, Silent

LEMMA QuietPrepared ==
  ASSUME NEW a, Taken(a), Silent, a # "fail"
  PROVE  Prepared'
  <1>1. SameAround /\ phase' = phase /\ Coming(w) = {a} \cup Coming(w') /\ a \in Issued(phase)
        /\ \A b \in Coming(w') : ~Excluded(phase, a, b)
    BY TakenQuietly DEF Silent
  <1>2. Prepared
    BY DEF Taken, Basics
  <1>3. ASSUME phase = "starting"
        PROVE  /\ \A b \in InRestore \cup {"open"} : b \in Coming(w') => "setup" \in Coming(w')
               /\ "tear" \in Coming(w') => "save" \in Coming(w')
               /\ \A b \in {"crule", "ctab", "chain", "fill", "jumps"} : b \in Coming(w') => "captured" \in Coming(w')
    <2>1. \A b \in Coming(w') : ~NeverThen(a, b)
      BY <1>1, <1>3, ExcludedIs
    <2>2. a \in {"setup", "captured"} => Coming(w') = {}
      BY <2>1 DEF NeverThen
    <2>3. a = "save" => "tear" \notin Coming(w')
      BY <2>1 DEF NeverThen
    <2> QED
      BY <1>1, <1>2, <1>3, <2>2, <2>3 DEF Prepared, Needs
  <1>4. phase \in {"running", "stopping"} => w'.pc \in Seq(Args(Addresses))
    <2>1. w.pc # <<>>
      BY TakenIs
    <2> QED
      BY <1>2, <2>1 DEF Prepared, Silent
  <1> QED
    BY <1>1, <1>2, <1>3, <1>4 DEF Prepared, Needs, SameAround

LEMMA QuietBasics ==
  ASSUME NEW a, Taken(a), Silent, SameRoutes, a \notin {"fail", "setup", "mode"},
         w'.file = w.file \/ a \in {"tear", "save", "forget"}
  PROVE  Basics'
  <1>1. SameAround /\ phase' = phase /\ Coming(w) = {a} \cup Coming(w') /\ a \in Issued(phase) /\ w.pc # <<>>
    BY TakenQuietly, TakenIs DEF Silent
  <1>2. Managed /\ TunTypes
    BY DEF Taken, Basics
  <1>3. Begun' <=> Begun
    BY <1>1 DEF Begun
  <1>4. Coming(w') \cap {"undo_route", "undo_rp"} # {} => w'.file \in Files
    <2>1. CASE w'.file = w.file
      BY <1>1, <1>2, <2>1 DEF Managed
    <2>2. CASE a \in {"tear", "save", "forget"}
      <3>1. phase \in {"starting", "clearing"} => \A b \in Coming(w') : ~NeverThen(a, b)
        BY ExcludedIs, TakenQuietly DEF Silent
      <3>2. phase \in {"starting", "clearing"} => Coming(w') \cap {"undo_route", "undo_rp"} = {}
        BY <2>2, <3>1 DEF NeverThen
      <3>3. phase \notin {"starting", "clearing"} => Issued(phase) \cap {"undo_route", "undo_rp"} = {}
        BY <1>2, IssuedIs DEF InLoop, InTeardown, TunTypes, Phases
      <3>4. Coming(w) \subseteq Issued(phase)
        BY DEF Taken, Basics, Sequenced
      <3> QED
        BY <1>1, <3>2, <3>3, <3>4
    <2> QED
      BY <2>1, <2>2
  <1>5. Managed'
    BY <1>1, <1>2, <1>3, <1>4 DEF Managed, SameRoutes, SameAround
  <1> QED
    BY <1>5, QuietTypes, QuietPrepared DEF Basics

(* What each command changes, field by field *)

NatSame == w'.k.fwd = w.k.fwd /\ w'.k.snat = w.k.snat /\ w'.k.notrack = w.k.notrack

BypassSame == w'.k.brule = w.k.brule /\ w'.k.btab = w.k.btab

CaptureSame == w'.k.crule = w.k.crule /\ w'.k.ctab = w.k.ctab /\ w'.k.chain = w.k.chain /\ w'.k.gate = w.k.gate /\ w'.k.jumps = w.k.jumps

UplinkSame == w'.m.out = w.m.out /\ w'.m.src = w.m.src /\ w'.m.saved = w.m.saved /\ w'.m.cap = w.m.cap

UndoSame == w'.m.rp = w.m.rp /\ w'.m.fwd = w.m.fwd /\ w'.m.snat = w.m.snat /\ w'.m.notrack = w.m.notrack

RestSame == w'.main = w.main /\ w'.rp = w.rp /\ w'.file = w.file /\ w'.warned = w.warned

LEMMA BtabStep ==
  ASSUME Taken("btab")
  PROVE  /\ Silent /\ NatSame /\ w'.k.brule = w.k.brule /\ w'.k.btab = w.m.out /\ CaptureSame /\ UplinkSame
         /\ UndoSame /\ RestSame /\ w'.k.dev = w.k.dev /\ w'.m.rules = w.m.rules
  <1> DEFINE y == [w EXCEPT !.pc = Tail(@)]
             h == Head(w.pc)
  <1>1. /\ w' = Run(h, y) /\ h.do = "btab" /\ y \in Machines /\ y.pc = Tail(w.pc) /\ h \in Commands
        /\ y.main = w.main /\ y.rp = w.rp /\ y.k = w.k /\ y.file = w.file /\ y.m = w.m /\ y.warned = w.warned
        /\ w.k \in Kernels /\ w.m \in Managers
    BY TakenIs
  <1> HIDE DEF y, h
  <1>2. w' = addBypassDefault(y)
    BY <1>1, RunIs
  <1>3. OnlyKernel(w', y) /\ w'.k = [y.k EXCEPT !.btab = y.m.out]
    BY <1>1, <1>2, AddBypassDefaultDoes
  <1> QED
    BY <1>1, <1>3 DEF Silent, OnlyKernel, OnlyManager, OnlyBoth, OnlyFile, OnlyFilter, Kernels, Managers,
                      NatSame, BypassSame, CaptureSame, UplinkSame, UndoSame, RestSame

LEMMA FlushStep ==
  ASSUME Taken("flush")
  PROVE  /\ Silent /\ NatSame /\ w'.k.brule = w.k.brule /\ w'.k.btab = None /\ CaptureSame /\ UplinkSame
         /\ UndoSame /\ RestSame /\ w'.k.dev = w.k.dev /\ w'.m.rules = w.m.rules
  <1> DEFINE y == [w EXCEPT !.pc = Tail(@)]
             h == Head(w.pc)
  <1>1. /\ w' = Run(h, y) /\ h.do = "flush" /\ y \in Machines /\ y.pc = Tail(w.pc) /\ h \in Commands
        /\ y.main = w.main /\ y.rp = w.rp /\ y.k = w.k /\ y.file = w.file /\ y.m = w.m /\ y.warned = w.warned
        /\ w.k \in Kernels /\ w.m \in Managers
    BY TakenIs
  <1> HIDE DEF y, h
  <1>2. w' = flushBypassTable(y)
    BY <1>1, RunIs
  <1>3. OnlyKernel(w', y) /\ w'.k = [y.k EXCEPT !.btab = None]
    BY <1>1, <1>2, FlushBypassTableDoes
  <1> QED
    BY <1>1, <1>3 DEF Silent, OnlyKernel, OnlyManager, OnlyBoth, OnlyFile, OnlyFilter, Kernels, Managers,
                      NatSame, BypassSame, CaptureSame, UplinkSame, UndoSame, RestSame

LEMMA UnmarkStep ==
  ASSUME Taken("unmark")
  PROVE  /\ Silent /\ NatSame /\ w'.k.brule = FALSE /\ w'.k.btab = w.k.btab /\ CaptureSame /\ UplinkSame
         /\ UndoSame /\ RestSame /\ w'.k.dev = w.k.dev /\ w'.m.rules = w.m.rules
  <1> DEFINE y == [w EXCEPT !.pc = Tail(@)]
             h == Head(w.pc)
  <1>1. /\ w' = Run(h, y) /\ h.do = "unmark" /\ y \in Machines /\ y.pc = Tail(w.pc) /\ h \in Commands
        /\ y.main = w.main /\ y.rp = w.rp /\ y.k = w.k /\ y.file = w.file /\ y.m = w.m /\ y.warned = w.warned
        /\ w.k \in Kernels /\ w.m \in Managers
    BY TakenIs
  <1> HIDE DEF y, h
  <1>2. w' = delFwmarkRule(y)
    BY <1>1, RunIs
  <1>3. OnlyKernel(w', y) /\ w'.k = [y.k EXCEPT !.brule = FALSE]
    BY <1>1, <1>2, DelFwmarkRuleDoes
  <1> QED
    BY <1>1, <1>3 DEF Silent, OnlyKernel, OnlyManager, OnlyBoth, OnlyFile, OnlyFilter, Kernels, Managers,
                      NatSame, BypassSame, CaptureSame, UplinkSame, UndoSame, RestSame

LEMMA CruleStep ==
  ASSUME Taken("crule")
  PROVE  /\ Silent /\ NatSame /\ BypassSame /\ w'.k.crule = TRUE /\ w'.k.ctab = w.k.ctab
         /\ w'.k.chain = w.k.chain /\ w'.k.gate = w.k.gate /\ w'.k.jumps = w.k.jumps /\ UplinkSame /\ UndoSame
         /\ RestSame /\ w'.k.dev = w.k.dev /\ w'.m.rules = w.m.rules
  <1> DEFINE y == [w EXCEPT !.pc = Tail(@)]
             h == Head(w.pc)
  <1>1. /\ w' = Run(h, y) /\ h.do = "crule" /\ y \in Machines /\ y.pc = Tail(w.pc) /\ h \in Commands
        /\ y.main = w.main /\ y.rp = w.rp /\ y.k = w.k /\ y.file = w.file /\ y.m = w.m /\ y.warned = w.warned
        /\ w.k \in Kernels /\ w.m \in Managers
    BY TakenIs
  <1> HIDE DEF y, h
  <1>2. w' = setupCaptureTable(y)
    BY <1>1, RunIs
  <1>3. OnlyKernel(w', y) /\ w'.k = [y.k EXCEPT !.crule = TRUE]
    BY <1>1, <1>2, SetupCaptureTableDoes
  <1> QED
    BY <1>1, <1>3 DEF Silent, OnlyKernel, OnlyManager, OnlyBoth, OnlyFile, OnlyFilter, Kernels, Managers,
                      NatSame, BypassSame, CaptureSame, UplinkSame, UndoSame, RestSame

LEMMA ChainStep ==
  ASSUME Taken("chain")
  PROVE  /\ Silent /\ NatSame /\ BypassSame /\ w'.k.crule = w.k.crule /\ w'.k.ctab = w.k.ctab
         /\ w'.k.gate = w.k.gate /\ w'.k.jumps = w.k.jumps /\ UplinkSame /\ UndoSame /\ RestSame
         /\ w'.k.dev = w.k.dev /\ w'.m.rules = w.m.rules
  <1> DEFINE y == [w EXCEPT !.pc = Tail(@)]
             h == Head(w.pc)
  <1>1. /\ w' = Run(h, y) /\ h.do = "chain" /\ y \in Machines /\ y.pc = Tail(w.pc) /\ h \in Commands
        /\ y.main = w.main /\ y.rp = w.rp /\ y.k = w.k /\ y.file = w.file /\ y.m = w.m /\ y.warned = w.warned
        /\ w.k \in Kernels /\ w.m \in Managers
    BY TakenIs
  <1> HIDE DEF y, h
  <1>2. w' = ensureCaptureChain(y)
    BY <1>1, RunIs
  <1>3. OnlyKernel(w', y) /\ w'.k = [y.k EXCEPT !.chain = IF y.k.chain = None THEN Empty ELSE y.k.chain]
    BY <1>1, <1>2, EnsureCaptureChainDoes
  <1> QED
    BY <1>1, <1>3 DEF Silent, OnlyKernel, OnlyManager, OnlyBoth, OnlyFile, OnlyFilter, Kernels, Managers,
                      NatSame, BypassSame, CaptureSame, UplinkSame, UndoSame, RestSame

LEMMA UnchainStep ==
  ASSUME Taken("unchain")
  PROVE  /\ Silent /\ NatSame /\ BypassSame /\ w'.k.crule = w.k.crule /\ w'.k.ctab = w.k.ctab
         /\ w'.k.chain = None /\ w'.k.gate = FALSE /\ w'.k.jumps = {} /\ UplinkSame /\ UndoSame /\ RestSame
         /\ w'.k.dev = w.k.dev /\ w'.m.rules = w.m.rules
  <1> DEFINE y == [w EXCEPT !.pc = Tail(@)]
             h == Head(w.pc)
  <1>1. /\ w' = Run(h, y) /\ h.do = "unchain" /\ y \in Machines /\ y.pc = Tail(w.pc) /\ h \in Commands
        /\ y.main = w.main /\ y.rp = w.rp /\ y.k = w.k /\ y.file = w.file /\ y.m = w.m /\ y.warned = w.warned
        /\ w.k \in Kernels /\ w.m \in Managers
    BY TakenIs
  <1> HIDE DEF y, h
  <1>2. w' = removeCaptureRules(y)
    BY <1>1, RunIs
  <1>3. OnlyKernel(w', y) /\ w'.k = [y.k EXCEPT !.jumps = {}, !.gate = FALSE, !.chain = None]
    BY <1>1, <1>2, RemoveCaptureRulesDoes
  <1> QED
    BY <1>1, <1>3 DEF Silent, OnlyKernel, OnlyManager, OnlyBoth, OnlyFile, OnlyFilter, Kernels, Managers,
                      NatSame, BypassSame, CaptureSame, UplinkSame, UndoSame, RestSame

LEMMA RenotrackStep ==
  ASSUME Taken("renotrack")
  PROVE  /\ Silent /\ w'.k.fwd = w.k.fwd /\ w'.k.snat = w.k.snat /\ w'.k.notrack = w.k.notrack \cup w.m.notrack
         /\ BypassSame /\ CaptureSame /\ UplinkSame /\ UndoSame /\ RestSame /\ w'.k.dev = w.k.dev
         /\ w'.m.rules = w.m.rules
  <1> DEFINE y == [w EXCEPT !.pc = Tail(@)]
             h == Head(w.pc)
  <1>1. /\ w' = Run(h, y) /\ h.do = "renotrack" /\ y \in Machines /\ y.pc = Tail(w.pc) /\ h \in Commands
        /\ y.main = w.main /\ y.rp = w.rp /\ y.k = w.k /\ y.file = w.file /\ y.m = w.m /\ y.warned = w.warned
        /\ w.k \in Kernels /\ w.m \in Managers
    BY TakenIs
  <1> HIDE DEF y, h
  <1>2. w' = ensureNotrack(y)
    BY <1>1, RunIs
  <1>3. OnlyKernel(w', y) /\ w'.k = [y.k EXCEPT !.notrack = y.k.notrack \cup y.m.notrack]
    BY <1>1, <1>2, EnsureNotrackDoes
  <1> QED
    BY <1>1, <1>3 DEF Silent, OnlyKernel, OnlyManager, OnlyBoth, OnlyFile, OnlyFilter, Kernels, Managers,
                      NatSame, BypassSame, CaptureSame, UplinkSame, UndoSame, RestSame

LEMMA RebypassStep ==
  ASSUME Taken("rebypass")
  PROVE  /\ Silent /\ NatSame /\ w'.k.brule = TRUE /\ CaptureSame /\ UplinkSame /\ UndoSame /\ RestSame
         /\ w'.k.dev = w.k.dev /\ w'.m.rules = w.m.rules
  <1> DEFINE y == [w EXCEPT !.pc = Tail(@)]
             h == Head(w.pc)
  <1>1. /\ w' = Run(h, y) /\ h.do = "rebypass" /\ y \in Machines /\ y.pc = Tail(w.pc) /\ h \in Commands
        /\ y.main = w.main /\ y.rp = w.rp /\ y.k = w.k /\ y.file = w.file /\ y.m = w.m /\ y.warned = w.warned
        /\ w.k \in Kernels /\ w.m \in Managers
    BY TakenIs
  <1> HIDE DEF y, h
  <1>2. w' = ensureBypass(y)
    BY <1>1, RunIs
  <1>3. OnlyKernel(w', y) /\ w'.k = [y.k EXCEPT !.brule = TRUE, !.btab = IF y.k.btab = None THEN y.m.out ELSE y.k.btab]
    BY <1>1, <1>2, EnsureBypassDoes
  <1> QED
    BY <1>1, <1>3 DEF Silent, OnlyKernel, OnlyManager, OnlyBoth, OnlyFile, OnlyFilter, Kernels, Managers,
                      NatSame, BypassSame, CaptureSame, UplinkSame, UndoSame, RestSame

LEMMA StaleChainsStep ==
  ASSUME Taken("stale_chains")
  PROVE  /\ Silent /\ w'.k.fwd = w.k.fwd /\ w'.k.snat = w.k.snat /\ w'.k.notrack = w.k.notrack \ {"reinject"}
         /\ BypassSame /\ w'.k.crule = w.k.crule /\ w'.k.ctab = w.k.ctab /\ w'.k.chain = None
         /\ w'.k.gate = FALSE /\ w'.k.jumps = {} /\ UplinkSame /\ UndoSame /\ RestSame /\ w'.k.dev = w.k.dev
         /\ w'.m.rules = w.m.rules
  <1> DEFINE y == [w EXCEPT !.pc = Tail(@)]
             h == Head(w.pc)
  <1>1. /\ w' = Run(h, y) /\ h.do = "stale_chains" /\ y \in Machines /\ y.pc = Tail(w.pc) /\ h \in Commands
        /\ y.main = w.main /\ y.rp = w.rp /\ y.k = w.k /\ y.file = w.file /\ y.m = w.m /\ y.warned = w.warned
        /\ w.k \in Kernels /\ w.m \in Managers
    BY TakenIs
  <1> HIDE DEF y, h
  <1>2. w' = ClearStaleChains(y)
    BY <1>1, RunIs
  <1>3. OnlyKernel(w', y) /\ w'.k = [y.k EXCEPT !.jumps = {}, !.gate = FALSE, !.chain = None, !.notrack = y.k.notrack \ {"reinject"}]
    BY <1>1, <1>2, ClearStaleChainsDoes
  <1> QED
    BY <1>1, <1>3 DEF Silent, OnlyKernel, OnlyManager, OnlyBoth, OnlyFile, OnlyFilter, Kernels, Managers,
                      NatSame, BypassSame, CaptureSame, UplinkSame, UndoSame, RestSame

LEMMA StaleNatStep ==
  ASSUME Taken("stale_nat")
  PROVE  /\ Silent /\ w'.k.fwd = FALSE /\ w'.k.snat = {} /\ w'.k.notrack = w.k.notrack /\ BypassSame
         /\ CaptureSame /\ UplinkSame /\ UndoSame /\ RestSame /\ w'.k.dev = w.k.dev /\ w'.m.rules = w.m.rules
  <1> DEFINE y == [w EXCEPT !.pc = Tail(@)]
             h == Head(w.pc)
  <1>1. /\ w' = Run(h, y) /\ h.do = "stale_nat" /\ y \in Machines /\ y.pc = Tail(w.pc) /\ h \in Commands
        /\ y.main = w.main /\ y.rp = w.rp /\ y.k = w.k /\ y.file = w.file /\ y.m = w.m /\ y.warned = w.warned
        /\ w.k \in Kernels /\ w.m \in Managers
    BY TakenIs
  <1> HIDE DEF y, h
  <1>2. w' = clearTunSNAT(y)
    BY <1>1, RunIs
  <1>3. OnlyKernel(w', y) /\ w'.k = [y.k EXCEPT !.fwd = FALSE, !.snat = {}]
    BY <1>1, <1>2, ClearTunSNATDoes
  <1> QED
    BY <1>1, <1>3 DEF Silent, OnlyKernel, OnlyManager, OnlyBoth, OnlyFile, OnlyFilter, Kernels, Managers,
                      NatSame, BypassSame, CaptureSame, UplinkSame, UndoSame, RestSame

LEMMA StaleTablesStep ==
  ASSUME Taken("stale_tables")
  PROVE  /\ Silent /\ NatSame /\ w'.k.brule = FALSE /\ w'.k.btab = (IF w.k.brule THEN None ELSE w.k.btab)
         /\ w'.k.crule = FALSE /\ w'.k.ctab = (IF w.k.crule THEN None ELSE w.k.ctab) /\ w'.k.chain = w.k.chain
         /\ w'.k.gate = w.k.gate /\ w'.k.jumps = w.k.jumps /\ UplinkSame /\ UndoSame /\ RestSame
         /\ w'.k.dev = w.k.dev /\ w'.m.rules = w.m.rules
  <1> DEFINE y == [w EXCEPT !.pc = Tail(@)]
             h == Head(w.pc)
  <1>1. /\ w' = Run(h, y) /\ h.do = "stale_tables" /\ y \in Machines /\ y.pc = Tail(w.pc) /\ h \in Commands
        /\ y.main = w.main /\ y.rp = w.rp /\ y.k = w.k /\ y.file = w.file /\ y.m = w.m /\ y.warned = w.warned
        /\ w.k \in Kernels /\ w.m \in Managers
    BY TakenIs
  <1> HIDE DEF y, h
  <1>2. w' = clearOwnedRoutingTable(y)
    BY <1>1, RunIs
  <1>3. OnlyKernel(w', y) /\ w'.k = [y.k EXCEPT !.crule = FALSE, !.ctab = IF y.k.crule THEN None ELSE y.k.ctab,
                       !.brule = FALSE, !.btab = IF y.k.brule THEN None ELSE y.k.btab]
    BY <1>1, <1>2, ClearOwnedRoutingTableDoes
  <1> QED
    BY <1>1, <1>3 DEF Silent, OnlyKernel, OnlyManager, OnlyBoth, OnlyFile, OnlyFilter, Kernels, Managers,
                      NatSame, BypassSame, CaptureSame, UplinkSame, UndoSame, RestSame

LEMMA JumpsStep ==
  ASSUME Taken("jumps")
  PROVE  /\ Silent /\ NatSame /\ BypassSame /\ w'.k.crule = w.k.crule /\ w'.k.ctab = w.k.ctab
         /\ w'.k.chain = w.k.chain /\ UplinkSame /\ UndoSame /\ RestSame /\ w'.k.dev = w.k.dev
         /\ w'.m.rules = w.m.rules
  <1> DEFINE y == [w EXCEPT !.pc = Tail(@)]
             h == Head(w.pc)
  <1>1. /\ w' = Run(h, y) /\ h.do = "jumps" /\ y \in Machines /\ y.pc = Tail(w.pc) /\ h \in Commands
        /\ y.main = w.main /\ y.rp = w.rp /\ y.k = w.k /\ y.file = w.file /\ y.m = w.m /\ y.warned = w.warned
        /\ w.k \in Kernels /\ w.m \in Managers
    BY TakenIs
  <1> HIDE DEF y, h
  <1>2. w' = ensureCaptureJumps(y)
    BY <1>1, RunIs
  <1>3. OnlyKernel(ensureCaptureJumps(y), y) /\ ensureCaptureJumps(y).k = [y.k EXCEPT !.gate = ensureCaptureJumps(y).k.gate, !.jumps = ensureCaptureJumps(y).k.jumps]
    BY <1>1, EnsureCaptureJumpsDoes
  <1>4. PICK g, j : ensureCaptureJumps(y).k = [y.k EXCEPT !.gate = g, !.jumps = j]
    BY <1>3
  <1>5. OnlyKernel(ensureCaptureJumps(y), y)
    BY <1>3
  <1> DEFINE z == ensureCaptureJumps(y)
  <1> HIDE DEF z
  <1>6. z.k = [y.k EXCEPT !.gate = g, !.jumps = j] /\ OnlyKernel(z, y) /\ w' = z
    BY <1>2, <1>4, <1>5 DEF z
  <1>7. z.k.fwd = y.k.fwd /\ z.k.snat = y.k.snat /\ z.k.notrack = y.k.notrack /\ z.k.brule = y.k.brule /\ z.k.btab = y.k.btab /\ z.k.crule = y.k.crule /\ z.k.ctab = y.k.ctab /\ z.k.chain = y.k.chain /\ z.k.dev = y.k.dev
    BY <1>1, <1>6 DEF Kernels
  <1>8. z.m.out = y.m.out /\ z.m.src = y.m.src /\ z.m.saved = y.m.saved /\ z.m.cap = y.m.cap /\ z.m.rp = y.m.rp /\ z.m.fwd = y.m.fwd /\ z.m.snat = y.m.snat /\ z.m.notrack = y.m.notrack /\ z.m.rules = y.m.rules
    BY <1>1, <1>6 DEF Managers, OnlyKernel
  <1>10. OnlyKernel(z, y) /\ w' = z
    BY <1>6
  <1> QED
    BY <1>1, <1>7, <1>8, <1>10 DEF Silent, OnlyKernel, OnlyManager, OnlyBoth, OnlyFile, OnlyFilter,
                      NatSame, BypassSame, CaptureSame, UplinkSame, UndoSame, RestSame

LEMMA UnforwardStep ==
  ASSUME Taken("unforward")
  PROVE  /\ Silent /\ w'.k.fwd = (IF w.m.fwd THEN FALSE ELSE w.k.fwd) /\ w'.k.snat = w.k.snat
         /\ w'.k.notrack = w.k.notrack /\ BypassSame /\ CaptureSame /\ UplinkSame /\ UndoSame /\ RestSame
         /\ w'.k.dev = w.k.dev /\ w'.m.rules = w.m.rules
  <1> DEFINE y == [w EXCEPT !.pc = Tail(@)]
             h == Head(w.pc)
  <1>1. /\ w' = Run(h, y) /\ h.do = "unforward" /\ y \in Machines /\ y.pc = Tail(w.pc) /\ h \in Commands
        /\ y.main = w.main /\ y.rp = w.rp /\ y.k = w.k /\ y.file = w.file /\ y.m = w.m /\ y.warned = w.warned
        /\ w.k \in Kernels /\ w.m \in Managers
    BY TakenIs
  <1> HIDE DEF y, h
  <1>2. w' = teardownForwarding(y)
    BY <1>1, RunIs
  <1>3. OnlyKernel(w', y) /\ w'.k = [y.k EXCEPT !.fwd = IF y.m.fwd THEN FALSE ELSE y.k.fwd]
    BY <1>1, <1>2, TeardownForwardingDoes
  <1> QED
    BY <1>1, <1>3 DEF Silent, OnlyKernel, OnlyManager, OnlyBoth, OnlyFile, OnlyFilter, Kernels, Managers,
                      NatSame, BypassSame, CaptureSame, UplinkSame, UndoSame, RestSame

LEMMA CapturedStep ==
  ASSUME Taken("captured")
  PROVE  /\ Silent /\ NatSame /\ BypassSame /\ CaptureSame /\ UplinkSame /\ UndoSame /\ RestSame
         /\ w'.k.dev = w.k.dev /\ w'.m.rules = TRUE
  <1> DEFINE y == [w EXCEPT !.pc = Tail(@)]
             h == Head(w.pc)
  <1>1. /\ w' = Run(h, y) /\ h.do = "captured" /\ y \in Machines /\ y.pc = Tail(w.pc) /\ h \in Commands
        /\ y.main = w.main /\ y.rp = w.rp /\ y.k = w.k /\ y.file = w.file /\ y.m = w.m /\ y.warned = w.warned
        /\ w.k \in Kernels /\ w.m \in Managers
    BY TakenIs
  <1> HIDE DEF y, h
  <1>2. w' = setupPortCapture(y)
    BY <1>1, RunIs
  <1>3. OnlyManager(w', y) /\ w'.m = [y.m EXCEPT !.rules = TRUE]
    BY <1>1, <1>2, SetupPortCaptureDoes
  <1> QED
    BY <1>1, <1>3 DEF Silent, OnlyKernel, OnlyManager, OnlyBoth, OnlyFile, OnlyFilter, Kernels, Managers,
                      NatSame, BypassSame, CaptureSame, UplinkSame, UndoSame, RestSame

LEMMA ForwardStep ==
  ASSUME Taken("forward")
  PROVE  /\ Silent /\ w'.k.fwd = TRUE /\ w'.k.snat = w.k.snat /\ w'.k.notrack = w.k.notrack /\ BypassSame
         /\ CaptureSame /\ UplinkSame /\ w'.m.rp = w.m.rp /\ w'.m.fwd = TRUE /\ w'.m.snat = w.m.snat
         /\ w'.m.notrack = w.m.notrack /\ RestSame /\ w'.k.dev = w.k.dev /\ w'.m.rules = w.m.rules
  <1> DEFINE y == [w EXCEPT !.pc = Tail(@)]
             h == Head(w.pc)
  <1>1. /\ w' = Run(h, y) /\ h.do = "forward" /\ y \in Machines /\ y.pc = Tail(w.pc) /\ h \in Commands
        /\ y.main = w.main /\ y.rp = w.rp /\ y.k = w.k /\ y.file = w.file /\ y.m = w.m /\ y.warned = w.warned
        /\ w.k \in Kernels /\ w.m \in Managers
    BY TakenIs
  <1> HIDE DEF y, h
  <1>2. w' = applyForwarding(y)
    BY <1>1, RunIs
  <1>3. OnlyBoth(w', y) /\ w'.k = [y.k EXCEPT !.fwd = TRUE] /\ w'.m = [y.m EXCEPT !.fwd = TRUE]
    BY <1>1, <1>2, ApplyForwardingDoes
  <1> QED
    BY <1>1, <1>3 DEF Silent, OnlyKernel, OnlyManager, OnlyBoth, OnlyFile, OnlyFilter, Kernels, Managers,
                      NatSame, BypassSame, CaptureSame, UplinkSame, UndoSame, RestSame

LEMMA FillStep ==
  ASSUME Taken("fill")
  PROVE  /\ Silent /\ NatSame /\ BypassSame /\ w'.k.crule = w.k.crule /\ w'.k.ctab = w.k.ctab
         /\ w'.k.gate = w.k.gate /\ w'.k.jumps = w.k.jumps /\ UplinkSame /\ UndoSame /\ RestSame
         /\ w'.k.dev = w.k.dev /\ w'.m.rules = w.m.rules
  <1> DEFINE y == [w EXCEPT !.pc = Tail(@)]
             h == Head(w.pc)
  <1>1. /\ w' = Run(h, y) /\ h.do = "fill" /\ y \in Machines /\ y.pc = Tail(w.pc) /\ h \in Commands
        /\ y.main = w.main /\ y.rp = w.rp /\ y.k = w.k /\ y.file = w.file /\ y.m = w.m /\ y.warned = w.warned
        /\ w.k \in Kernels /\ w.m \in Managers
    BY TakenIs
  <1> HIDE DEF y, h
  <1>2. w' = rebuildCaptureChain(y)
    BY <1>1, RunIs
  <1>9. sets \in 0..1
    BY DEF Taken, Basics, TunTypes
  <1>3. OnlyBoth(w', y) /\ w'.k = [y.k EXCEPT !.chain = sets] /\ w'.m = [y.m EXCEPT !.excl = sets]
    BY <1>1, <1>2, <1>9, RebuildCaptureChainDoes
  <1> QED
    BY <1>1, <1>3 DEF Silent, OnlyKernel, OnlyManager, OnlyBoth, OnlyFile, OnlyFilter, Kernels, Managers,
                      NatSame, BypassSame, CaptureSame, UplinkSame, UndoSame, RestSame

LEMMA UncaptureStep ==
  ASSUME Taken("uncapture")
  PROVE  /\ Silent /\ NatSame /\ BypassSame /\ w'.k.crule = FALSE /\ w'.k.ctab = None /\ w'.k.chain = w.k.chain
         /\ w'.k.gate = w.k.gate /\ w'.k.jumps = w.k.jumps /\ UplinkSame /\ UndoSame /\ RestSame
         /\ w'.k.dev = w.k.dev /\ w'.m.rules = FALSE
  <1> DEFINE y == [w EXCEPT !.pc = Tail(@)]
             h == Head(w.pc)
  <1>1. /\ w' = Run(h, y) /\ h.do = "uncapture" /\ y \in Machines /\ y.pc = Tail(w.pc) /\ h \in Commands
        /\ y.main = w.main /\ y.rp = w.rp /\ y.k = w.k /\ y.file = w.file /\ y.m = w.m /\ y.warned = w.warned
        /\ w.k \in Kernels /\ w.m \in Managers
    BY TakenIs
  <1> HIDE DEF y, h
  <1>2. w' = teardownPortCapture(y)
    BY <1>1, RunIs
  <1>3. OnlyBoth(w', y) /\ w'.k = [y.k EXCEPT !.crule = FALSE, !.ctab = None] /\ w'.m = [y.m EXCEPT !.rules = FALSE]
    BY <1>1, <1>2, TeardownPortCaptureDoes
  <1> QED
    BY <1>1, <1>3 DEF Silent, OnlyKernel, OnlyManager, OnlyBoth, OnlyFile, OnlyFilter, Kernels, Managers,
                      NatSame, BypassSame, CaptureSame, UplinkSame, UndoSame, RestSame

LEMMA NotrackStep ==
  ASSUME Taken("notrack")
  PROVE  /\ Silent /\ w'.k.fwd = w.k.fwd /\ w'.k.snat = w.k.snat /\ w'.k.notrack = w.k.notrack \cup {"reinject"}
         /\ BypassSame /\ CaptureSame /\ UplinkSame /\ w'.m.rp = w.m.rp /\ w'.m.fwd = w.m.fwd
         /\ w'.m.snat = w.m.snat /\ w'.m.notrack = w.m.notrack \cup {"reinject"} /\ RestSame
         /\ w'.k.dev = w.k.dev /\ w'.m.rules = w.m.rules
  <1> DEFINE y == [w EXCEPT !.pc = Tail(@)]
             h == Head(w.pc)
  <1>1. /\ w' = Run(h, y) /\ h.do = "notrack" /\ y \in Machines /\ y.pc = Tail(w.pc) /\ h \in Commands
        /\ y.main = w.main /\ y.rp = w.rp /\ y.k = w.k /\ y.file = w.file /\ y.m = w.m /\ y.warned = w.warned
        /\ w.k \in Kernels /\ w.m \in Managers
    BY TakenIs
  <1> HIDE DEF y, h
  <1>2. w' = installNotrack(y, "reinject")
    BY <1>1, RunIs
  <1>3. OnlyBoth(w', y) /\ w'.k = [y.k EXCEPT !.notrack = y.k.notrack \cup {"reinject"}]
        /\ w'.m = [y.m EXCEPT !.notrack = y.m.notrack \cup {"reinject"}]
    BY <1>1, <1>2, InstallNotrackDoes
  <1> QED
    BY <1>1, <1>3 DEF Silent, OnlyKernel, OnlyManager, OnlyBoth, OnlyFile, OnlyFilter, Kernels, Managers,
                      NatSame, BypassSame, CaptureSame, UplinkSame, UndoSame, RestSame

LEMMA ClientNotrackStep ==
  ASSUME Taken("client_notrack")
  PROVE  /\ Silent /\ w'.k.fwd = w.k.fwd /\ w'.k.snat = w.k.snat /\ w'.k.notrack = w.k.notrack \cup {"client"}
         /\ BypassSame /\ CaptureSame /\ UplinkSame /\ w'.m.rp = w.m.rp /\ w'.m.fwd = w.m.fwd
         /\ w'.m.snat = w.m.snat /\ w'.m.notrack = w.m.notrack \cup {"client"} /\ RestSame /\ w'.k.dev = w.k.dev
         /\ w'.m.rules = w.m.rules
  <1> DEFINE y == [w EXCEPT !.pc = Tail(@)]
             h == Head(w.pc)
  <1>1. /\ w' = Run(h, y) /\ h.do = "client_notrack" /\ y \in Machines /\ y.pc = Tail(w.pc) /\ h \in Commands
        /\ y.main = w.main /\ y.rp = w.rp /\ y.k = w.k /\ y.file = w.file /\ y.m = w.m /\ y.warned = w.warned
        /\ w.k \in Kernels /\ w.m \in Managers
    BY TakenIs
  <1> HIDE DEF y, h
  <1>2. w' = installNotrack(y, "client")
    BY <1>1, RunIs
  <1>3. OnlyBoth(w', y) /\ w'.k = [y.k EXCEPT !.notrack = y.k.notrack \cup {"client"}]
        /\ w'.m = [y.m EXCEPT !.notrack = y.m.notrack \cup {"client"}]
    BY <1>1, <1>2, InstallNotrackDoes
  <1> QED
    BY <1>1, <1>3 DEF Silent, OnlyKernel, OnlyManager, OnlyBoth, OnlyFile, OnlyFilter, Kernels, Managers,
                      NatSame, BypassSame, CaptureSame, UplinkSame, UndoSame, RestSame

LEMMA SnatStep ==
  ASSUME Taken("snat")
  PROVE  /\ Silent /\ w'.k.fwd = w.k.fwd /\ w'.k.notrack = w.k.notrack /\ BypassSame /\ CaptureSame /\ UplinkSame
         /\ w'.m.rp = w.m.rp /\ w'.m.fwd = w.m.fwd /\ w'.m.notrack = w.m.notrack /\ RestSame
         /\ w'.k.dev = w.k.dev /\ w'.m.rules = w.m.rules
         /\ ((w'.m.snat = w.m.snat /\ w'.k.snat = w.k.snat) \/ (w'.m.snat = TRUE /\ w'.k.snat = w.k.snat \cup {w.m.src}))
  <1> DEFINE y == [w EXCEPT !.pc = Tail(@)]
             h == Head(w.pc)
  <1>1. /\ w' = Run(h, y) /\ h.do = "snat" /\ y \in Machines /\ y.pc = Tail(w.pc) /\ h \in Commands
        /\ y.main = w.main /\ y.rp = w.rp /\ y.k = w.k /\ y.file = w.file /\ y.m = w.m /\ y.warned = w.warned
        /\ w.k \in Kernels /\ w.m \in Managers
    BY TakenIs
  <1> HIDE DEF y, h
  <1>2. w' = ensureSNAT(y)
    BY <1>1, RunIs
  <1>3. OnlyBoth(ensureSNAT(y), y) /\ ensureSNAT(y).k = [y.k EXCEPT !.snat = ensureSNAT(y).k.snat] /\ ensureSNAT(y).m = [y.m EXCEPT !.snat = ensureSNAT(y).m.snat]
        /\ (ensureSNAT(y) = y \/ (ensureSNAT(y).m.snat = TRUE /\ ensureSNAT(y).k.snat = y.k.snat \cup {y.m.src}))
    BY <1>1, EnsureSNATDoes
  <1>4. PICK g, j : ensureSNAT(y).k = [y.k EXCEPT !.snat = g] /\ ensureSNAT(y).m = [y.m EXCEPT !.snat = j]
    BY <1>3
  <1>5. OnlyBoth(ensureSNAT(y), y) /\ (ensureSNAT(y) = y \/ (ensureSNAT(y).m.snat = TRUE /\ ensureSNAT(y).k.snat = y.k.snat \cup {y.m.src}))
    BY <1>3
  <1> DEFINE z == ensureSNAT(y)
  <1> HIDE DEF z
  <1>6. z.k = [y.k EXCEPT !.snat = g] /\ z.m = [y.m EXCEPT !.snat = j] /\ OnlyBoth(z, y) /\ (z = y \/ (z.m.snat = TRUE /\ z.k.snat = y.k.snat \cup {y.m.src})) /\ w' = z
    BY <1>2, <1>4, <1>5 DEF z
  <1>7. z.k.fwd = y.k.fwd /\ z.k.notrack = y.k.notrack /\ z.k.brule = y.k.brule /\ z.k.btab = y.k.btab /\ z.k.crule = y.k.crule /\ z.k.ctab = y.k.ctab /\ z.k.chain = y.k.chain /\ z.k.gate = y.k.gate /\ z.k.jumps = y.k.jumps /\ z.k.dev = y.k.dev
    BY <1>1, <1>6 DEF Kernels
  <1>8. z.m.out = y.m.out /\ z.m.src = y.m.src /\ z.m.saved = y.m.saved /\ z.m.cap = y.m.cap /\ z.m.rp = y.m.rp /\ z.m.fwd = y.m.fwd /\ z.m.notrack = y.m.notrack /\ z.m.rules = y.m.rules
    BY <1>1, <1>6 DEF Managers, OnlyKernel
  <1>10. OnlyBoth(z, y) /\ (z = y \/ (z.m.snat = TRUE /\ z.k.snat = y.k.snat \cup {y.m.src})) /\ w' = z
    BY <1>6
  <1> QED
    BY <1>1, <1>7, <1>8, <1>10 DEF Silent, OnlyKernel, OnlyManager, OnlyBoth, OnlyFile, OnlyFilter,
                      NatSame, BypassSame, CaptureSame, UplinkSame, UndoSame, RestSame

LEMMA UnsnatStep ==
  ASSUME Taken("unsnat")
  PROVE  /\ Silent /\ w'.k.fwd = w.k.fwd /\ w'.k.notrack = w.k.notrack /\ BypassSame /\ CaptureSame /\ UplinkSame
         /\ w'.m.rp = w.m.rp /\ w'.m.fwd = w.m.fwd /\ w'.m.notrack = w.m.notrack /\ RestSame
         /\ w'.k.dev = w.k.dev /\ w'.m.rules = w.m.rules
         /\ ((w'.m.snat = w.m.snat /\ w'.k.snat = w.k.snat /\ (~w.m.snat \/ w.m.src = None)) \/ (w'.m.snat = FALSE /\ w'.k.snat = w.k.snat \ {w.m.src}))
  <1> DEFINE y == [w EXCEPT !.pc = Tail(@)]
             h == Head(w.pc)
  <1>1. /\ w' = Run(h, y) /\ h.do = "unsnat" /\ y \in Machines /\ y.pc = Tail(w.pc) /\ h \in Commands
        /\ y.main = w.main /\ y.rp = w.rp /\ y.k = w.k /\ y.file = w.file /\ y.m = w.m /\ y.warned = w.warned
        /\ w.k \in Kernels /\ w.m \in Managers
    BY TakenIs
  <1> HIDE DEF y, h
  <1>2. w' = removeSNAT(y)
    BY <1>1, RunIs
  <1>3. OnlyBoth(removeSNAT(y), y) /\ removeSNAT(y).k = [y.k EXCEPT !.snat = removeSNAT(y).k.snat] /\ removeSNAT(y).m = [y.m EXCEPT !.snat = removeSNAT(y).m.snat]
        /\ ((removeSNAT(y) = y /\ (~y.m.snat \/ y.m.src = None)) \/ (removeSNAT(y).m.snat = FALSE /\ removeSNAT(y).k.snat = y.k.snat \ {y.m.src}))
    BY <1>1, RemoveSNATDoes
  <1>4. PICK g, j : removeSNAT(y).k = [y.k EXCEPT !.snat = g] /\ removeSNAT(y).m = [y.m EXCEPT !.snat = j]
    BY <1>3
  <1>5. OnlyBoth(removeSNAT(y), y) /\ ((removeSNAT(y) = y /\ (~y.m.snat \/ y.m.src = None)) \/ (removeSNAT(y).m.snat = FALSE /\ removeSNAT(y).k.snat = y.k.snat \ {y.m.src}))
    BY <1>3
  <1> DEFINE z == removeSNAT(y)
  <1> HIDE DEF z
  <1>6. z.k = [y.k EXCEPT !.snat = g] /\ z.m = [y.m EXCEPT !.snat = j] /\ OnlyBoth(z, y) /\ ((z = y /\ (~y.m.snat \/ y.m.src = None)) \/ (z.m.snat = FALSE /\ z.k.snat = y.k.snat \ {y.m.src})) /\ w' = z
    BY <1>2, <1>4, <1>5 DEF z
  <1>7. z.k.fwd = y.k.fwd /\ z.k.notrack = y.k.notrack /\ z.k.brule = y.k.brule /\ z.k.btab = y.k.btab /\ z.k.crule = y.k.crule /\ z.k.ctab = y.k.ctab /\ z.k.chain = y.k.chain /\ z.k.gate = y.k.gate /\ z.k.jumps = y.k.jumps /\ z.k.dev = y.k.dev
    BY <1>1, <1>6 DEF Kernels
  <1>8. z.m.out = y.m.out /\ z.m.src = y.m.src /\ z.m.saved = y.m.saved /\ z.m.cap = y.m.cap /\ z.m.rp = y.m.rp /\ z.m.fwd = y.m.fwd /\ z.m.notrack = y.m.notrack /\ z.m.rules = y.m.rules
    BY <1>1, <1>6 DEF Managers, OnlyKernel
  <1>10. OnlyBoth(z, y) /\ ((z = y /\ (~y.m.snat \/ y.m.src = None)) \/ (z.m.snat = FALSE /\ z.k.snat = y.k.snat \ {y.m.src})) /\ w' = z
    BY <1>6
  <1> QED
    BY <1>1, <1>7, <1>8, <1>10 DEF Silent, OnlyKernel, OnlyManager, OnlyBoth, OnlyFile, OnlyFilter,
                      NatSame, BypassSame, CaptureSame, UplinkSame, UndoSame, RestSame

LEMMA UnnatStep ==
  ASSUME Taken("unnat")
  PROVE  /\ Silent /\ w'.k.fwd = w.k.fwd /\ w'.k.notrack = w.k.notrack \ w.m.notrack /\ BypassSame /\ CaptureSame
         /\ UplinkSame /\ w'.m.rp = w.m.rp /\ w'.m.fwd = w.m.fwd /\ w'.m.notrack = {} /\ RestSame
         /\ w'.k.dev = w.k.dev /\ w'.m.rules = w.m.rules
         /\ ((w'.m.snat = w.m.snat /\ w'.k.snat = w.k.snat /\ (~w.m.snat \/ w.m.src = None)) \/ (w'.m.snat = FALSE /\ w'.k.snat = w.k.snat \ {w.m.src}))
  <1> DEFINE y == [w EXCEPT !.pc = Tail(@)]
             h == Head(w.pc)
  <1>1. /\ w' = Run(h, y) /\ h.do = "unnat" /\ y \in Machines /\ y.pc = Tail(w.pc) /\ h \in Commands
        /\ y.main = w.main /\ y.rp = w.rp /\ y.k = w.k /\ y.file = w.file /\ y.m = w.m /\ y.warned = w.warned
        /\ w.k \in Kernels /\ w.m \in Managers
    BY TakenIs
  <1> HIDE DEF y, h
  <1>2. w' = teardownNAT(y)
    BY <1>1, RunIs
  <1>3. OnlyBoth(teardownNAT(y), y) /\ teardownNAT(y).k = [y.k EXCEPT !.snat = teardownNAT(y).k.snat, !.notrack = y.k.notrack \ y.m.notrack]
        /\ teardownNAT(y).m = [y.m EXCEPT !.snat = teardownNAT(y).m.snat, !.notrack = {}]
        /\ ((teardownNAT(y).k.snat = y.k.snat /\ teardownNAT(y).m.snat = y.m.snat /\ (~y.m.snat \/ y.m.src = None))
            \/ (teardownNAT(y).m.snat = FALSE /\ teardownNAT(y).k.snat = y.k.snat \ {y.m.src}))
    BY <1>1, TeardownNATDoes
  <1>4. PICK g, j : teardownNAT(y).k = [y.k EXCEPT !.snat = g, !.notrack = y.k.notrack \ y.m.notrack]
        /\ teardownNAT(y).m = [y.m EXCEPT !.snat = j, !.notrack = {}]
    BY <1>3
  <1>5. OnlyBoth(teardownNAT(y), y) /\ ((teardownNAT(y).k.snat = y.k.snat /\ teardownNAT(y).m.snat = y.m.snat /\ (~y.m.snat \/ y.m.src = None))
        \/ (teardownNAT(y).m.snat = FALSE /\ teardownNAT(y).k.snat = y.k.snat \ {y.m.src}))
    BY <1>3
  <1> DEFINE z == teardownNAT(y)
  <1> HIDE DEF z
  <1>6. z.k = [y.k EXCEPT !.snat = g, !.notrack = y.k.notrack \ y.m.notrack]
        /\ z.m = [y.m EXCEPT !.snat = j, !.notrack = {}] /\ OnlyBoth(z, y) /\ ((z.k.snat = y.k.snat /\ z.m.snat = y.m.snat /\ (~y.m.snat \/ y.m.src = None))
        \/ (z.m.snat = FALSE /\ z.k.snat = y.k.snat \ {y.m.src})) /\ w' = z
    BY <1>2, <1>4, <1>5 DEF z
  <1>7. z.k.fwd = y.k.fwd /\ z.k.brule = y.k.brule /\ z.k.btab = y.k.btab /\ z.k.crule = y.k.crule /\ z.k.ctab = y.k.ctab /\ z.k.chain = y.k.chain /\ z.k.gate = y.k.gate /\ z.k.jumps = y.k.jumps /\ z.k.dev = y.k.dev
    BY <1>1, <1>6 DEF Kernels
  <1>8. z.m.out = y.m.out /\ z.m.src = y.m.src /\ z.m.saved = y.m.saved /\ z.m.cap = y.m.cap /\ z.m.rp = y.m.rp /\ z.m.fwd = y.m.fwd /\ z.m.rules = y.m.rules
    BY <1>1, <1>6 DEF Managers, OnlyKernel
  <1>9. z.k.notrack = y.k.notrack \ y.m.notrack /\ z.m.notrack = {}
    BY <1>1, <1>6 DEF Kernels, Managers
  <1>10. OnlyBoth(z, y) /\ ((z.k.snat = y.k.snat /\ z.m.snat = y.m.snat /\ (~y.m.snat \/ y.m.src = None))
        \/ (z.m.snat = FALSE /\ z.k.snat = y.k.snat \ {y.m.src})) /\ w' = z
    BY <1>6
  <1> QED
    BY <1>1, <1>7, <1>8, <1>9, <1>10 DEF Silent, OnlyKernel, OnlyManager, OnlyBoth, OnlyFile, OnlyFilter,
                      NatSame, BypassSame, CaptureSame, UplinkSame, UndoSame, RestSame

LEMMA TearStep ==
  ASSUME Taken("tear")
  PROVE  /\ Silent /\ NatSame /\ BypassSame /\ CaptureSame /\ UplinkSame /\ UndoSame /\ w'.main = w.main
         /\ w'.rp = w.rp /\ w'.file = Torn /\ w'.warned = w.warned /\ w'.k.dev = w.k.dev
         /\ w'.m.rules = w.m.rules
  <1> DEFINE y == [w EXCEPT !.pc = Tail(@)]
             h == Head(w.pc)
  <1>1. /\ w' = Run(h, y) /\ h.do = "tear" /\ y \in Machines /\ y.pc = Tail(w.pc) /\ h \in Commands
        /\ y.main = w.main /\ y.rp = w.rp /\ y.k = w.k /\ y.file = w.file /\ y.m = w.m /\ y.warned = w.warned
        /\ w.k \in Kernels /\ w.m \in Managers
    BY TakenIs
  <1> HIDE DEF y, h
  <1>2. w' = writeStateFileTruncates(y)
    BY <1>1, RunIs
  <1>3. OnlyFile(w', y) /\ w'.file = Torn
    BY <1>1, <1>2, FileCommandsDo
  <1> QED
    BY <1>1, <1>3 DEF Silent, OnlyKernel, OnlyManager, OnlyBoth, OnlyFile, OnlyFilter, Kernels, Managers,
                      NatSame, BypassSame, CaptureSame, UplinkSame, UndoSame, RestSame

LEMMA ForgetStep ==
  ASSUME Taken("forget")
  PROVE  /\ Silent /\ NatSame /\ BypassSame /\ CaptureSame /\ UplinkSame /\ UndoSame /\ w'.main = w.main
         /\ w'.rp = w.rp /\ w'.file = None /\ w'.warned = w.warned /\ w'.k.dev = w.k.dev
         /\ w'.m.rules = w.m.rules
  <1> DEFINE y == [w EXCEPT !.pc = Tail(@)]
             h == Head(w.pc)
  <1>1. /\ w' = Run(h, y) /\ h.do = "forget" /\ y \in Machines /\ y.pc = Tail(w.pc) /\ h \in Commands
        /\ y.main = w.main /\ y.rp = w.rp /\ y.k = w.k /\ y.file = w.file /\ y.m = w.m /\ y.warned = w.warned
        /\ w.k \in Kernels /\ w.m \in Managers
    BY TakenIs
  <1> HIDE DEF y, h
  <1>2. w' = removeStateFile(y)
    BY <1>1, RunIs
  <1>3. OnlyFile(w', y) /\ w'.file = None
    BY <1>1, <1>2, FileCommandsDo
  <1> QED
    BY <1>1, <1>3 DEF Silent, OnlyKernel, OnlyManager, OnlyBoth, OnlyFile, OnlyFilter, Kernels, Managers,
                      NatSame, BypassSame, CaptureSame, UplinkSame, UndoSame, RestSame

LEMMA SaveStep ==
  ASSUME Taken("save")
  PROVE  /\ Silent /\ NatSame /\ BypassSame /\ CaptureSame /\ UplinkSame /\ UndoSame /\ w'.main = w.main
         /\ w'.rp = w.rp /\ w'.warned = w.warned /\ w'.k.dev = w.k.dev /\ w'.m.rules = w.m.rules
         /\ w'.file \in Files /\ w'.file.cap = w.m.cap /\ w'.file.saved = w.m.saved
  <1> DEFINE y == [w EXCEPT !.pc = Tail(@)]
             h == Head(w.pc)
  <1>1. /\ w' = Run(h, y) /\ h.do = "save" /\ y \in Machines /\ y.pc = Tail(w.pc) /\ h \in Commands
        /\ y.main = w.main /\ y.rp = w.rp /\ y.k = w.k /\ y.file = w.file /\ y.m = w.m /\ y.warned = w.warned
        /\ w.k \in Kernels /\ w.m \in Managers
    BY TakenIs
  <1> HIDE DEF y, h
  <1>2. w' = saveState(y)
    BY <1>1, RunIs
  <1>3. OnlyFile(w', y) /\ w'.file \in Files /\ w'.file.cap = y.m.cap /\ w'.file.saved = y.m.saved
    BY <1>1, <1>2, FileCommandsDo
  <1> QED
    BY <1>1, <1>3 DEF Silent, OnlyKernel, OnlyManager, OnlyBoth, OnlyFile, OnlyFilter, Kernels, Managers,
                      NatSame, BypassSame, CaptureSame, UplinkSame, UndoSame, RestSame

LEMMA UnrpStep ==
  ASSUME Taken("unrp")
  PROVE  /\ Silent /\ NatSame /\ BypassSame /\ CaptureSame /\ UplinkSame /\ UndoSame /\ w'.main = w.main
         /\ w'.file = w.file /\ w'.warned = w.warned /\ w'.k.dev = w.k.dev /\ w'.m.rules = w.m.rules
         /\ ((w'.rp = w.rp /\ w.m.rp = None) \/ (w'.rp = [w.rp EXCEPT ![w.m.out] = w.m.rp]))
  <1> DEFINE y == [w EXCEPT !.pc = Tail(@)]
             h == Head(w.pc)
  <1>1. /\ w' = Run(h, y) /\ h.do = "unrp" /\ y \in Machines /\ y.pc = Tail(w.pc) /\ h \in Commands
        /\ y.main = w.main /\ y.rp = w.rp /\ y.k = w.k /\ y.file = w.file /\ y.m = w.m /\ y.warned = w.warned
        /\ w.k \in Kernels /\ w.m \in Managers
    BY TakenIs
  <1> HIDE DEF y, h
  <1>2. w' = restoreRPFilter(y)
    BY <1>1, RunIs
  <1>3. (w' = y /\ y.m.rp = None) \/ (OnlyFilter(w', y) /\ w'.rp = [y.rp EXCEPT ![y.m.out] = y.m.rp])
    BY <1>1, <1>2, RestoreRPDoes
  <1> QED
    BY <1>1, <1>3 DEF Silent, OnlyKernel, OnlyManager, OnlyBoth, OnlyFile, OnlyFilter, Kernels, Managers,
                      NatSame, BypassSame, CaptureSame, UplinkSame, UndoSame, RestSame

(* Commands that issue others *)

\* Command a issued those of N, before the others, R.
Issues(a, p, N, Z, R) ==
  /\ Coming(w) = {a} \cup R /\ Coming(w') = N \cup R /\ w' \in Machines
  /\ \A b \in R : ~Excluded(phase, a, b)
  /\ w'.main = w.main /\ w'.rp = w.rp /\ w'.k = w.k /\ w'.file = w.file /\ w'.m = w.m
  /\ w'.warned = w.warned
  /\ (p = phase \/ R = {}) /\ (\A n \in N, b \in R : ~Excluded(p, n, b)) => InOrder(p, w'.pc)
  /\ \A i \in DOMAIN w'.pc : w'.pc[i] \in Args(Z) \/ \E j \in DOMAIN w.pc : w'.pc[i] = w.pc[j]

LEMMA TakenThen ==
  ASSUME NEW a, Taken(a), NEW s, NEW p, NEW N, NEW Z, Listed(p, s, N, Z),
         w' = Then([w EXCEPT !.pc = Tail(@)], s)
  PROVE  \E R : Issues(a, p, N, Z, R)
  <1> DEFINE y == [w EXCEPT !.pc = Tail(@)]
             R == Coming(y)
  <1>1. /\ y \in Machines /\ y.pc = Tail(w.pc) /\ w \in Machines /\ w.pc # <<>>
        /\ y.main = w.main /\ y.rp = w.rp /\ y.k = w.k /\ y.file = w.file /\ y.m = w.m /\ y.warned = w.warned
        /\ Coming(w) = {a} \cup R
        /\ InOrder(phase, y.pc) /\ \A b \in R : ~Excluded(phase, a, b)
    BY TakenIs
  <1>2. \A i \in DOMAIN y.pc : i + 1 \in DOMAIN w.pc /\ y.pc[i] = w.pc[i + 1]
    BY <1>1, Popped
  <1>3. s \in Seq(Commands) /\ s \in Seq(Args(Z)) /\ Does(s) = N /\ InOrder(p, s)
    BY DEF Listed
  <1> HIDE DEF y
  <1> DEFINE z == Then(y, s)
  <1>4. w' = z
    BY DEF y
  <1>5. /\ z \in Machines
        /\ z.main = y.main /\ z.rp = y.rp /\ z.k = y.k /\ z.file = y.file /\ z.m = y.m /\ z.warned = y.warned
        /\ Coming(z) = {s[i].do : i \in DOMAIN s} \cup Coming(y)
        /\ \A i \in DOMAIN z.pc :
             \/ i \in DOMAIN s /\ z.pc[i] = s[i]
             \/ i > Len(s) /\ i - Len(s) \in DOMAIN y.pc /\ z.pc[i] = y.pc[i - Len(s)]
    BY <1>1, <1>3, Pushed
  <1> HIDE DEF z
  <1>6. ASSUME NEW i \in DOMAIN z.pc PROVE z.pc[i] \in Args(Z) \/ \E j \in DOMAIN w.pc : z.pc[i] = w.pc[j]
    <2>1. CASE i \in DOMAIN s /\ z.pc[i] = s[i]
      BY <1>3, <2>1
    <2>2. CASE i > Len(s) /\ i - Len(s) \in DOMAIN y.pc /\ z.pc[i] = y.pc[i - Len(s)]
      BY <1>2, <2>2
    <2> QED
      BY <1>5, <2>1, <2>2
  <1>7. ASSUME \A n \in N, b \in R : ~Excluded(p, n, b), p = phase \/ R = {}
        PROVE  InOrder(p, z.pc)
    <2>1. InOrder(p, y.pc)
      <3>1. CASE p = phase
        BY <1>1, <3>1
      <3>2. CASE R = {}
        <4>1. DOMAIN y.pc = {}
          BY <3>2 DEF Coming
        <4> QED
          BY <4>1 DEF InOrder
      <3> QED
        BY <1>7, <3>1, <3>2
    <2>2. \A i \in DOMAIN s : \A b \in Coming(y) : ~Excluded(p, s[i].do, b)
      BY <1>3, <1>7 DEF Does
    <2> QED
      BY <1>1, <1>3, <2>1, <2>2, OrderPushed DEF z
  <1>8. Coming(z) = N \cup R
    BY <1>3, <1>5 DEF Does
  <1> HIDE DEF R
  <1> QED
    BY <1>1, <1>4, <1>5, <1>6, <1>7, <1>8 DEF Issues

LEMMA FailListed ==
  ASSUME NEW Z
  PROVE  Listed("starting", Steps(<<"fail">>), {"fail"}, Z)
  <1> DEFINE n == <<"fail">>
  <1>1. n \in Seq(CommandNames) /\ {n[i] : i \in DOMAIN n} = {"fail"}
        /\ \A i, j \in DOMAIN n : i < j => ~NeverThen(n[i], n[j])
    BY FailNames
  <1> HIDE DEF n
  <1>2. \A i, j \in DOMAIN n : i < j => ~Excluded("starting", n[i], n[j])
    BY <1>1, ExcludedIs
  <1>3. Listed("starting", Steps(n), {"fail"}, Z)
    BY <1>1, <1>2, ListedSteps
  <1> QED
    BY <1>3 DEF n

\* Setup goes on with its failure.
FailNext(z) == z.pc = Steps(<<"fail">>)

LEMMA FailComes ==
  ASSUME NEW z, FailNext(z)
  PROVE  /\ Coming(z) = {"fail"} /\ InOrder("starting", z.pc) /\ z.pc \in Seq(Args({})) /\ z.pc \in Seq(Commands)
         /\ \A i \in DOMAIN z.pc : z.pc[i] \in Args({})
  <1>1. Listed("starting", Steps(<<"fail">>), {"fail"}, {})
    BY FailListed
  <1>2. z.pc \in Seq(Args({})) /\ z.pc \in Seq(Commands) /\ Does(z.pc) = {"fail"} /\ InOrder("starting", z.pc)
    BY <1>1 DEF Listed, FailNext
  <1>3. \A i \in DOMAIN z.pc : z.pc[i] \in Args({})
    <2> DEFINE q == z.pc
    <2>1. q \in Seq(Args({}))
      BY <1>2
    <2> HIDE DEF q
    <2>2. \A i \in DOMAIN q : q[i] \in Args({})
      BY <2>1
    <2> QED
      BY <2>2 DEF q
  <1>4. Coming(z) = {"fail"}
    BY <1>2 DEF Does, Coming
  <1> QED
    BY <1>2, <1>3, <1>4

\* The phase tells which commands there can be.
LEMMA PhaseOf ==
  ASSUME NEW a, Taken(a)
  PROVE  /\ a \in {"open", "setup", "fail", "mode", "bypass", "crule", "chain", "fill", "jumps", "captured", "notrack",
                   "client_notrack"} => phase = "starting"
         /\ a \in {"restore", "undo_route", "undo_rp"} => phase \in {"starting", "clearing"}
         /\ a \in {"stale_chains", "stale_nat", "stale_tables"} => phase = "clearing"
         /\ a \in {"loosen", "forward", "snat", "btab", "ctab", "into_tun", "tear", "save"}
              => phase \in {"starting", "running", "stopping"}
         /\ a \in {"refresh", "resource", "renotrack", "rebypass", "recapture", "redefault", "unsnat", "repoint",
                   "source"} => phase \in {"running", "stopping"}
         /\ a \in {"unrp", "flush"} => phase \in {"running", "stopping", "tearing", "failing"}
         /\ a \in {"unchain", "uncapture", "undefault", "unmark", "link_del", "unforward", "unnat"}
              => phase \in {"tearing", "failing"}
         /\ a = "teardown" => phase = "tearing"
         /\ a = "forget" => phase \in {"starting", "clearing", "tearing", "failing"}
  <1>1. a \in Issued(phase) /\ phase \in Phases
    BY TakenIs DEF Taken, Basics, TunTypes
  <1> DEFINE P(p) ==
         /\ a \in {"open", "setup", "fail", "mode", "bypass", "crule", "chain", "fill", "jumps", "captured", "notrack",
                   "client_notrack"} => p = "starting"
         /\ a \in {"restore", "undo_route", "undo_rp"} => p \in {"starting", "clearing"}
         /\ a \in {"stale_chains", "stale_nat", "stale_tables"} => p = "clearing"
         /\ a \in {"loosen", "forward", "snat", "btab", "ctab", "into_tun", "tear", "save"}
              => p \in {"starting", "running", "stopping"}
         /\ a \in {"refresh", "resource", "renotrack", "rebypass", "recapture", "redefault", "unsnat", "repoint",
                   "source"} => p \in {"running", "stopping"}
         /\ a \in {"unrp", "flush"} => p \in {"running", "stopping", "tearing", "failing"}
         /\ a \in {"unchain", "uncapture", "undefault", "unmark", "link_del", "unforward", "unnat"}
              => p \in {"tearing", "failing"}
         /\ a = "teardown" => p = "tearing"
         /\ a = "forget" => p \in {"starting", "clearing", "tearing", "failing"}
  <1>2. CASE phase = "starting"
    <2>1. a \in InRestore \cup {"open", "setup", "fail"} \cup InSetup
      BY <1>1, <1>2, IssuedIs
    <2> QED
      BY <1>2, <2>1 DEF InRestore, InSetup
  <1>3. CASE phase = "clearing"
    <2>1. a \in InRestore \cup {"stale_chains", "stale_nat", "stale_tables"}
      BY <1>1, <1>3, IssuedIs
    <2> QED
      BY <1>3, <2>1 DEF InRestore
  <1>4. CASE phase \in {"running", "stopping"}
    <2>1. a \in InLoop
      BY <1>1, <1>4, IssuedIs
    <2> QED
      BY <1>4, <2>1 DEF InLoop
  <1>5. CASE phase \in {"tearing", "failing"}
    <2>1. a \in InTeardown \/ (a = "teardown" /\ phase = "tearing")
      BY <1>1, <1>5, IssuedIs
    <2> QED
      BY <1>5, <2>1 DEF InTeardown
  <1>6. CASE phase \in {"stopped", "failed", "dead", "cleared"}
    BY <1>1, <1>6, IssuedIs
  <1> QED
    BY <1>1, <1>2, <1>3, <1>4, <1>5, <1>6 DEF Phases

AllSame == RestSame /\ w'.k = w.k /\ w'.m = w.m

\* The state file, read back.
LEMMA RestoreStep ==
  ASSUME Taken("restore")
  PROVE  /\ phase \in {"starting", "clearing"} /\ phase' = phase
         /\ \/ Silent /\ AllSame /\ w.file = None
            \/ Silent /\ w.file = Torn /\ w'.file = None /\ w'.warned = TRUE
                 /\ w'.main = w.main /\ w'.rp = w.rp /\ w'.k = w.k /\ w'.m = w.m
            \/ w.file \in Files /\ w' = Then([w EXCEPT !.pc = Tail(@)], Steps(<<"undo_route", "undo_rp", "forget">>))
  <1> DEFINE y == [w EXCEPT !.pc = Tail(@)]
             h == Head(w.pc)
  <1>1. /\ w' = Run(h, y) /\ h.do = "restore" /\ y \in Machines /\ y.pc = Tail(w.pc) /\ w \in Machines
        /\ y.main = w.main /\ y.rp = w.rp /\ y.k = w.k /\ y.file = w.file /\ y.m = w.m /\ y.warned = w.warned
        /\ phase' = phase
    BY TakenIs, SMTT(30)
  <1> HIDE DEF y, h
  <1>0. phase \in {"starting", "clearing"}
    BY PhaseOf
  <1>2. w' = readStateFile(y)
    BY <1>1, RunIs
  <1>3. w.file \in Files \cup {None, Torn} /\ Torn # None /\ None \notin Files /\ Torn \notin Files
    BY <1>1, MachineFields, TunDistinct DEF Taken
  <1>4. CASE w.file = None
    <2>1. w' = y
      BY <1>1, <1>2, <1>3, <1>4 DEF readStateFile
    <2> QED
      BY <1>1, <1>4, <2>1, <1>0 DEF Silent, AllSame, RestSame
  <1>5. CASE w.file = Torn
    <2>1. w' = [[y EXCEPT !.warned = TRUE] EXCEPT !.file = None]
      BY <1>1, <1>2, <1>3, <1>5 DEF readStateFile, removeStateFile
    <2>2. w' \in Machines /\ w'.pc = y.pc /\ w'.file = None /\ w'.warned = TRUE
          /\ w'.main = y.main /\ w'.rp = y.rp /\ w'.k = y.k /\ w'.m = y.m
      BY <1>1, <2>1 DEF Machines
    <2> QED
      BY <1>1, <1>5, <2>2, <1>0 DEF Silent
  <1>6. CASE w.file \in Files
    <2>1. w' = Then(y, Steps(<<"undo_route", "undo_rp", "forget">>))
      BY <1>1, <1>2, <1>3, <1>6 DEF readStateFile
    <2> QED
      BY <1>1, <1>6, <2>1, <1>0 DEF y
  <1> QED
    BY <1>3, <1>4, <1>5, <1>6

LEMMA UndoListed ==
  ASSUME NEW p \in {"starting", "clearing"}, NEW Z
  PROVE  Listed(p, Steps(<<"undo_route", "undo_rp", "forget">>), {"undo_route", "undo_rp", "forget"}, Z)
  <1> DEFINE n == <<"undo_route", "undo_rp", "forget">>
  <1>1. n \in Seq(CommandNames) /\ {n[i] : i \in DOMAIN n} = {"undo_route", "undo_rp", "forget"}
        /\ \A i, j \in DOMAIN n : i < j => ~NeverThen(n[i], n[j])
    BY UndoNames
  <1> HIDE DEF n
  <1>2. \A i, j \in DOMAIN n : i < j => ~Excluded(p, n[i], n[j])
    BY <1>1, ExcludedIs
  <1>3. Listed(p, Steps(n), {"undo_route", "undo_rp", "forget"}, Z)
    BY <1>1, <1>2, ListedSteps
  <1> QED
    BY <1>3 DEF n

\* The commands that undo a killed run come before the others.
LEMMA UndoComes ==
  ASSUME Taken("restore"), w.file \in Files,
         w' = Then([w EXCEPT !.pc = Tail(@)], Steps(<<"undo_route", "undo_rp", "forget">>))
  PROVE  \E R : /\ Coming(w) = {"restore"} \cup R /\ Coming(w') = {"undo_route", "undo_rp", "forget"} \cup R
                /\ R \cap InRestore = {} /\ w' \in Machines /\ AllSame
                /\ InOrder(phase, w'.pc)
                /\ \A i \in DOMAIN w'.pc : w'.pc[i] \in Args({}) \/ \E j \in DOMAIN w.pc : w'.pc[i] = w.pc[j]
  <1>1. phase \in {"starting", "clearing"}
    BY PhaseOf
  <1> DEFINE s == Steps(<<"undo_route", "undo_rp", "forget">>)
             N == {"undo_route", "undo_rp", "forget"}
  <1>2. Listed(phase, s, N, {})
    BY <1>1, UndoListed
  <1>3. w' = Then([w EXCEPT !.pc = Tail(@)], s)
    OBVIOUS
  <1> HIDE DEF s
  <1>4. PICK R : Issues("restore", phase, N, {}, R)
    BY <1>2, <1>3, TakenThen
  <1>5. \A b \in R : ~NeverThen("restore", b)
    BY <1>1, <1>4, ExcludedIs DEF Issues
  <1>6. R \cap InRestore = {}
    BY <1>5 DEF NeverThen
  <1>7. \A n \in N, b \in R : ~NeverThen(n, b)
    BY <1>6 DEF NeverThen, InRestore
  <1>8. \A n \in N, b \in R : ~Excluded(phase, n, b)
    BY <1>1, <1>7, ExcludedIs
  <1> QED
    BY <1>4, <1>6, <1>8 DEF AllSame, RestSame, Issues

\* The commands that need an uplink come once setup has found one.
LEMMA BegunThen ==
  ASSUME NEW a, Taken(a), a \notin InRestore \cup {"open", "setup", "fail"}, phase \in {"starting", "running", "stopping", "tearing"}
  PROVE  Begun /\ w.m.out \in Uplinks
  <1> DEFINE y == [w EXCEPT !.pc = Tail(@)]
  <1>1. Coming(w) = {a} \cup Coming(y) /\ \A b \in Coming(y) : ~Excluded(phase, a, b)
    BY TakenIs
  <1>2. ASSUME phase = "starting" PROVE Coming(w) \cap {"setup", "fail"} = {}
    <2>1. \A b \in Coming(y) : ~NeverThen(a, b)
      BY <1>1, <1>2, ExcludedIs
    <2> HIDE DEF y
    <2> QED
      BY <1>1, <2>1 DEF NeverThen
  <1>3. Begun
    BY <1>2 DEF Begun
  <1> QED
    BY <1>3 DEF Taken, Basics, Managed

LEMMA UndoRouteStep ==
  ASSUME Taken("undo_route")
  PROVE  /\ Silent /\ w'.rp = w.rp /\ w'.k = w.k /\ w'.m = w.m /\ w'.file = w.file /\ w.file \in Files
         /\ (w.warned => w'.warned) /\ (Routable(w) => Routable(w') \/ w'.warned)
         /\ (w.file.cap = "default" /\ w.file.saved # None) => Routable(w') \/ w'.warned
         /\ Hijacked(w') => Hijacked(w)
  <1> DEFINE y == [w EXCEPT !.pc = Tail(@)]
             h == Head(w.pc)
  <1>1. /\ w' = Run(h, y) /\ h.do = "undo_route" /\ y \in Machines /\ y.pc = Tail(w.pc)
        /\ y.main = w.main /\ y.rp = w.rp /\ y.k = w.k /\ y.file = w.file /\ y.m = w.m /\ y.warned = w.warned
    BY TakenIs
  <1>2. w.file \in Files
    BY TakenIs DEF Taken, Basics, Managed
  <1> HIDE DEF y, h
  <1>3. w' = RestoreFromState(y)
    BY <1>1, RunIs
  <1>4. SettingsOK
    BY DEF Taken
  <1> DEFINE z == RestoreFromState(y)
  <1>5. /\ OnlyRoutes(z, y) /\ (y.warned => z.warned) /\ (Routable(y) => Routable(z) \/ z.warned)
        /\ (y.file.cap = "default" /\ y.file.saved # None) => Routable(z) \/ z.warned
        /\ Hijacked(z) => Hijacked(y)
    BY <1>1, <1>2, <1>4, RestoreFromStateDoes
  <1> HIDE DEF z
  <1>6. w' = z
    BY <1>3 DEF z
  <1>7. (Routable(y) <=> Routable(w)) /\ (Hijacked(y) <=> Hijacked(w))
    BY <1>1 DEF Routable, Hijacked
  <1> QED
    BY <1>1, <1>2, <1>5, <1>6, <1>7 DEF OnlyRoutes, Silent

LEMMA UndoRPStep ==
  ASSUME Taken("undo_rp")
  PROVE  Silent /\ w'.main = w.main /\ w'.k = w.k /\ w'.m = w.m /\ w'.file = w.file /\ w'.warned = w.warned
  <1> DEFINE y == [w EXCEPT !.pc = Tail(@)]
             h == Head(w.pc)
  <1>1. /\ w' = Run(h, y) /\ h.do = "undo_rp" /\ y \in Machines /\ y.pc = Tail(w.pc)
        /\ y.main = w.main /\ y.rp = w.rp /\ y.k = w.k /\ y.file = w.file /\ y.m = w.m /\ y.warned = w.warned
    BY TakenIs
  <1>2. w.file \in Files
    BY TakenIs DEF Taken, Basics, Managed
  <1> HIDE DEF y, h
  <1>3. w' = RestoreRPFromState(y)
    BY <1>1, RunIs
  <1>5. OnlyFilter(w', y)
    BY <1>1, <1>2, <1>3, RestoreRPFromStateDoes
  <1> QED
    BY <1>1, <1>5 DEF OnlyFilter, Silent

LEMMA OpenStep ==
  ASSUME Taken("open")
  PROVE  /\ Silent /\ RestSame /\ NatSame /\ BypassSame /\ CaptureSame /\ w'.k.dev = TRUE /\ w'.m = NoManager
         /\ phase = "starting"
  <1> DEFINE y == [w EXCEPT !.pc = Tail(@)]
             h == Head(w.pc)
  <1>1. /\ w' = Run(h, y) /\ h.do = "open" /\ y \in Machines /\ y.pc = Tail(w.pc) /\ w.k \in Kernels
        /\ y.main = w.main /\ y.rp = w.rp /\ y.k = w.k /\ y.file = w.file /\ y.m = w.m /\ y.warned = w.warned
    BY TakenIs
  <1> HIDE DEF y, h
  <1>2. w' = Opened(y)
    BY <1>1, RunIs
  <1>3. OnlyBoth(w', y) /\ w'.k = [y.k EXCEPT !.dev = TRUE] /\ w'.m = NoManager
    BY <1>1, <1>2, OpenDoes
  <1>4. phase = "starting"
    BY PhaseOf
  <1> QED
    BY <1>1, <1>3, <1>4 DEF Silent, OnlyBoth, Kernels, RestSame, NatSame, BypassSame, CaptureSame

LEMMA LoosenStep ==
  ASSUME Taken("loosen")
  PROVE  /\ Silent /\ w'.main = w.main /\ w'.file = w.file /\ w'.warned = w.warned /\ w'.k = w.k /\ UplinkSame
         /\ w.m.out \in Uplinks /\ w'.m.rp = w.rp[w.m.out] /\ w'.rp = [w.rp EXCEPT ![w.m.out] = "loose"]
         /\ w'.m.fwd = w.m.fwd /\ w'.m.snat = w.m.snat /\ w'.m.notrack = w.m.notrack /\ w'.m.rules = w.m.rules
  <1> DEFINE y == [w EXCEPT !.pc = Tail(@)]
             h == Head(w.pc)
  <1>1. /\ w' = Run(h, y) /\ h.do = "loosen" /\ y \in Machines /\ y.pc = Tail(w.pc) /\ w.m \in Managers
        /\ y.main = w.main /\ y.rp = w.rp /\ y.k = w.k /\ y.file = w.file /\ y.m = w.m /\ y.warned = w.warned
    BY TakenIs
  <1> HIDE DEF y, h
  <1>2. w' = loosenRPFilter(y)
    BY <1>1, RunIs
  <1>3. w.m.out \in Uplinks
    <2>1. phase \in {"starting", "running", "stopping"}
      BY PhaseOf
    <2> QED
      BY <2>1, BegunThen DEF InRestore
  <1>4. /\ w' \in Machines /\ w'.pc = y.pc
        /\ w'.main = y.main /\ w'.file = y.file /\ w'.k = y.k /\ w'.warned = y.warned
        /\ w'.m = [y.m EXCEPT !.rp = y.rp[y.m.out]] /\ w'.rp = [y.rp EXCEPT ![y.m.out] = "loose"]
    BY <1>1, <1>2, <1>3, LoosenDoes
  <1> QED
    BY <1>1, <1>3, <1>4 DEF Silent, Managers, UplinkSame

LEMMA ModeStep ==
  ASSUME Taken("mode")
  PROVE  /\ Silent /\ RestSame /\ w'.k = w.k /\ UndoSame /\ w'.m.rules = w.m.rules
         /\ w'.m.out = w.m.out /\ w'.m.src = w.m.src /\ w'.m.saved = w.m.saved /\ w'.m.cap = cfg.capture
         /\ phase = "starting"
  <1> DEFINE y == [w EXCEPT !.pc = Tail(@)]
             h == Head(w.pc)
  <1>1. /\ w' = Run(h, y) /\ h.do = "mode" /\ y \in Machines /\ y.pc = Tail(w.pc) /\ w.m \in Managers
        /\ y.main = w.main /\ y.rp = w.rp /\ y.k = w.k /\ y.file = w.file /\ y.m = w.m /\ y.warned = w.warned
    BY TakenIs
  <1> HIDE DEF y, h
  <1>2. w' = InMode(y, cfg.capture)
    BY <1>1, RunIs
  <1>3. cfg.capture \in {"ports", "default"}
    BY TunSettings DEF Taken, Basics, TunTypes
  <1>6. OnlyManager(InMode(y, cfg.capture), y) /\ InMode(y, cfg.capture).m = [y.m EXCEPT !.cap = cfg.capture]
    BY <1>1, <1>3, ModeDoes
  <1>4. OnlyManager(w', y) /\ w'.m = [y.m EXCEPT !.cap = cfg.capture]
    BY <1>2, <1>6
  <1>5. phase = "starting"
    BY PhaseOf
  <1> QED
    BY <1>1, <1>4, <1>5 DEF Silent, OnlyManager, Managers, RestSame, UndoSame

LEMMA SourceStep ==
  ASSUME Taken("source")
  PROVE  /\ Silent /\ RestSame /\ w'.k = w.k /\ UndoSame /\ w'.m.rules = w.m.rules
         /\ w'.m.out = w.m.out /\ w'.m.cap = w.m.cap /\ w'.m.saved = w.m.saved /\ w'.m.src = Head(w.pc).src
         /\ phase \in {"running", "stopping"}
  <1> DEFINE y == [w EXCEPT !.pc = Tail(@)]
             h == Head(w.pc)
  <1>1. /\ w' = Run(h, y) /\ h.do = "source" /\ y \in Machines /\ y.pc = Tail(w.pc) /\ w.m \in Managers
        /\ y.main = w.main /\ y.rp = w.rp /\ y.k = w.k /\ y.file = w.file /\ y.m = w.m /\ y.warned = w.warned
        /\ h \in Commands
    BY TakenIs
  <1> HIDE DEF y, h
  <1>2. w' = FromSource(y, h.src)
    BY <1>1, RunIs
  <1>3. h.src \in Addresses \cup {None}
    BY <1>1 DEF Commands
  <1>4. OnlyManager(w', y) /\ w'.m = [y.m EXCEPT !.src = h.src]
    BY <1>1, <1>2, <1>3, SourceDoes
  <1>5. phase \in {"running", "stopping"}
    BY PhaseOf
  <1> QED
    BY <1>1, <1>4, <1>5 DEF Silent, OnlyManager, Managers, RestSame, UndoSame, h

LEMMA RepointStep ==
  ASSUME Taken("repoint")
  PROVE  /\ Silent /\ RestSame /\ w'.k = w.k /\ w'.m.rules = w.m.rules
         /\ w'.m.out \in Uplinks /\ w'.m.cap = w.m.cap /\ w'.m.rp = None /\ w'.m.fwd = w.m.fwd
         /\ w'.m.snat = w.m.snat /\ w'.m.notrack = w.m.notrack /\ w'.m.src = Head(w.pc).src
         /\ w'.m.saved = w.m.saved \/ (w'.m.saved # None /\ w'.m.saved.src = Head(w.pc).src)
         /\ phase \in {"running", "stopping"}
  <1> DEFINE y == [w EXCEPT !.pc = Tail(@)]
             h == Head(w.pc)
  <1>1. /\ w' = Run(h, y) /\ h.do = "repoint" /\ y \in Machines /\ y.pc = Tail(w.pc) /\ w.m \in Managers
        /\ y.main = w.main /\ y.rp = w.rp /\ y.k = w.k /\ y.file = w.file /\ y.m = w.m /\ y.warned = w.warned
        /\ h \in Commands /\ w.pc # <<>>
    BY TakenIs
  <1>2. phase \in {"running", "stopping"}
    BY PhaseOf
  <1>3. h \in Args(Addresses)
    BY <1>1, <1>2 DEF Taken, Basics, Prepared
  <1> HIDE DEF y, h
  <1>4. h.dev \in Uplinks /\ h.src \in Addresses \cup {None}
    BY <1>1, <1>3 DEF Args, Commands
  <1>5. w' = repoint(y, h)
    BY <1>1, RunIs
  <1> DEFINE z == repoint(y, h)
  <1>6. OnlyManager(z, y) /\ \E r : Repointed(z, y, h, r)
    BY <1>1, <1>4, RepointDoes
  <1> HIDE DEF z
  <1>12. PICK r : Repointed(z, y, h, r)
    BY <1>6
  <1>7. /\ z.m = [y.m EXCEPT !.out = h.dev, !.src = h.src, !.rp = None, !.saved = r]
        /\ r = y.m.saved \/ r = [dev |-> h.dev, src |-> h.src, metric |-> 0]
    BY <1>12 DEF Repointed
  <1>8. w' = z /\ OnlyManager(z, y) /\ z.m.saved = r
    BY <1>1, <1>5, <1>6, <1>7 DEF z, Managers
  <1>9. z.m.out = h.dev /\ z.m.src = h.src /\ z.m.rp = None /\ z.m.cap = y.m.cap /\ z.m.fwd = y.m.fwd
        /\ z.m.snat = y.m.snat /\ z.m.notrack = y.m.notrack /\ z.m.rules = y.m.rules
    BY <1>1, <1>7 DEF Managers
  <1>10. None # [dev |-> h.dev, src |-> h.src, metric |-> 0]
    <2>1. [dev |-> h.dev, src |-> h.src, metric |-> 0] \in Routes
      BY <1>4 DEF Routes
    <2> QED
      BY <2>1, TunDistinct DEF Taken
  <1>11. z.m.saved = y.m.saved \/ (z.m.saved # None /\ z.m.saved.src = h.src)
    BY <1>7, <1>8, <1>10
  <1> QED
    BY <1>1, <1>2, <1>4, <1>8, <1>9, <1>11 DEF Silent, OnlyManager, RestSame, h

\* Setup ends with a failure, and what it changed stays for teardown.
Aborts == w' \in Machines /\ FailNext(w') /\ AllSame

LEMMA BypassStep ==
  ASSUME Taken("bypass")
  PROVE  /\ phase = "starting"
         /\ \/ Aborts
            \/ /\ Silent /\ RestSame /\ w'.m = w.m /\ NatSame /\ CaptureSame /\ w'.k.dev = w.k.dev
               /\ w'.k.brule = TRUE /\ w'.k.btab = None
  <1> DEFINE y == [w EXCEPT !.pc = Tail(@)]
             h == Head(w.pc)
  <1>1. /\ w' = Run(h, y) /\ h.do = "bypass" /\ y \in Machines /\ y.pc = Tail(w.pc) /\ w \in Machines
        /\ y.main = w.main /\ y.rp = w.rp /\ y.k = w.k /\ y.file = w.file /\ y.m = w.m /\ y.warned = w.warned
        /\ w.k \in Kernels /\ w.m \in Managers
    BY TakenIs
  <1> HIDE DEF y, h
  <1>2. w' = setupBypassTable(y)
    BY <1>1, RunIs
  <1>3. Fails(w', y) \/ (OnlyKernel(w', y) /\ w'.k = [y.k EXCEPT !.btab = None, !.brule = TRUE])
    BY <1>1, <1>2, SetupBypassTableDoes
  <1>4. phase = "starting"
    BY PhaseOf
  <1>5. CASE Fails(w', y)
    BY <1>1, <1>4, <1>5 DEF Fails, Aborts, FailNext, AllSame, RestSame
  <1>6. CASE OnlyKernel(w', y) /\ w'.k = [y.k EXCEPT !.btab = None, !.brule = TRUE]
    BY <1>1, <1>4, <1>6 DEF OnlyKernel, Kernels, Silent, RestSame, NatSame, CaptureSame
  <1> QED
    BY <1>3, <1>5, <1>6

LEMMA CtabStep ==
  ASSUME Taken("ctab")
  PROVE  \/ Silent /\ AllSame /\ phase # "starting"
         \/ Aborts /\ phase = "starting"
         \/ /\ Silent /\ RestSame /\ w'.m = w.m /\ NatSame /\ BypassSame /\ w'.k.dev = w.k.dev /\ w.k.dev
            /\ w'.k.crule = w.k.crule /\ w'.k.chain = w.k.chain /\ w'.k.gate = w.k.gate /\ w'.k.jumps = w.k.jumps
  <1> DEFINE y == [w EXCEPT !.pc = Tail(@)]
             h == Head(w.pc)
  <1>1. /\ w' = Run(h, y) /\ h.do = "ctab" /\ y \in Machines /\ y.pc = Tail(w.pc) /\ w \in Machines
        /\ y.main = w.main /\ y.rp = w.rp /\ y.k = w.k /\ y.file = w.file /\ y.m = w.m /\ y.warned = w.warned
        /\ w.k \in Kernels /\ w.m \in Managers
    BY TakenIs
  <1> HIDE DEF y, h
  <1>2. w' = replaceCaptureDefault(y)
    BY <1>1, RunIs
  <1> DEFINE z == replaceCaptureDefault(y)
  <1>3. \/ z = y /\ phase # "starting"
        \/ Fails(z, y) /\ phase = "starting"
        \/ OnlyKernel(z, y) /\ z.k = [y.k EXCEPT !.ctab = z.k.ctab] /\ y.k.dev
    BY <1>1, ReplaceCaptureDefaultDoes
  <1> HIDE DEF z
  <1>4. w' = z
    BY <1>2 DEF z
  <1>5. CASE z = y /\ phase # "starting"
    BY <1>1, <1>4, <1>5 DEF Silent, AllSame, RestSame
  <1>6. CASE Fails(z, y) /\ phase = "starting"
    BY <1>1, <1>4, <1>6 DEF Fails, Aborts, FailNext, AllSame, RestSame
  <1>7. CASE OnlyKernel(z, y) /\ z.k = [y.k EXCEPT !.ctab = z.k.ctab] /\ y.k.dev
    <2>1. PICK c : z.k = [y.k EXCEPT !.ctab = c]
      BY <1>7
    <2>2. z.k.dev = y.k.dev /\ z.k.fwd = y.k.fwd /\ z.k.snat = y.k.snat /\ z.k.notrack = y.k.notrack
          /\ z.k.brule = y.k.brule /\ z.k.btab = y.k.btab /\ z.k.crule = y.k.crule /\ z.k.chain = y.k.chain
          /\ z.k.gate = y.k.gate /\ z.k.jumps = y.k.jumps
      BY <1>1, <2>1 DEF Kernels
    <2>3. OnlyKernel(z, y) /\ y.k.dev
      BY <1>7
    <2> QED
      BY <1>1, <1>4, <2>2, <2>3 DEF OnlyKernel, Silent, RestSame, NatSame, BypassSame
  <1> QED
    BY <1>3, <1>5, <1>6, <1>7

\* The default route now leads into the device.
Hijacks ==
  /\ Silent /\ w'.rp = w.rp /\ w'.file = w.file /\ w'.k = w.k /\ w'.warned = w.warned /\ w.k.dev
  /\ UndoSame /\ w'.m.rules = w.m.rules /\ w'.m.out = w.m.out /\ w'.m.saved = w.m.saved /\ w'.m.cap = w.m.cap
  /\ w'.m.src = (IF Local(w.m.src) THEN w.m.src ELSE None)
  /\ w'.main = [w.main EXCEPT ![0] = [dev |-> Dev, src |-> w'.m.src, metric |-> 0]]

LEMMA HijacksIs ==
  ASSUME NEW y, y \in Machines, y.pc = Tail(w.pc), w \in Machines,
         y.main = w.main, y.rp = w.rp, y.k = w.k, y.file = w.file, y.m = w.m, y.warned = w.warned,
         w' = y \/ IntoTun(w', y)
  PROVE  (Silent /\ AllSame) \/ Hijacks
  <1>1. CASE w' = y
    BY <1>1 DEF Silent, AllSame, RestSame
  <1>2. CASE IntoTun(w', y)
    <2>1. PICK s : w'.m = [y.m EXCEPT !.src = s]
      BY <1>2 DEF IntoTun
    <2>2. y.m \in Managers
      BY MachineFields
    <2>3. UndoSame /\ w'.m.rules = w.m.rules /\ w'.m.out = w.m.out /\ w'.m.saved = w.m.saved /\ w'.m.cap = w.m.cap
      BY <2>1, <2>2 DEF Managers, UndoSame
    <2>4. /\ w' \in Machines /\ w'.pc = y.pc
          /\ w'.rp = y.rp /\ w'.file = y.file /\ w'.k = y.k /\ w'.warned = y.warned /\ y.k.dev
          /\ w'.m.src = (IF Local(y.m.src) THEN y.m.src ELSE None)
          /\ w'.main = [y.main EXCEPT ![0] = [dev |-> Dev, src |-> w'.m.src, metric |-> 0]]
      BY <1>2 DEF IntoTun
    <2> QED
      BY <2>3, <2>4 DEF Hijacks, Silent
  <1> QED
    BY <1>1, <1>2

LEMMA IntoTunStep ==
  ASSUME Taken("into_tun")
  PROVE  (Silent /\ AllSame) \/ Hijacks
  <1> DEFINE y == [w EXCEPT !.pc = Tail(@)]
             h == Head(w.pc)
  <1>1. /\ w' = Run(h, y) /\ h.do = "into_tun" /\ y \in Machines /\ y.pc = Tail(w.pc) /\ w \in Machines
        /\ y.main = w.main /\ y.rp = w.rp /\ y.k = w.k /\ y.file = w.file /\ y.m = w.m /\ y.warned = w.warned
        /\ w.k \in Kernels /\ w.m \in Managers
    BY TakenIs
  <1> HIDE DEF y, h
  <1>2. w' = replaceDefaultIntoTun(y)
    BY <1>1, RunIs
  <1>3. w' = y \/ IntoTun(w', y)
    BY <1>1, <1>2, ReplaceDefaultIntoTunDoes
  <1> QED
    BY <1>1, <1>3, HijacksIs

LEMMA RedefaultStep ==
  ASSUME Taken("redefault")
  PROVE  (Silent /\ AllSame) \/ Hijacks
  <1> DEFINE y == [w EXCEPT !.pc = Tail(@)]
             h == Head(w.pc)
  <1>1. /\ w' = Run(h, y) /\ h.do = "redefault" /\ y \in Machines /\ y.pc = Tail(w.pc) /\ w \in Machines
        /\ y.main = w.main /\ y.rp = w.rp /\ y.k = w.k /\ y.file = w.file /\ y.m = w.m /\ y.warned = w.warned
        /\ w.k \in Kernels /\ w.m \in Managers
    BY TakenIs
  <1> HIDE DEF y, h
  <1>2. w' = ensureDefaultCapture(y)
    BY <1>1, RunIs
  <1>3. w' = y \/ IntoTun(w', y)
    BY <1>1, <1>2, EnsureDefaultCaptureDoes
  <1> QED
    BY <1>1, <1>3, HijacksIs

LEMMA RecaptureStep ==
  ASSUME Taken("recapture")
  PROVE  /\ Silent /\ RestSame /\ NatSame /\ BypassSame /\ w'.k.dev = w.k.dev
         /\ UplinkSame /\ UndoSame /\ w'.m.rules = w.m.rules
  <1> DEFINE y == [w EXCEPT !.pc = Tail(@)]
             h == Head(w.pc)
  <1>1. /\ w' = Run(h, y) /\ h.do = "recapture" /\ y \in Machines /\ y.pc = Tail(w.pc) /\ w \in Machines
        /\ y.main = w.main /\ y.rp = w.rp /\ y.k = w.k /\ y.file = w.file /\ y.m = w.m /\ y.warned = w.warned
        /\ w.k \in Kernels /\ w.m \in Managers
    BY TakenIs
  <1> HIDE DEF y, h
  <1>2. w' = ensurePortCapture(y)
    BY <1>1, RunIs
  <1>3. phase # "starting" /\ sets \in 0..1
    BY PhaseOf DEF Taken, Basics, TunTypes
  <1>4. PortsOnly(w', y)
    BY <1>1, <1>2, <1>3, EnsurePortCaptureDoes
  <1>5. PICK e : w'.m = [y.m EXCEPT !.excl = e]
    BY <1>4 DEF PortsOnly
  <1>6. UplinkSame /\ UndoSame /\ w'.m.rules = w.m.rules
    BY <1>1, <1>5 DEF Managers, UplinkSame, UndoSame
  <1>7. /\ w' \in Machines /\ w'.pc = y.pc
        /\ w'.main = y.main /\ w'.rp = y.rp /\ w'.file = y.file /\ w'.warned = y.warned
        /\ w'.k.dev = y.k.dev /\ w'.k.fwd = y.k.fwd /\ w'.k.snat = y.k.snat /\ w'.k.notrack = y.k.notrack
        /\ w'.k.brule = y.k.brule /\ w'.k.btab = y.k.btab
    BY <1>4 DEF PortsOnly, OnlyBoth
  <1> QED
    BY <1>1, <1>6, <1>7 DEF Silent, RestSame, NatSame, BypassSame

LEMMA UndefaultStep ==
  ASSUME Taken("undefault")
  PROVE  /\ Silent /\ w'.rp = w.rp /\ w'.k = w.k /\ w'.m = w.m /\ w'.file = w.file
         /\ w.m.saved \in UpRoutes /\ (w.warned => w'.warned)
         /\ \/ w'.main = w.main /\ w'.warned
            \/ w'.main = [w.main EXCEPT ![w.m.saved.metric] = w.m.saved] /\ Routable(w')
  <1> DEFINE y == [w EXCEPT !.pc = Tail(@)]
             h == Head(w.pc)
  <1>1. /\ w' = Run(h, y) /\ h.do = "undefault" /\ y \in Machines /\ y.pc = Tail(w.pc) /\ w \in Machines
        /\ y.main = w.main /\ y.rp = w.rp /\ y.k = w.k /\ y.file = w.file /\ y.m = w.m /\ y.warned = w.warned
        /\ w.k \in Kernels /\ w.m \in Managers
    BY TakenIs
  <1> HIDE DEF y, h
  <1>2. w' = ReplaceDefault(y, y.m.saved)
    BY <1>1, RunIs
  <1>3. w.m.saved \in UpRoutes
    <2>1. w.m.saved \in UpRoutes \cup {None}
      BY <1>1, ManagerFields
    <2>2. w.m.saved # None
      BY TakenIs DEF Taken, Basics, Managed
    <2> QED
      BY <2>1, <2>2
  <1>4. SettingsOK
    BY DEF Taken
  <1> DEFINE z == ReplaceDefault(y, y.m.saved)
  <1>5. /\ OnlyRoutes(z, y) /\ (y.warned => z.warned)
        /\ \/ z.main = y.main /\ z.warned
           \/ z.main = [y.main EXCEPT ![y.m.saved.metric] = y.m.saved] /\ Routable(z)
    BY <1>1, <1>3, <1>4, ReplaceDefaultDoes
  <1> HIDE DEF z
  <1>6. w' = z
    BY <1>2 DEF z
  <1> QED
    BY <1>1, <1>3, <1>5, <1>6 DEF OnlyRoutes, Silent

LEMMA LinkDelStep ==
  ASSUME Taken("link_del")
  PROVE  /\ Silent /\ w'.rp = w.rp /\ w'.m = w.m /\ w'.file = w.file /\ w'.warned = w.warned
         /\ NatSame /\ BypassSame /\ w'.k.dev = FALSE /\ w'.k.ctab = None
         /\ w'.k.crule = w.k.crule /\ w'.k.chain = w.k.chain /\ w'.k.gate = w.k.gate /\ w'.k.jumps = w.k.jumps
         /\ \A i \in 0..1 : w'.main[i] \in {w.main[i], None}
         /\ ~Hijacked(w') /\ (Routable(w) => Routable(w'))
  <1> DEFINE y == [w EXCEPT !.pc = Tail(@)]
             h == Head(w.pc)
  <1>1. /\ w' = Run(h, y) /\ h.do = "link_del" /\ y \in Machines /\ y.pc = Tail(w.pc) /\ w \in Machines
        /\ y.main = w.main /\ y.rp = w.rp /\ y.k = w.k /\ y.file = w.file /\ y.m = w.m /\ y.warned = w.warned
        /\ w.k \in Kernels /\ w.m \in Managers
    BY TakenIs
  <1> HIDE DEF y, h
  <1>2. w' = DeviceGone(y)
    BY <1>1, RunIs
  <1> DEFINE z == DeviceGone(y)
  <1>3. /\ z \in Machines /\ z.pc = y.pc
        /\ z.rp = y.rp /\ z.m = y.m /\ z.file = y.file /\ z.warned = y.warned
        /\ z.k = [y.k EXCEPT !.dev = FALSE, !.ctab = None]
        /\ \A i \in 0..1 : z.main[i] \in {y.main[i], None}
        /\ ~Hijacked(z) /\ (Routable(y) => Routable(z))
    BY <1>1, DeviceGoneDoes
  <1> HIDE DEF z
  <1>4. w' = z
    BY <1>2 DEF z
  <1>5. z.k.dev = FALSE /\ z.k.fwd = y.k.fwd /\ z.k.snat = y.k.snat /\ z.k.notrack = y.k.notrack
        /\ z.k.brule = y.k.brule /\ z.k.btab = y.k.btab /\ z.k.crule = y.k.crule /\ z.k.chain = y.k.chain
        /\ z.k.gate = y.k.gate /\ z.k.jumps = y.k.jumps /\ z.k.ctab = None
    BY <1>1, <1>3 DEF Kernels
  <1>6. Routable(y) <=> Routable(w)
    BY <1>1 DEF Routable
  <1> QED
    BY <1>1, <1>3, <1>4, <1>5, <1>6 DEF Silent, NatSame, BypassSame

LEMMA Drained ==
  ASSUME NEW x, x \in Machines
  PROVE  Coming(x) = {} <=> x.pc = <<>>
  <1> DEFINE q == x.pc
             n == Len(q)
  <1>1. q \in Seq(Commands)
    BY MachineFields
  <1> HIDE DEF q
  <1>2. n \in Nat /\ DOMAIN q = 1 .. n /\ (q = <<>> <=> n = 0)
    BY <1>1, LenProperties, EmptySeq
  <1> HIDE DEF n
  <1>3. n >= 1 => 1 \in DOMAIN q
    BY <1>2
  <1>4. n = 0 => DOMAIN q = {}
    BY <1>2
  <1>5. DOMAIN q = {} <=> n = 0
    BY <1>2, <1>3, <1>4
  <1>6. Coming(x) = {q[i].do : i \in DOMAIN q}
    BY DEF Coming, q
  <1>7. Coming(x) = {} <=> DOMAIN q = {}
    BY <1>6
  <1> QED
    BY <1>2, <1>5, <1>7 DEF q

\* Nothing follows these.
LEMMA LastIs ==
  ASSUME NEW a, Taken(a), NEW R, a \in {"setup", "fail", "teardown"} \/ (a \in {"into_tun", "captured"} /\ phase = "starting"),
         \A b \in R : ~Excluded(phase, a, b)
  PROVE  R = {}
  <1>1. a # "teardown" => phase = "starting"
    BY PhaseOf
  <1>2. a = "teardown" => phase = "tearing"
    BY PhaseOf
  <1>3. CASE a # "teardown"
    <2>1. \A b \in R : ~NeverThen(a, b)
      BY <1>1, <1>3, ExcludedIs
    <2> QED
      BY <1>3, <2>1 DEF NeverThen
  <1>4. CASE a = "teardown"
    <2>1. \A b \in R : ~NeverThenInTeardown(a, b)
      BY <1>2, <1>4, ExcludedIs
    <2> QED
      BY <1>4, <2>1 DEF NeverThenInTeardown
  <1> QED
    BY <1>3, <1>4

\* What a teardown issues, from the manager's fields.
Undoes(p) ==
  /\ w' \in Machines /\ AllSame /\ InOrder(p, w'.pc)
  /\ Coming(w') \subseteq InTeardown /\ {"unmark", "flush", "link_del", "forget"} \subseteq Coming(w')
  /\ w.m.cap = "ports" /\ w.m.rules => {"unchain", "uncapture"} \subseteq Coming(w')
  /\ "undefault" \in Coming(w') <=> w.m.cap = "default" /\ w.m.saved # None
  /\ ~cfg.skip => {"unforward", "unnat", "unrp"} \subseteq Coming(w')
  /\ \A i \in DOMAIN w'.pc : w'.pc[i] \in Args({})

LEMMA UndoesIs ==
  ASSUME NEW a \in {"fail", "teardown"}, Taken(a), NEW p \in {"tearing", "failing"}
  PROVE  Undoes(p)
  <1> DEFINE y == [w EXCEPT !.pc = Tail(@)]
             h == Head(w.pc)
  <1>1. /\ w' = Run(h, y) /\ h.do = a /\ y.m = w.m
    BY TakenIs
  <1>2. w' = teardown(y)
    BY <1>1, RunIs
  <1> HIDE DEF y, h
  <1>3. PICK s \in Seq(Commands) :
           /\ teardown(y) = Then(y, s) /\ InOrder(p, s) /\ s \in Seq(Args({}))
           /\ Does(s) \subseteq InTeardown /\ {"unmark", "flush", "link_del", "forget"} \subseteq Does(s)
           /\ y.m.cap = "ports" /\ y.m.rules => {"unchain", "uncapture"} \subseteq Does(s)
           /\ "undefault" \in Does(s) <=> y.m.cap = "default" /\ y.m.saved # None
           /\ ~cfg.skip => {"unforward", "unnat", "unrp"} \subseteq Does(s)
    BY TeardownListed
  <1>4. Listed(p, s, Does(s), {})
    BY <1>3 DEF Listed
  <1>5. w' = Then(y, s)
    BY <1>2, <1>3
  <1>6. PICK R : Issues(a, p, Does(s), {}, R)
    BY <1>4, <1>5, TakenThen DEF y
  <1>7. R = {}
    BY <1>6, LastIs DEF Issues
  <1>8. Coming(w') = Does(s) /\ w' \in Machines /\ AllSame /\ InOrder(p, w'.pc)
    BY <1>6, <1>7 DEF Issues, AllSame, RestSame
  <1>9. w'.pc \in Seq(Args({}))
    <2>1. Then(y, s).pc = s \o y.pc /\ y \in Machines /\ y.pc = Tail(w.pc)
          /\ Coming(w) = {a} \cup Coming(y) /\ \A b \in Coming(y) : ~Excluded(phase, a, b)
      <3>1. y \in Machines /\ y.pc = Tail(w.pc)
            /\ Coming(w) = {a} \cup Coming(y) /\ \A b \in Coming(y) : ~Excluded(phase, a, b)
        BY TakenIs DEF y
      <3> QED
        BY <3>1, Pushed
    <2>2. Coming(y) = {}
      BY <2>1, LastIs
    <2>5. y.pc = <<>>
      BY <2>1, <2>2, Drained
    <2>6. s \o <<>> = s
      OBVIOUS
    <2> QED
      BY <1>3, <1>5, <2>1, <2>5, <2>6
  <1>10. \A i \in DOMAIN w'.pc : w'.pc[i] \in Args({})
    <2> DEFINE q == w'.pc
    <2>1. q \in Seq(Args({}))
      BY <1>9
    <2> HIDE DEF q
    <2>2. \A i \in DOMAIN q : q[i] \in Args({})
      BY <2>1
    <2> QED
      BY <2>2 DEF q
  <1> QED
    BY <1>1, <1>3, <1>8, <1>10 DEF Undoes

LEMMA TeardownStep ==
  ASSUME Taken("teardown")
  PROVE  Undoes("tearing") /\ phase = "tearing" /\ phase' = "tearing"
  BY UndoesIs, PhaseOf, TakenIs

LEMMA FailStep ==
  ASSUME Taken("fail")
  PROVE  Undoes("failing") /\ phase = "starting" /\ phase' = "failing"
  <1>1. Undoes("failing") /\ phase = "starting"
    BY UndoesIs, PhaseOf
  <1> QED
    BY <1>1 DEF Taken, Step

\* What the loop's refreshes issue, before the commands of AtEnd.
Refreshes(a, N, R) ==
  /\ Coming(w) = {a} \cup R /\ Coming(w') = N \cup R /\ R \subseteq AtEnd
  /\ w' \in Machines /\ AllSame /\ InOrder(phase, w'.pc)
  /\ N \subseteq InLoop \ (AtEnd \cup {"refresh"})
  /\ "unsnat" \in N /\ (a = "resource" => N \cap {"unrp", "repoint", "loosen"} = {})
  /\ a = "refresh" /\ ~cfg.skip => {"unrp", "loosen"} \subseteq N
  /\ cfg.skip => "loosen" \notin N
  /\ IF w.m.cap = "ports" THEN "into_tun" \notin N ELSE "ctab" \notin N

\* The addresses they carry are in use.
Carried(z) ==
  \E c \in Addresses :
     /\ \/ \E u \in Uplinks : c = addr[u]
        \/ \E i \in 0..1 : w.main[i] # None /\ c = w.main[i].src
     /\ \A i \in DOMAIN z.pc : z.pc[i] \in Args({c}) \/ \E j \in DOMAIN w.pc : z.pc[i] = w.pc[j]

LEMMA EgressUsed ==
  ASSUME SettingsOK, NEW x, x \in Machines, addr \in [Uplinks -> Addresses], x.main = w.main,
         resolveDefaultEgress(x) # None
  PROVE  LET c == resolveDefaultEgress(x).src
         IN  c \in Addresses /\ (\/ \E u \in Uplinks : c = addr[u]
                                     \/ \E i \in 0..1 : w.main[i] # None /\ c = w.main[i].src)
  BY EgressIs

LEMMA RefreshesIs ==
  ASSUME NEW a \in {"refresh", "resource"}, Taken(a), NEW s, NEW N, NEW c \in Addresses,
         Listed(phase, s, N, {c}), w' = Then([w EXCEPT !.pc = Tail(@)], s),
         N \subseteq InLoop \ (AtEnd \cup {"refresh"}),
         "unsnat" \in N, a = "resource" => N \cap {"unrp", "repoint", "loosen"} = {},
         a = "refresh" /\ ~cfg.skip => {"unrp", "loosen"} \subseteq N,
         cfg.skip => "loosen" \notin N,
         IF w.m.cap = "ports" THEN "into_tun" \notin N ELSE "ctab" \notin N,
         \/ \E u \in Uplinks : c = addr[u]
         \/ \E i \in 0..1 : w.main[i] # None /\ c = w.main[i].src
  PROVE  \E R : Refreshes(a, N, R) /\ Carried(w')
  <1>1. PICK R : Issues(a, phase, N, {c}, R)
    BY TakenThen
  <1>2. phase \in {"running", "stopping"}
    BY PhaseOf
  <1>3. R \subseteq AtEnd
    <2>1. \A b \in R : ~NeverThenInLoop(a, b)
      BY <1>1, <1>2, ExcludedIs DEF Issues
    <2> QED
      BY <2>1 DEF NeverThenInLoop
  <1>4. \A n \in N, b \in R : ~Excluded(phase, n, b)
    <2>1. \A n \in N, b \in R : ~NeverThenInLoop(n, b)
      BY <1>3 DEF NeverThenInLoop, AtEnd
    <2> QED
      BY <1>2, <2>1, ExcludedIs
  <1>5. Carried(w')
    BY <1>1 DEF Issues, Carried
  <1>6. Refreshes(a, N, R)
    BY <1>1, <1>3, <1>4 DEF Issues, Refreshes, AllSame, RestSame
  <1> QED
    BY <1>5, <1>6

LEMMA RefreshStep ==
  ASSUME Taken("refresh")
  PROVE  /\ phase \in {"running", "stopping"} /\ phase' = phase
         /\ (Silent /\ AllSame) \/ \E N, R : Refreshes("refresh", N, R) /\ Carried(w')
  <1> DEFINE y == [w EXCEPT !.pc = Tail(@)]
             h == Head(w.pc)
  <1>1. /\ w' = Run(h, y) /\ h.do = "refresh" /\ y \in Machines /\ y.pc = Tail(w.pc)
        /\ y.main = w.main /\ y.rp = w.rp /\ y.k = w.k /\ y.file = w.file /\ y.m = w.m /\ y.warned = w.warned
    BY TakenIs
  <1>0. phase' = phase
    BY DEF Taken, Step
  <1>2. phase \in {"running", "stopping"} /\ SettingsOK /\ addr \in [Uplinks -> Addresses]
    BY PhaseOf DEF Taken, Basics, TunTypes
  <1> HIDE DEF y, h
  <1>3. w' = refreshEgress(y)
    BY <1>1, RunIs
  <1> DEFINE e == resolveDefaultEgress(y)
  <1>4. \/ refreshEgress(y) = y
        \/ e # None /\ \E s, N :
                  /\ refreshEgress(y) = Then(y, s) /\ Listed(phase, s, N, {e.src})
                  /\ N \subseteq InLoop \ (AtEnd \cup {"refresh"}) /\ {"unsnat", "repoint"} \subseteq N
                  /\ ~cfg.skip => {"unrp", "loosen"} \subseteq N
                  /\ cfg.skip => "loosen" \notin N
                  /\ IF y.m.cap = "ports" THEN "into_tun" \notin N ELSE "ctab" \notin N
    BY <1>1, <1>2, RefreshListed
  <1>5. CASE refreshEgress(y) = y
    BY <1>0, <1>1, <1>2, <1>3, <1>5 DEF Silent, AllSame, RestSame
  <1>6. CASE refreshEgress(y) # y
    <2>1. PICK s, N :
                  /\ refreshEgress(y) = Then(y, s) /\ Listed(phase, s, N, {e.src})
                  /\ N \subseteq InLoop \ (AtEnd \cup {"refresh"}) /\ {"unsnat", "repoint"} \subseteq N
                  /\ ~cfg.skip => {"unrp", "loosen"} \subseteq N
                  /\ cfg.skip => "loosen" \notin N
                  /\ IF y.m.cap = "ports" THEN "into_tun" \notin N ELSE "ctab" \notin N
      BY <1>4, <1>6
    <2>2. e # None
      BY <1>4, <1>6
    <2>3. e.src \in Addresses /\ (\/ \E u \in Uplinks : e.src = addr[u]
                                      \/ \E i \in 0..1 : w.main[i] # None /\ e.src = w.main[i].src)
      BY <1>1, <1>2, <2>2, EgressUsed
    <2> DEFINE c == e.src
    <2>4. w' = Then(y, s) /\ Listed(phase, s, N, {c})
      BY <1>3, <2>1
    <2> HIDE DEF c, e
    <2>5. c \in Addresses /\ (\/ \E u \in Uplinks : c = addr[u]
                                  \/ \E i \in 0..1 : w.main[i] # None /\ c = w.main[i].src)
      BY <2>3 DEF c
    <2>6. \E R : Refreshes("refresh", N, R) /\ Carried(w')
      BY <1>1, <2>1, <2>4, <2>5, RefreshesIs DEF y
    <2> QED
      BY <1>0, <1>1, <1>2, <2>6
  <1> QED
    BY <1>5, <1>6

LEMMA ResourceStep ==
  ASSUME Taken("resource")
  PROVE  /\ phase \in {"running", "stopping"} /\ phase' = phase
         /\ (Silent /\ AllSame) \/ \E N, R : Refreshes("resource", N, R) /\ Carried(w')
  <1> DEFINE y == [w EXCEPT !.pc = Tail(@)]
             h == Head(w.pc)
  <1>1. /\ w' = Run(h, y) /\ h.do = "resource" /\ y \in Machines /\ y.pc = Tail(w.pc)
        /\ y.main = w.main /\ y.rp = w.rp /\ y.k = w.k /\ y.file = w.file /\ y.m = w.m /\ y.warned = w.warned
    BY TakenIs
  <1>0. phase' = phase
    BY DEF Taken, Step
  <1>2. phase \in {"running", "stopping"} /\ SettingsOK /\ addr \in [Uplinks -> Addresses]
    BY PhaseOf DEF Taken, Basics, TunTypes
  <1>3. w.m.out \in Uplinks
    BY <1>2, BegunThen DEF InRestore
  <1> HIDE DEF y, h
  <1>4. w' = refreshSource(y)
    BY <1>1, RunIs
  <1>5. \/ refreshSource(y) = y
        \/ \E a \in Addresses : \E s, N :
                  /\ a = addr[y.m.out] \/ (a = resolveDefaultEgress(y).src /\ resolveDefaultEgress(y) # None)
                  /\ refreshSource(y) = Then(y, s) /\ Listed(phase, s, N, {a})
                  /\ N \subseteq InLoop \ (AtEnd \cup {"refresh", "unrp", "repoint", "loosen"})
                  /\ {"unsnat", "source"} \subseteq N
                  /\ IF y.m.cap = "ports" THEN "into_tun" \notin N ELSE "ctab" \notin N
    BY <1>1, <1>2, <1>3, ResourceListed
  <1>6. CASE refreshSource(y) = y
    BY <1>0, <1>1, <1>2, <1>4, <1>6 DEF Silent, AllSame, RestSame
  <1>7. CASE refreshSource(y) # y
    <2>1. PICK c \in Addresses : \E s, N :
                  /\ c = addr[y.m.out] \/ (c = resolveDefaultEgress(y).src /\ resolveDefaultEgress(y) # None)
                  /\ refreshSource(y) = Then(y, s) /\ Listed(phase, s, N, {c})
                  /\ N \subseteq InLoop \ (AtEnd \cup {"refresh", "unrp", "repoint", "loosen"})
                  /\ {"unsnat", "source"} \subseteq N
                  /\ IF y.m.cap = "ports" THEN "into_tun" \notin N ELSE "ctab" \notin N
      BY <1>5, <1>7
    <2>2. PICK s, N :
                  /\ c = addr[y.m.out] \/ (c = resolveDefaultEgress(y).src /\ resolveDefaultEgress(y) # None)
                  /\ refreshSource(y) = Then(y, s) /\ Listed(phase, s, N, {c})
                  /\ N \subseteq InLoop \ (AtEnd \cup {"refresh", "unrp", "repoint", "loosen"})
                  /\ {"unsnat", "source"} \subseteq N
                  /\ IF y.m.cap = "ports" THEN "into_tun" \notin N ELSE "ctab" \notin N
      BY <2>1
    <2>3. \/ \E u \in Uplinks : c = addr[u]
          \/ \E i \in 0..1 : w.main[i] # None /\ c = w.main[i].src
      BY <1>1, <1>2, <1>3, <2>2, EgressUsed
    <2>4. w' = Then(y, s)
      BY <1>4, <2>2
    <2>5. \E R : Refreshes("resource", N, R) /\ Carried(w')
      BY <1>1, <2>2, <2>3, <2>4, RefreshesIs DEF y
    <2> QED
      BY <1>0, <1>1, <1>2, <2>5
  <1> QED
    BY <1>6, <1>7

\* Setup reads the uplink and goes on.
SetsUp ==
  /\ w' \in Machines /\ RestSame /\ w'.k = w.k /\ UndoSame /\ w'.m.rules = w.m.rules /\ w'.m.cap = w.m.cap
  /\ w'.pc = Steps(SetupSteps)
  /\ w'.m.out \in Uplinks /\ w'.m.saved = FirstDefault(w)
  /\ \/ \E u \in Uplinks : w'.m.src = addr[u]
     \/ \E i \in 0..1 : w.main[i] # None /\ w'.m.src = w.main[i].src

LEMMA FirstDefaultIs ==
  ASSUME SettingsOK, NEW x, x \in Machines, ~Hijacked(x)
  PROVE  /\ FirstDefault(x) \in UpRoutes \cup {None}
         /\ FirstDefault(x) # None => \E i \in 0..1 : x.main[i] # None /\ FirstDefault(x) = x.main[i]
         /\ Routable(x) => FirstDefault(x) # None
  <1>1. x.main \in [0..1 -> Routes \cup {None}]
    BY MachineFields
  <1>2. \A i \in 0..1 : x.main[i] # None => x.main[i] \in UpRoutes
    BY <1>1 DEF Hijacked, Routes, UpRoutes
  <1>3. 0 \in 0..1 /\ 1 \in 0..1
    OBVIOUS
  <1> QED
    BY <1>2, <1>3 DEF FirstDefault, Routable

LEMMA NotHijacked ==
  ASSUME NEW a, Taken(a), phase # "running"
  PROVE  ~Hijacked(w)
  <1>1. w.pc # <<>>
    BY TakenIs
  <1> QED
    BY <1>1 DEF Taken, Basics, Managed, Hijacked

LEMMA SetupStep ==
  ASSUME Taken("setup")
  PROVE  phase = "starting" /\ phase' = "starting" /\ (Aborts \/ SetsUp)
  <1> DEFINE y == [w EXCEPT !.pc = Tail(@)]
             h == Head(w.pc)
  <1>1. /\ w' = Run(h, y) /\ h.do = "setup" /\ y \in Machines /\ w \in Machines
        /\ y.main = w.main /\ y.rp = w.rp /\ y.k = w.k /\ y.file = w.file /\ y.m = w.m /\ y.warned = w.warned
        /\ \A b \in Coming(y) : ~Excluded(phase, "setup", b)
    BY TakenIs
  <1>2. phase = "starting" /\ phase' = phase
    BY PhaseOf DEF Taken, Step
  <1>3. SettingsOK /\ cfg \in Settings /\ addr \in [Uplinks -> Addresses]
    BY DEF Taken, Basics, TunTypes
  <1> HIDE DEF y, h
  <1>4. w' = setup(y)
    BY <1>1, RunIs
  <1>5. y.pc = <<>>
    <2>1. Coming(y) = {}
      BY <1>1, LastIs
    <2> QED
      BY <1>1, <2>1, Drained
  <1>6. CASE w' = Then(y, Steps(<<"fail">>))
    <2> DEFINE s == Steps(<<"fail">>)
               z == Then(y, s)
    <2>1. s \in Seq(Commands)
      BY FailListed DEF Listed
    <2> HIDE DEF s
    <2>2. /\ z \in Machines
          /\ z.main = y.main /\ z.rp = y.rp /\ z.k = y.k /\ z.file = y.file /\ z.m = y.m /\ z.warned = y.warned
          /\ z.pc = s \o y.pc
      BY <1>1, <2>1, Pushed
    <2> HIDE DEF z
    <2>3. z.pc = s
      BY <1>5, <2>1, <2>2
    <2>4. w' = z
      BY <1>6 DEF z, s
    <2> QED
      BY <1>1, <1>2, <2>2, <2>3, <2>4 DEF Aborts, FailNext, AllSame, RestSame, s
  <1> DEFINE e == resolveDefaultEgress(y)
             out == IF cfg.pin # None THEN cfg.pin ELSE e.dev
             src == IF cfg.pin # None THEN addr[cfg.pin] ELSE e.src
             f == FirstDefault(y)
             x == [y EXCEPT !.m.saved = f, !.m.out = out, !.m.src = src]
             s == Steps(SetupSteps)
  <1>7. CASE ~(cfg.pin = None /\ e = None)
    <2>1. w' = Then(x, s)
      BY <1>4, <1>7 DEF setup
    <2>2. e = None \/ (e.dev \in Uplinks /\ e.src \in Addresses)
      BY <1>1, <1>3, EgressIs
    <2>3. e # None => \/ \E u \in Uplinks : e.src = addr[u]
                      \/ \E i \in 0..1 : w.main[i] # None /\ e.src = w.main[i].src
      BY <1>1, <1>3, EgressUsed
    <2>4. cfg.pin \in Uplinks \cup {None}
      BY <1>3, TunSettings
    <2>5. out \in Uplinks /\ src \in Addresses
          /\ (\/ \E u \in Uplinks : src = addr[u]
              \/ \E i \in 0..1 : w.main[i] # None /\ src = w.main[i].src)
      <3> HIDE DEF e
      <3> QED
        BY <1>3, <1>7, <2>2, <2>3, <2>4
    <2>6. ~Hijacked(w)
      BY <1>2, NotHijacked
    <2>7. f = FirstDefault(w) /\ f \in UpRoutes \cup {None}
      BY <1>1, <1>3, <2>6, FirstDefaultIs DEF FirstDefault
    <2>8. y.m \in Managers
      BY <1>1, MachineFields
    <2> DEFINE m == [y.m EXCEPT !.saved = f, !.out = out, !.src = src]
    <2>9. x = [y EXCEPT !.m = m]
      <3> HIDE DEF f, out, src
      <3> QED
        BY <1>1, <2>8 DEF Machines, Managers
    <2>10. m \in Managers /\ m.saved = f /\ m.out = out /\ m.src = src /\ m.rp = y.m.rp /\ m.cap = y.m.cap
           /\ m.fwd = y.m.fwd /\ m.snat = y.m.snat /\ m.notrack = y.m.notrack /\ m.rules = y.m.rules
      <3> HIDE DEF f, out, src
      <3> QED
        BY <2>5, <2>7, <2>8 DEF Managers
    <2>11. OnlyManager(x, y) /\ x.m = m
      <3> HIDE DEF m, x
      <3> QED
        BY <1>1, <2>9, <2>10, ManagerSet
    <2>12. s \in Seq(Commands)
      BY <1>3, SetupListed
    <2> DEFINE z == Then(x, s)
    <2> HIDE DEF m, x, f, out, src, s
    <2>13. /\ z \in Machines
           /\ z.main = x.main /\ z.rp = x.rp /\ z.k = x.k /\ z.file = x.file /\ z.m = x.m /\ z.warned = x.warned
           /\ z.pc = s \o x.pc
      BY <2>11, <2>12, Pushed DEF OnlyManager
    <2> HIDE DEF z
    <2>14. z.pc = s
      BY <1>5, <2>11, <2>12, <2>13 DEF OnlyManager
    <2>15. w' = z
      BY <2>1 DEF z
    <2>16. w'.pc = Steps(SetupSteps)
      BY <2>14, <2>15 DEF s
    <2> QED
      BY <1>1, <1>2, <2>5, <2>7, <2>10, <2>11, <2>13, <2>15, <2>16 DEF OnlyManager, SetsUp, RestSame, UndoSame
  <1>8. cfg.pin = None /\ e = None => w' = Then(y, Steps(<<"fail">>))
    BY <1>4 DEF setup
  <1> QED
    BY <1>6, <1>7, <1>8

(* The basic invariant through every command *)

LEMMA QuietManaged ==
  ASSUME NEW a, Taken(a), Silent, a # "fail", Managed'
  PROVE  Basics'
  BY QuietTypes, QuietPrepared DEF Basics

LEMMA AbortTypes ==
  ASSUME Basics, SameAround, phase' = phase, Aborts
  PROVE  TunTypes'
  BY DEF Basics, TunTypes, SameAround, Aborts

LEMMA AbortBasics ==
  ASSUME Basics, TunTypes', phase = "starting", phase' = "starting", Aborts, w.pc # <<>>
  PROVE  Basics'
  <1>1. Coming(w') = {"fail"} /\ InOrder("starting", w'.pc)
    BY FailComes DEF Aborts
  <1>3. Sequenced'
    <2>1. "fail" \in Issued("starting")
      BY IssuedIs
    <2> QED
      BY <1>1, <2>1 DEF Sequenced
  <1>4. Prepared'
    BY <1>1 DEF Prepared, Needs, InRestore
  <1>5. Managed'
    BY <1>1 DEF Basics, Managed, Begun, Aborts, AllSame, RestSame
  <1> QED
    BY <1>3, <1>4, <1>5 DEF Basics

LEMMA RestoreBasics ==
  ASSUME Taken("restore")
  PROVE  Basics'
  <1>1. /\ phase \in {"starting", "clearing"} /\ phase' = phase
        /\ \/ Silent /\ AllSame /\ w.file = None
           \/ Silent /\ w.file = Torn /\ w'.file = None /\ w'.warned = TRUE
                /\ w'.main = w.main /\ w'.rp = w.rp /\ w'.k = w.k /\ w'.m = w.m
           \/ w.file \in Files /\ w' = Then([w EXCEPT !.pc = Tail(@)], Steps(<<"undo_route", "undo_rp", "forget">>))
    BY RestoreStep
  <1>2. Managed /\ Prepared /\ TunTypes /\ Sequenced /\ SameAround /\ w.pc # <<>>
    BY TakenIs DEF Taken, Basics
  <1>3. CASE Silent /\ AllSame /\ w.file = None
    BY <1>3, QuietBasics DEF AllSame, RestSame, SameRoutes
  <1>4. CASE Silent /\ w.file = Torn /\ w'.file = None /\ w'.warned = TRUE
                /\ w'.main = w.main /\ w'.rp = w.rp /\ w'.k = w.k /\ w'.m = w.m
    <2>1. Coming(w) = {"restore"} \cup Coming(w') /\ \A b \in Coming(w') : ~Excluded(phase, "restore", b)
      BY <1>4, TakenQuietly DEF Silent
    <2>2. \A b \in Coming(w') : ~NeverThen("restore", b)
      BY <1>1, <2>1, ExcludedIs
    <2>3. Coming(w') \cap InRestore = {}
      BY <2>2 DEF NeverThen
    <2>4. Managed'
      BY <1>1, <1>2, <1>4, <2>1, <2>3 DEF Managed, Begun, SameAround, InRestore
    <2> QED
      BY <1>4, <2>4, QuietManaged
  <1>5. CASE w.file \in Files /\ w' = Then([w EXCEPT !.pc = Tail(@)], Steps(<<"undo_route", "undo_rp", "forget">>))
    <2>1. PICK R : /\ Coming(w) = {"restore"} \cup R /\ Coming(w') = {"undo_route", "undo_rp", "forget"} \cup R
                   /\ R \cap InRestore = {} /\ w' \in Machines /\ AllSame /\ InOrder(phase, w'.pc)
      BY <1>5, UndoComes
    <2>2. TunTypes'
      BY <1>1, <1>2, <2>1 DEF TunTypes, SameAround
    <2>3. Sequenced'
      <3>1. {"undo_route", "undo_rp", "forget"} \subseteq Issued(phase)
        BY <1>1, IssuedIs DEF InRestore
      <3> QED
        BY <1>1, <1>2, <2>1, <3>1 DEF Sequenced
    <2>4. phase = "starting" => "setup" \in R
      BY <1>2, <2>1 DEF Prepared, Needs, InRestore
    <2>5. Prepared'
      <3>1. phase' \notin {"running", "stopping"}
        BY <1>1
      <3>2. ASSUME phase' = "starting"
            PROVE  /\ "setup" \in Coming(w') /\ ("tear" \in Coming(w') => "save" \in Coming(w'))
                   /\ \A a \in {"crule", "ctab", "chain", "fill", "jumps"} : a \in Coming(w') => "captured" \in Coming(w')
                   /\ "captured" \in Coming(w') => cfg'.capture = "ports"
                   /\ "into_tun" \in Coming(w') => cfg'.capture = "default"
                   /\ cfg'.skip => Coming(w') \cap {"loosen", "forward", "snat", "notrack", "client_notrack"} = {}
        BY <1>1, <1>2, <2>1, <2>4, <3>2 DEF Prepared, Needs, SameAround
      <3> QED
        BY <3>1, <3>2 DEF Prepared, Needs
    <2>6. Managed'
      BY <1>1, <1>2, <1>5, <2>1, <2>4 DEF Managed, Begun, SameAround, AllSame, RestSame
    <2> QED
      BY <2>2, <2>3, <2>5, <2>6 DEF Basics
  <1> QED
    BY <1>1, <1>3, <1>4, <1>5

LEMMA UndoRouteBasics ==
  ASSUME Taken("undo_route")
  PROVE  Basics'
  <1>1. Silent /\ w'.k = w.k /\ w'.m = w.m /\ w'.file = w.file /\ w.file \in Files /\ (Hijacked(w') => Hijacked(w))
    BY UndoRouteStep
  <1>2. phase \in {"starting", "clearing"} /\ phase' = phase /\ SameAround /\ Managed /\ w.pc # <<>>
        /\ Coming(w) = {"undo_route"} \cup Coming(w')
    BY <1>1, PhaseOf, TakenIs, TakenQuietly DEF Taken, Basics, Silent
  <1>3. Managed'
    BY <1>1, <1>2 DEF Managed, Begun, SameAround, Hijacked
  <1> QED
    BY <1>1, <1>3, QuietManaged

LEMMA OpenBasics ==
  ASSUME Taken("open")
  PROVE  Basics'
  <1>1. Silent /\ RestSame /\ w'.m = NoManager /\ phase = "starting"
    BY OpenStep
  <1>2. phase' = phase /\ SameAround /\ Managed /\ Prepared /\ w.pc # <<>> /\ Coming(w) = {"open"} \cup Coming(w')
    BY <1>1, TakenIs, TakenQuietly DEF Taken, Basics, Silent
  <1>3. "setup" \in Coming(w')
    BY <1>1, <1>2 DEF Prepared, Needs
  <1>4. "undefault" \notin Coming(w')
    <2>1. Coming(w) \subseteq InRestore \cup {"open", "setup", "fail"} \cup InSetup
      BY <1>1, IssuedIs DEF Taken, Basics, Sequenced
    <2> QED
      BY <1>2, <2>1 DEF InRestore, InSetup
  <1>5. Managed'
    BY <1>1, <1>2, <1>3, <1>4 DEF Managed, Begun, RestSame
  <1> QED
    BY <1>1, <1>5, QuietManaged

LEMMA ModeBasics ==
  ASSUME Taken("mode")
  PROVE  Basics'
  <1>1. Silent /\ RestSame /\ w'.k = w.k /\ phase = "starting"
        /\ w'.m.out = w.m.out /\ w'.m.saved = w.m.saved /\ w'.m.cap = cfg.capture
    BY ModeStep
  <1>2. phase' = phase /\ SameAround /\ Managed /\ w.pc # <<>> /\ Coming(w) = {"mode"} \cup Coming(w')
    BY <1>1, TakenIs, TakenQuietly DEF Taken, Basics, Silent
  <1>3. Managed'
    BY <1>1, <1>2 DEF Managed, Begun, RestSame, SameAround
  <1> QED
    BY <1>1, <1>3, QuietManaged

LEMMA BypassBasics ==
  ASSUME Taken("bypass")
  PROVE  Basics'
  <1>1. phase = "starting" /\ (Aborts \/ (Silent /\ RestSame /\ w'.m = w.m /\ w'.k.dev = w.k.dev))
    BY BypassStep
  <1>2. phase' = phase /\ SameAround /\ w.pc # <<>> /\ SettingsOK /\ Basics
    BY TakenIs DEF Taken
  <1>3. CASE Aborts
    BY <1>1, <1>2, <1>3, AbortTypes, AbortBasics
  <1>4. CASE Silent /\ RestSame /\ w'.m = w.m /\ w'.k.dev = w.k.dev
    BY <1>4, QuietBasics DEF RestSame, SameRoutes
  <1> QED
    BY <1>1, <1>3, <1>4

LEMMA CtabBasics ==
  ASSUME Taken("ctab")
  PROVE  Basics'
  <1>1. \/ Aborts /\ phase = "starting"
        \/ Silent /\ RestSame /\ w'.m = w.m /\ w'.k.dev = w.k.dev
    BY CtabStep DEF AllSame
  <1>2. phase' = phase /\ SameAround /\ w.pc # <<>> /\ SettingsOK /\ Basics
    BY TakenIs DEF Taken
  <1>3. CASE Aborts /\ phase = "starting"
    BY <1>1, <1>2, <1>3, AbortTypes, AbortBasics
  <1>4. CASE Silent /\ RestSame /\ w'.m = w.m /\ w'.k.dev = w.k.dev
    BY <1>4, QuietBasics DEF RestSame, SameRoutes
  <1> QED
    BY <1>1, <1>3, <1>4

LEMMA HijackBasics ==
  ASSUME NEW a \in {"into_tun", "redefault"}, Taken(a), (Silent /\ AllSame) \/ Hijacks
  PROVE  Basics'
  <1>1. CASE Silent /\ AllSame
    BY <1>1, QuietBasics DEF AllSame, RestSame, SameRoutes
  <1>2. CASE Hijacks
    <2>1. Silent /\ w'.file = w.file /\ w'.k = w.k /\ w.k.dev
          /\ w'.m.out = w.m.out /\ w'.m.saved = w.m.saved /\ w'.m.cap = w.m.cap
      BY <1>2 DEF Hijacks
    <2>2. phase' = phase /\ SameAround /\ Managed /\ w.pc # <<>> /\ Coming(w) = {a} \cup Coming(w')
          /\ \A b \in Coming(w') : ~Excluded(phase, a, b)
      BY <2>1, TakenIs, TakenQuietly DEF Taken, Basics, Silent
    <2>3. phase \in {"starting", "running"} /\ (a = "redefault" => phase = "running")
      BY <2>1, <2>2, PhaseOf DEF Managed
    <2>4. phase = "starting" => w'.pc = <<>>
      BY <2>1, <2>2, <2>3, LastIs, Drained DEF Silent
    <2>5. Managed'
      BY <2>1, <2>2, <2>3, <2>4 DEF Managed, Begun, SameAround
    <2> QED
      BY <2>1, <2>5, QuietManaged
  <1> QED
    BY <1>1, <1>2

LEMMA IntoTunBasics ==
  ASSUME Taken("into_tun")
  PROVE  Basics'
  BY IntoTunStep, HijackBasics

LEMMA RedefaultBasics ==
  ASSUME Taken("redefault")
  PROVE  Basics'
  BY RedefaultStep, HijackBasics

LEMMA UndefaultBasics ==
  ASSUME Taken("undefault")
  PROVE  Basics'
  <1>1. /\ Silent /\ w'.k = w.k /\ w'.m = w.m /\ w'.file = w.file /\ w.m.saved \in UpRoutes
        /\ w'.main = w.main \/ w'.main = [w.main EXCEPT ![w.m.saved.metric] = w.m.saved]
    BY UndefaultStep
  <1>2. phase' = phase /\ SameAround /\ Managed /\ w.pc # <<>> /\ Coming(w) = {"undefault"} \cup Coming(w') /\ w \in Machines
    BY <1>1, TakenIs, TakenQuietly DEF Taken, Basics, Silent
  <1>3. phase \in {"tearing", "failing"}
    BY PhaseOf
  <1>4. ~Hijacked(w)
    BY <1>3, NotHijacked
  <1>5. w.m.saved.dev # Dev /\ w.m.saved.metric \in 0..1
    BY <1>1, TunDistinct DEF UpRoutes, Taken
  <1>6. ~Hijacked(w')
    BY <1>1, <1>2, <1>4, <1>5, MachineFields DEF Hijacked
  <1>7. Managed'
    BY <1>1, <1>2, <1>3, <1>6 DEF Managed, Begun, SameAround, Hijacked
  <1> QED
    BY <1>1, <1>7, QuietManaged

LEMMA LinkDelBasics ==
  ASSUME Taken("link_del")
  PROVE  Basics'
  <1>1. Silent /\ w'.m = w.m /\ w'.file = w.file /\ w'.k.dev = FALSE /\ ~Hijacked(w')
    BY LinkDelStep
  <1>2. phase' = phase /\ SameAround /\ Managed /\ w.pc # <<>> /\ Coming(w) = {"link_del"} \cup Coming(w')
    BY <1>1, TakenIs, TakenQuietly DEF Taken, Basics, Silent
  <1>3. Managed'
    BY <1>1, <1>2 DEF Managed, Begun, SameAround, Hijacked
  <1> QED
    BY <1>1, <1>3, QuietManaged

LEMMA RepointBasics ==
  ASSUME Taken("repoint")
  PROVE  Basics'
  <1>1. Silent /\ RestSame /\ w'.k = w.k /\ w'.m.out \in Uplinks /\ w'.m.cap = w.m.cap
        /\ (w'.m.saved = w.m.saved \/ w'.m.saved # None) /\ phase \in {"running", "stopping"}
    BY RepointStep
  <1>2. phase' = phase /\ SameAround /\ Managed /\ w.pc # <<>> /\ Coming(w) = {"repoint"} \cup Coming(w')
    BY <1>1, TakenIs, TakenQuietly DEF Taken, Basics, Silent
  <1>3. Managed'
    BY <1>1, <1>2 DEF Managed, Begun, SameAround, RestSame
  <1> QED
    BY <1>1, <1>3, QuietManaged

LEMMA SetsUpComes ==
  ASSUME SettingsOK, cfg \in Settings, SetsUp
  PROVE  /\ InOrder("starting", w'.pc) /\ Coming(w') \subseteq InSetup /\ {"mode", "tear", "save"} \subseteq Coming(w')
         /\ cfg.skip => Coming(w') \cap {"loosen", "forward", "snat", "notrack", "client_notrack"} = {}
         /\ cfg.capture = "ports" => "captured" \in Coming(w') /\ "into_tun" \notin Coming(w')
         /\ cfg.capture = "default" =>
              Coming(w') \cap {"crule", "ctab", "chain", "fill", "jumps", "captured"} = {}
         /\ \A i \in DOMAIN w'.pc : w'.pc[i] \in Args({})
  <1> DEFINE s == Steps(SetupSteps)
  <1>1. /\ InOrder("starting", s) /\ Does(s) \subseteq InSetup /\ {"mode", "tear", "save"} \subseteq Does(s)
        /\ cfg.skip => Does(s) \cap {"loosen", "forward", "snat", "notrack", "client_notrack"} = {}
        /\ cfg.capture = "ports" => "captured" \in Does(s) /\ "into_tun" \notin Does(s)
        /\ cfg.capture = "default" => Does(s) \cap {"crule", "ctab", "chain", "fill", "jumps", "captured"} = {}
    BY SetupListed
  <1>2. s \in Seq(Args({}))
    BY SetupArgs
  <1>3. w'.pc = s
    BY DEF SetsUp
  <1> HIDE DEF s
  <1>4. Coming(w') = Does(s)
    BY <1>3 DEF Coming, Does
  <1>5. \A i \in DOMAIN s : s[i] \in Args({})
    BY <1>2
  <1> QED
    BY <1>1, <1>3, <1>4, <1>5

LEMMA SetupBasics ==
  ASSUME Taken("setup")
  PROVE  Basics'
  <1>1. phase = "starting" /\ phase' = "starting" /\ (Aborts \/ SetsUp)
    BY SetupStep
  <1>2. SameAround /\ w.pc # <<>> /\ SettingsOK /\ Basics
    BY TakenIs DEF Taken
  <1>3. CASE Aborts
    BY <1>1, <1>2, <1>3, AbortTypes, AbortBasics
  <1>4. CASE SetsUp
    <2>1. TunTypes /\ Managed /\ cfg \in Settings
      BY <1>2 DEF Basics, TunTypes
    <2>2. /\ InOrder("starting", w'.pc) /\ Coming(w') \subseteq InSetup
          /\ {"mode", "tear", "save"} \subseteq Coming(w')
          /\ cfg.skip => Coming(w') \cap {"loosen", "forward", "snat", "notrack", "client_notrack"} = {}
          /\ cfg.capture = "ports" => "captured" \in Coming(w') /\ "into_tun" \notin Coming(w')
          /\ cfg.capture = "default" =>
               Coming(w') \cap {"crule", "ctab", "chain", "fill", "jumps", "captured"} = {}
      BY <1>2, <1>4, <2>1, SetsUpComes
    <2>3. w' \in Machines /\ RestSame /\ w'.k = w.k /\ w'.m.out \in Uplinks
      BY <1>4 DEF SetsUp
    <2>4. TunTypes'
      BY <1>1, <1>2, <2>1, <2>3 DEF TunTypes, SameAround
    <2>5. Sequenced'
      <3>1. InSetup \subseteq Issued("starting")
        BY IssuedIs
      <3> QED
        BY <1>1, <2>2, <3>1 DEF Sequenced
    <2>6. cfg.capture \in {"ports", "default"}
      BY <1>2, <2>1, TunSettings
    <2>7. Prepared'
      <3>1. (InRestore \cup {"open"}) \cap Coming(w') = {}
        BY <2>2 DEF InRestore, InSetup
      <3> QED
        BY <1>1, <1>2, <2>2, <2>6, <3>1 DEF Prepared, Needs, SameAround
    <2>8. Managed'
      <3>1. Coming(w') \cap {"undo_route", "undo_rp", "undefault"} = {} /\ "mode" \in Coming(w')
        BY <2>2 DEF InSetup
      <3> QED
        BY <1>1, <1>2, <2>1, <2>3, <3>1 DEF Managed, Begun, RestSame
    <2> QED
      BY <2>4, <2>5, <2>7, <2>8 DEF Basics
  <1> QED
    BY <1>1, <1>3, <1>4

LEMMA UndoBasics ==
  ASSUME NEW a, Taken(a), a = "fail" \/ a = "teardown", NEW p \in {"tearing", "failing"}, phase' = p, Undoes(p),
         a = "teardown" => phase = "tearing", p = "tearing" => phase = "tearing", a = "fail" => phase = "starting"
  PROVE  Basics'
  <1>1. SameAround /\ w.pc # <<>> /\ SettingsOK /\ Basics
    BY TakenIs DEF Taken
  <1>2. /\ w' \in Machines /\ AllSame /\ InOrder(p, w'.pc) /\ Coming(w') \subseteq InTeardown
        /\ "undefault" \in Coming(w') <=> w.m.cap = "default" /\ w.m.saved # None
    BY DEF Undoes
  <1>3. TunTypes'
    BY <1>1, <1>2 DEF Basics, TunTypes, SameAround, Phases
  <1>4. Sequenced'
    <2>1. InTeardown \subseteq Issued(p)
      BY IssuedIs
    <2> QED
      BY <1>2, <2>1 DEF Sequenced
  <1>5. Prepared'
    BY DEF Prepared
  <1>6. Coming(w') \cap {"undo_route", "undo_rp"} = {}
    BY <1>2 DEF InTeardown
  <1>7. Managed'
    BY <1>1, <1>2, <1>6 DEF Basics, Managed, Begun, SameAround, AllSame, RestSame
  <1> QED
    BY <1>3, <1>4, <1>5, <1>7 DEF Basics

LEMMA TeardownBasics ==
  ASSUME Taken("teardown")
  PROVE  Basics'
  BY TeardownStep, UndoBasics

LEMMA FailBasics ==
  ASSUME Taken("fail")
  PROVE  Basics'
  BY FailStep, UndoBasics

LEMMA CarriedArgs ==
  ASSUME NEW a, Taken(a), phase \in {"running", "stopping"}, w' \in Machines, Carried(w')
  PROVE  w'.pc \in Seq(Args(Addresses))
  <1>1. PICK c \in Addresses :
          \A i \in DOMAIN w'.pc : w'.pc[i] \in Args({c}) \/ \E j \in DOMAIN w.pc : w'.pc[i] = w.pc[j]
    BY DEF Carried
  <1> DEFINE q == w'.pc
             v == w.pc
  <1>2. v \in Seq(Args(Addresses))
    BY DEF Taken, Basics, Prepared
  <1>3. q \in Seq(Commands)
    BY MachineFields
  <1> HIDE DEF q, v
  <1>4. \A j \in DOMAIN v : v[j] \in Args(Addresses)
    BY <1>2
  <1>5. Args({c}) \subseteq Args(Addresses)
    BY DEF Args
  <1>6. \A i \in DOMAIN q : q[i] \in Args({c}) \/ \E j \in DOMAIN v : q[i] = v[j]
    BY <1>1 DEF q, v
  <1>7. \A i \in DOMAIN q : q[i] \in Args(Addresses)
    BY <1>4, <1>5, <1>6
  <1>8. q \in Seq(Args(Addresses))
    BY <1>3, <1>7
  <1> QED
    BY <1>8 DEF q

LEMMA RefreshesBasics ==
  ASSUME NEW a \in {"refresh", "resource"}, Taken(a), phase \in {"running", "stopping"}, phase' = phase,
         (Silent /\ AllSame) \/ \E N, R : Refreshes(a, N, R) /\ Carried(w')
  PROVE  Basics'
  <1>1. CASE Silent /\ AllSame
    BY <1>1, QuietBasics DEF AllSame, RestSame, SameRoutes
  <1>2. CASE \E N, R : Refreshes(a, N, R) /\ Carried(w')
    <2>1. PICK N, R : Refreshes(a, N, R) /\ Carried(w')
      BY <1>2
    <2>2. /\ Coming(w) = {a} \cup R /\ Coming(w') = N \cup R
          /\ w' \in Machines /\ AllSame /\ InOrder(phase, w'.pc)
          /\ N \subseteq InLoop \ (AtEnd \cup {"refresh"}) /\ (cfg.skip => "loosen" \notin N)
          /\ IF w.m.cap = "ports" THEN "into_tun" \notin N ELSE "ctab" \notin N
      BY <2>1 DEF Refreshes
    <2>3. SameAround /\ w.pc # <<>> /\ SettingsOK /\ TunTypes /\ Sequenced /\ Prepared /\ Managed /\ cfg \in Settings
      BY TakenIs DEF Taken, Basics, TunTypes
    <2>4. w.m.cap = cfg.capture /\ cfg.capture \in {"ports", "default"}
      BY <2>3, TunSettings DEF Managed, Begun
    <2>5. TunTypes'
      BY <2>2, <2>3 DEF TunTypes, SameAround
    <2>6. Issued(phase) = InLoop
      BY IssuedIs
    <2>7. Sequenced'
      BY <2>2, <2>3, <2>6 DEF Sequenced
    <2>8. w'.pc \in Seq(Args(Addresses))
      BY <2>1, <2>2, CarriedArgs
    <2>9. N \cap {"redefault", "recapture", "forward", "snat", "renotrack"} = {}
      BY <2>2 DEF AtEnd
    <2>10. Prepared'
      BY <2>2, <2>3, <2>4, <2>8, <2>9 DEF Prepared, SameAround
    <2>11. Coming(w') \cap {"undo_route", "undo_rp", "undefault"} = {}
      <3>1. Coming(w') \subseteq InLoop
        BY <2>6, <2>7 DEF Sequenced
      <3> QED
        BY <3>1 DEF InLoop
    <2>12. Managed'
      BY <2>2, <2>3, <2>11 DEF Managed, Begun, SameAround, AllSame, RestSame
    <2> QED
      BY <2>5, <2>7, <2>10, <2>12 DEF Basics
  <1> QED
    BY <1>1, <1>2

LEMMA RefreshBasics ==
  ASSUME Taken("refresh")
  PROVE  Basics'
  BY RefreshStep, RefreshesBasics

LEMMA ResourceBasics ==
  ASSUME Taken("resource")
  PROVE  Basics'
  BY ResourceStep, RefreshesBasics

\* The others leave the routes alone.
Plain == {"btab", "flush", "unmark", "crule", "chain", "unchain", "renotrack", "rebypass", "stale_chains", "stale_nat", "stale_tables", "jumps", "unforward", "captured", "forward", "fill", "uncapture", "notrack", "client_notrack", "snat", "unsnat", "unnat", "tear", "forget", "save", "unrp", "undo_rp", "loosen", "source", "recapture"}

LEMMA PlainStep ==
  ASSUME NEW a \in Plain, Taken(a)
  PROVE  /\ Silent /\ SameRoutes /\ w'.warned = w.warned
         /\ w'.file = w.file \/ a \in {"tear", "save", "forget"}
  <1>1. CASE a = "btab"
    BY <1>1, BtabStep DEF SameRoutes, UplinkSame, RestSame
  <1>2. CASE a = "flush"
    BY <1>2, FlushStep DEF SameRoutes, UplinkSame, RestSame
  <1>3. CASE a = "unmark"
    BY <1>3, UnmarkStep DEF SameRoutes, UplinkSame, RestSame
  <1>4. CASE a = "crule"
    BY <1>4, CruleStep DEF SameRoutes, UplinkSame, RestSame
  <1>5. CASE a = "chain"
    BY <1>5, ChainStep DEF SameRoutes, UplinkSame, RestSame
  <1>6. CASE a = "unchain"
    BY <1>6, UnchainStep DEF SameRoutes, UplinkSame, RestSame
  <1>7. CASE a = "renotrack"
    BY <1>7, RenotrackStep DEF SameRoutes, UplinkSame, RestSame
  <1>8. CASE a = "rebypass"
    BY <1>8, RebypassStep DEF SameRoutes, UplinkSame, RestSame
  <1>9. CASE a = "stale_chains"
    BY <1>9, StaleChainsStep DEF SameRoutes, UplinkSame, RestSame
  <1>10. CASE a = "stale_nat"
    BY <1>10, StaleNatStep DEF SameRoutes, UplinkSame, RestSame
  <1>11. CASE a = "stale_tables"
    BY <1>11, StaleTablesStep DEF SameRoutes, UplinkSame, RestSame
  <1>12. CASE a = "jumps"
    BY <1>12, JumpsStep DEF SameRoutes, UplinkSame, RestSame
  <1>13. CASE a = "unforward"
    BY <1>13, UnforwardStep DEF SameRoutes, UplinkSame, RestSame
  <1>14. CASE a = "captured"
    BY <1>14, CapturedStep DEF SameRoutes, UplinkSame, RestSame
  <1>15. CASE a = "forward"
    BY <1>15, ForwardStep DEF SameRoutes, UplinkSame, RestSame
  <1>16. CASE a = "fill"
    BY <1>16, FillStep DEF SameRoutes, UplinkSame, RestSame
  <1>17. CASE a = "uncapture"
    BY <1>17, UncaptureStep DEF SameRoutes, UplinkSame, RestSame
  <1>18. CASE a = "notrack"
    BY <1>18, NotrackStep DEF SameRoutes, UplinkSame, RestSame
  <1>19. CASE a = "client_notrack"
    BY <1>19, ClientNotrackStep DEF SameRoutes, UplinkSame, RestSame
  <1>20. CASE a = "snat"
    BY <1>20, SnatStep DEF SameRoutes, UplinkSame, RestSame
  <1>21. CASE a = "unsnat"
    BY <1>21, UnsnatStep DEF SameRoutes, UplinkSame, RestSame
  <1>22. CASE a = "unnat"
    BY <1>22, UnnatStep DEF SameRoutes, UplinkSame, RestSame
  <1>23. CASE a = "tear"
    BY <1>23, TearStep DEF SameRoutes, UplinkSame, RestSame
  <1>24. CASE a = "forget"
    BY <1>24, ForgetStep DEF SameRoutes, UplinkSame, RestSame
  <1>25. CASE a = "save"
    BY <1>25, SaveStep DEF SameRoutes, UplinkSame, RestSame
  <1>26. CASE a = "unrp"
    BY <1>26, UnrpStep DEF SameRoutes, UplinkSame, RestSame
  <1>27. CASE a = "undo_rp"
    BY <1>27, UndoRPStep DEF SameRoutes, UplinkSame, RestSame
  <1>28. CASE a = "loosen"
    BY <1>28, LoosenStep DEF SameRoutes, UplinkSame, RestSame
  <1>29. CASE a = "source"
    BY <1>29, SourceStep DEF SameRoutes, UplinkSame, RestSame
  <1>30. CASE a = "recapture"
    BY <1>30, RecaptureStep DEF SameRoutes, UplinkSame, RestSame
  <1> QED
    BY <1>1, <1>2, <1>3, <1>4, <1>5, <1>6, <1>7, <1>8, <1>9, <1>10, <1>11, <1>12, <1>13, <1>14, <1>15, <1>16, <1>17, <1>18, <1>19, <1>20, <1>21, <1>22, <1>23, <1>24, <1>25, <1>26, <1>27, <1>28, <1>29, <1>30 DEF Plain

LEMMA PlainBasics ==
  ASSUME NEW a \in Plain, Taken(a)
  PROVE  Basics'
  <1>1. Silent /\ SameRoutes /\ (w'.file = w.file \/ a \in {"tear", "save", "forget"})
    BY PlainStep
  <1>2. a \notin {"fail", "setup", "mode"}
    BY DEF Plain
  <1> QED
    BY <1>1, <1>2, QuietBasics

\* All commands.
LEMMA AllCommands ==
  CommandNames = Plain \cup {"restore", "undo_route", "open", "mode", "bypass", "ctab", "into_tun", "redefault", "undefault", "link_del", "repoint", "setup", "teardown", "fail", "refresh", "resource"}
  BY DEF CommandNames, Plain, InSetup, InRestore, InLoop, InTeardown

LEMMA StepTakes ==
  ASSUME SettingsOK, Basics, Step
  PROVE  \E a \in CommandNames : Taken(a)
  <1>1. w \in Machines /\ w.pc # <<>>
    BY DEF Basics, TunTypes, Step
  <1>2. Head(w.pc) \in Commands
    BY <1>1, Popped
  <1>3. Head(w.pc).do \in CommandNames
    BY <1>2 DEF Commands
  <1> QED
    BY <1>3 DEF Taken

LEMMA StepBasics ==
  ASSUME SettingsOK, Basics, Step
  PROVE  Basics'
  <1>1. PICK a \in CommandNames : Taken(a)
    BY StepTakes
  <1>2. CASE a \in Plain
    BY <1>1, <1>2, PlainBasics
  <1>3. CASE a = "restore"
    BY <1>1, <1>3, RestoreBasics
  <1>4. CASE a = "undo_route"
    BY <1>1, <1>4, UndoRouteBasics
  <1>5. CASE a = "open"
    BY <1>1, <1>5, OpenBasics
  <1>6. CASE a = "mode"
    BY <1>1, <1>6, ModeBasics
  <1>7. CASE a = "bypass"
    BY <1>1, <1>7, BypassBasics
  <1>8. CASE a = "ctab"
    BY <1>1, <1>8, CtabBasics
  <1>9. CASE a = "into_tun"
    BY <1>1, <1>9, IntoTunBasics
  <1>10. CASE a = "redefault"
    BY <1>1, <1>10, RedefaultBasics
  <1>11. CASE a = "undefault"
    BY <1>1, <1>11, UndefaultBasics
  <1>12. CASE a = "link_del"
    BY <1>1, <1>12, LinkDelBasics
  <1>13. CASE a = "repoint"
    BY <1>1, <1>13, RepointBasics
  <1>14. CASE a = "setup"
    BY <1>1, <1>14, SetupBasics
  <1>15. CASE a = "teardown"
    BY <1>1, <1>15, TeardownBasics
  <1>16. CASE a = "fail"
    BY <1>1, <1>16, FailBasics
  <1>17. CASE a = "refresh"
    BY <1>1, <1>17, RefreshBasics
  <1>18. CASE a = "resource"
    BY <1>1, <1>18, ResourceBasics
  <1> QED
    BY <1>1, <1>2, <1>3, <1>4, <1>5, <1>6, <1>7, <1>8, <1>9, <1>10, <1>11, <1>12, <1>13, <1>14, <1>15, <1>16, <1>17, <1>18, AllCommands

(* What the other actions change *)

LEMMA Spent ==
  ASSUME SettingsOK, TunTypes, NEW f \in {"moves", "readdr", "wipes", "kills", "fails", "starts", "sets"}, Spend(f)
  PROVE  /\ left' \in Budgets
         /\ left'.kills = (IF f = "kills" THEN left.kills - 1 ELSE left.kills)
         /\ left'.readdr = (IF f = "readdr" THEN left.readdr - 1 ELSE left.readdr)
         /\ left'.kills <= cfg.left.kills /\ left'.readdr <= cfg.left.readdr
         /\ f = "kills" => left'.kills < cfg.left.kills
         /\ f = "readdr" => left'.readdr < cfg.left.readdr
  <1>1. left \in Budgets /\ cfg.left \in Budgets /\ left.kills <= cfg.left.kills /\ left.readdr <= cfg.left.readdr
    BY TunSettings DEF TunTypes
  <1>2. left[f] > 0 /\ left' = [left EXCEPT ![f] = @ - 1] /\ left[f] \in Nat
    BY <1>1 DEF Spend, Budgets
  <1>3. left[f] - 1 \in Nat
    BY <1>2
  <1>4. left' \in Budgets
    BY <1>1, <1>2, <1>3 DEF Budgets
  <1>5. left'.kills = (IF f = "kills" THEN left.kills - 1 ELSE left.kills)
        /\ left'.readdr = (IF f = "readdr" THEN left.readdr - 1 ELSE left.readdr)
    BY <1>1, <1>2 DEF Budgets
  <1>6. left.kills \in Nat /\ left.readdr \in Nat /\ cfg.left.kills \in Nat /\ cfg.left.readdr \in Nat
    BY <1>1 DEF Budgets
  <1> QED
    BY <1>1, <1>4, <1>5, <1>6

Still == cfg' = cfg /\ wan' = wan /\ addr' = addr /\ sets' = sets
         /\ left' \in Budgets /\ left'.kills = left.kills /\ left'.readdr = left.readdr

\* The commands of N take the place of all that were to come.
Reissues(N, p) ==
  /\ w' \in Machines /\ AllSame /\ Coming(w') = N /\ InOrder(p, w'.pc)
  /\ \A i \in DOMAIN w'.pc : w'.pc[i] \in Args({})

LEMMA Reissued ==
  ASSUME w \in Machines, NEW s, NEW p, NEW N, Listed(p, s, N, {}), w' = [w EXCEPT !.pc = s]
  PROVE  Reissues(N, p) /\ w'.pc = s
  <1>1. s \in Seq(Commands) /\ s \in Seq(Args({})) /\ Does(s) = N /\ InOrder(p, s)
    BY DEF Listed
  <1>2. w' \in Machines /\ AllSame /\ w'.pc = s
    BY <1>1 DEF Machines, AllSame, RestSame
  <1>3. \A i \in DOMAIN s : s[i] \in Args({})
    BY <1>1
  <1> QED
    BY <1>1, <1>2, <1>3 DEF Reissues, Coming, Does

LEMMA StartDoes ==
  ASSUME SettingsOK, Basics, Start
  PROVE  Down /\ phase' = "starting" /\ Still /\ Reissues({"restore", "open", "setup"}, "starting")
  <1> DEFINE n == <<"restore", "open", "setup">>
  <1>1. n \in Seq(CommandNames) /\ {n[i] : i \in DOMAIN n} = {"restore", "open", "setup"}
        /\ \A i, j \in DOMAIN n : i < j => ~NeverThen(n[i], n[j])
    BY StartNames
  <1>2. w' = [w EXCEPT !.pc = Steps(n)] /\ w \in Machines
    BY DEF Start, Basics, TunTypes
  <1> HIDE DEF n
  <1>3. \A i, j \in DOMAIN n : i < j => ~Excluded("starting", n[i], n[j])
    BY <1>1, ExcludedIs
  <1>4. Listed("starting", Steps(n), {"restore", "open", "setup"}, {})
    BY <1>1, <1>3, ListedSteps
  <1>5. Reissues({"restore", "open", "setup"}, "starting")
    BY <1>2, <1>4, Reissued
  <1>6. Still
    BY Spent DEF Basics, Start, Still
  <1> QED
    BY <1>5, <1>6 DEF Start

LEMMA ClearStaleDoes ==
  ASSUME SettingsOK, Basics, ClearStaleArtifacts
  PROVE  /\ phase \in {"dead", "failed"} /\ phase' = "clearing" /\ Still
         /\ Reissues({"restore", "stale_chains", "stale_nat", "stale_tables"}, "clearing")
  <1> DEFINE n == <<"restore", "stale_chains", "stale_nat", "stale_tables">>
             N == {"restore", "stale_chains", "stale_nat", "stale_tables"}
  <1>1. n \in Seq(CommandNames) /\ {n[i] : i \in DOMAIN n} = N
        /\ \A i, j \in DOMAIN n : i < j => ~NeverThen(n[i], n[j])
    BY ClearNames
  <1>2. w' = [w EXCEPT !.pc = Steps(n)] /\ w \in Machines
    BY DEF ClearStaleArtifacts, Basics, TunTypes
  <1> HIDE DEF n
  <1>3. \A i, j \in DOMAIN n : i < j => ~Excluded("clearing", n[i], n[j])
    BY <1>1, ExcludedIs
  <1>4. Listed("clearing", Steps(n), N, {})
    BY <1>1, <1>3, ListedSteps
  <1>5. Reissues(N, "clearing")
    BY <1>2, <1>4, Reissued
  <1>6. Still
    BY Spent DEF Basics, ClearStaleArtifacts, Still
  <1> QED
    BY <1>5, <1>6 DEF ClearStaleArtifacts

LEMMA SetupFailsDoes ==
  ASSUME SettingsOK, Basics, SetupFails
  PROVE  /\ phase = "starting" /\ phase' = "starting" /\ Still /\ Aborts /\ w.pc # <<>>
         /\ Head(w.pc).do \in Fallible /\ Head(w.pc).do \in Coming(w)
  <1> DEFINE s == Steps(<<"fail">>)
  <1>1. Listed("starting", s, {"fail"}, {})
    BY FailListed
  <1>2. w' = [w EXCEPT !.pc = s] /\ w \in Machines /\ phase = "starting" /\ phase' = phase /\ w.pc # <<>>
        /\ Head(w.pc).do \in Fallible
    BY DEF SetupFails, Basics, TunTypes, Fallible
  <1> HIDE DEF s
  <1>3. Reissues({"fail"}, "starting") /\ w'.pc = s
    BY <1>1, <1>2, Reissued
  <1>4. Aborts
    BY <1>3 DEF Reissues, Aborts, FailNext, s
  <1>5. Still
    BY Spent DEF Basics, SetupFails, Still
  <1>6. Head(w.pc).do \in Coming(w)
    BY <1>2, Popped
  <1> QED
    BY <1>2, <1>4, <1>5, <1>6

LEMMA TeardownName ==
  LET n == <<"teardown">>
  IN  /\ n \in Seq(CommandNames) /\ {n[i] : i \in DOMAIN n} = {"teardown"}
      /\ \A i, j \in DOMAIN n : i < j => ~NeverThenInTeardown(n[i], n[j])
  <1>1. <<"teardown">> \in Seq(CommandNames)
    BY DEF CommandNames
  <1> DEFINE n == <<"teardown">>
  <1>2. DOMAIN n = {1} /\ n[1] = "teardown"
    OBVIOUS
  <1> HIDE DEF n
  <1>3. {n[i] : i \in DOMAIN n} = {"teardown"}
    BY <1>2
  <1>4. \A i, j \in DOMAIN n : ~(i < j)
    BY <1>2
  <1> QED
    BY <1>1, <1>3, <1>4 DEF n

LEMMA StopTeardownDoes ==
  ASSUME SettingsOK, Basics, StopTeardown
  PROVE  phase = "stopping" /\ w.pc = <<>> /\ phase' = "tearing" /\ Still /\ Reissues({"teardown"}, "tearing")
  <1> DEFINE n == <<"teardown">>
  <1>1. n \in Seq(CommandNames) /\ {n[i] : i \in DOMAIN n} = {"teardown"}
        /\ \A i, j \in DOMAIN n : i < j => ~NeverThenInTeardown(n[i], n[j])
    BY TeardownName
  <1>2. w' = [w EXCEPT !.pc = Steps(n)] /\ w \in Machines
    BY DEF StopTeardown, Basics, TunTypes
  <1> HIDE DEF n
  <1>3. \A i, j \in DOMAIN n : i < j => ~Excluded("tearing", n[i], n[j])
    BY <1>1, ExcludedIs
  <1>4. Listed("tearing", Steps(n), {"teardown"}, {})
    BY <1>1, <1>3, ListedSteps
  <1>5. Reissues({"teardown"}, "tearing")
    BY <1>2, <1>4, Reissued
  <1>6. Still
    BY DEF Basics, TunTypes, StopTeardown, Still
  <1> QED
    BY <1>5, <1>6 DEF StopTeardown

\* A round of the loop.
Reconciles ==
  /\ phase \in {"running", "stopping"} /\ w.pc = <<>> /\ phase' = phase
  /\ \E N : /\ Reissues(N, phase) /\ N \subseteq {"refresh"} \cup AtEnd
            /\ cfg.skip => N \cap {"forward", "snat", "renotrack"} = {}
            /\ IF w.m.cap = "ports" THEN "redefault" \notin N ELSE "recapture" \notin N

LEMMA ReconcilesIs ==
  ASSUME Basics, Looping, w' = reconcile(w), phase' = phase
  PROVE  Reconciles
  <1>1. phase \in {"running", "stopping"} /\ w.pc = <<>> /\ w \in Machines
    BY DEF Looping, Basics, TunTypes
  <1>2. PICK s \in Seq(Commands) :
           /\ reconcile(w) = Then(w, s) /\ InOrder(phase, s) /\ s \in Seq(Args({}))
           /\ Does(s) \subseteq {"refresh"} \cup AtEnd
           /\ cfg.skip => Does(s) \cap {"forward", "snat", "renotrack"} = {}
           /\ IF w.m.cap = "ports" THEN "redefault" \notin Does(s) ELSE "recapture" \notin Does(s)
    BY <1>1, ReconcileListed
  <1>3. Then(w, s) = [w EXCEPT !.pc = s]
    <2>1. s \o <<>> = s
      OBVIOUS
    <2> QED
      BY <1>1, <2>1 DEF Then
  <1>4. Listed(phase, s, Does(s), {}) /\ w' = [w EXCEPT !.pc = s]
    BY <1>2, <1>3 DEF Listed
  <1>5. Reissues(Does(s), phase)
    BY <1>1, <1>4, Reissued
  <1> QED
    BY <1>1, <1>2, <1>5 DEF Reconciles

LEMMA ReconcileDoes ==
  ASSUME SettingsOK, Basics, reconcileLoop \/ Tick
  PROVE  Still /\ Reconciles
  <1>1. Still
    BY DEF Basics, TunTypes, reconcileLoop, Tick, Still
  <1>2. Reconciles
    BY ReconcilesIs DEF reconcileLoop, Tick
  <1> QED
    BY <1>1, <1>2

LEMMA StopDoes ==
  ASSUME SettingsOK, Basics, Stop
  PROVE  /\ phase = "running" /\ phase' = "stopping" /\ Still /\ w' \in Machines /\ w'.pc = w.pc
         /\ w'.rp = w.rp /\ w'.m = w.m /\ w'.file = w.file /\ w'.warned = w.warned
         /\ NatSame /\ BypassSame /\ w'.k.dev = FALSE /\ w'.k.ctab = None
         /\ w'.k.crule = w.k.crule /\ w'.k.chain = w.k.chain /\ w'.k.gate = w.k.gate /\ w'.k.jumps = w.k.jumps
         /\ \A i \in 0..1 : w'.main[i] \in {w.main[i], None}
         /\ ~Hijacked(w') /\ (Routable(w) => Routable(w'))
  <1>1. phase = "running" /\ phase' = "stopping" /\ Still /\ w \in Machines /\ w' = DeviceGone(w)
    BY DEF Stop, Basics, TunTypes, Still
  <1> DEFINE z == DeviceGone(w)
  <1>3. /\ z \in Machines /\ z.pc = w.pc
        /\ z.rp = w.rp /\ z.m = w.m /\ z.file = w.file /\ z.warned = w.warned
        /\ z.k = [w.k EXCEPT !.dev = FALSE, !.ctab = None]
        /\ \A i \in 0..1 : z.main[i] \in {w.main[i], None}
        /\ ~Hijacked(z) /\ (Routable(w) => Routable(z))
    BY <1>1, DeviceGoneDoes
  <1> HIDE DEF z
  <1>4. w' = z
    BY <1>1 DEF z
  <1>5. z.k.dev = FALSE /\ z.k.fwd = w.k.fwd /\ z.k.snat = w.k.snat /\ z.k.notrack = w.k.notrack
        /\ z.k.brule = w.k.brule /\ z.k.btab = w.k.btab /\ z.k.crule = w.k.crule /\ z.k.chain = w.k.chain
        /\ z.k.gate = w.k.gate /\ z.k.jumps = w.k.jumps /\ z.k.ctab = None
    BY <1>1, <1>3, MachineFields DEF Kernels
  <1> QED
    BY <1>1, <1>3, <1>4, <1>5 DEF NatSame, BypassSame

LEMMA NoManagerIs ==
  /\ NoManager \in Managers
  /\ NoManager.src = None /\ NoManager.saved = None
  BY DEF NoManager, Managers

LEMMA EmptyIs ==
  <<>> \in Seq(Commands) /\ \A Z : <<>> \in Seq(Args(Z))
  OBVIOUS

LEMMA KillDoes ==
  ASSUME SettingsOK, Basics, Kill
  PROVE  /\ ~Down /\ phase' = "dead" /\ cfg' = cfg /\ wan' = wan /\ addr' = addr /\ sets' = sets
         /\ left' \in Budgets /\ left'.kills < cfg.left.kills /\ left'.readdr = left.readdr
         /\ w' \in Machines /\ w'.pc = <<>> /\ w'.m = NoManager /\ w'.file = w.file /\ w'.warned = w.warned
         /\ w'.k.dev = FALSE /\ ~Hijacked(w') /\ (Routable(w) => Routable(w'))
  <1>1. w \in Machines /\ w' = [DeviceGone(w) EXCEPT !.m = NoManager, !.pc = <<>>]
    BY DEF Kill, Basics, TunTypes
  <1> DEFINE z == DeviceGone(w)
  <1>3. /\ z \in Machines /\ z.file = w.file /\ z.warned = w.warned
        /\ z.k = [w.k EXCEPT !.dev = FALSE, !.ctab = None]
        /\ ~Hijacked(z) /\ (Routable(w) => Routable(z))
    BY <1>1, DeviceGoneDoes
  <1>4. w' = [z EXCEPT !.m = NoManager, !.pc = <<>>]
    BY <1>1
  <1> HIDE DEF z
  <1>5. z.k.dev = FALSE
    BY <1>1, <1>3, MachineFields DEF Kernels
  <1>6. w' \in Machines /\ w'.pc = <<>> /\ w'.m = NoManager /\ w'.file = z.file /\ w'.warned = z.warned
        /\ w'.k = z.k /\ w'.main = z.main
    BY <1>3, <1>4, NoManagerIs, EmptyIs DEF Machines
  <1>7. (Hijacked(w') <=> Hijacked(z)) /\ (Routable(w') <=> Routable(z))
    BY <1>6 DEF Hijacked, Routable
  <1>8. left' \in Budgets /\ left'.kills < cfg.left.kills /\ left'.readdr = left.readdr
    BY Spent DEF Kill, Basics
  <1> QED
    BY <1>3, <1>5, <1>6, <1>7, <1>8 DEF Kill

\* The last command has returned.
Ends ==
  /\ w' \in Machines /\ w'.pc = <<>> /\ w.pc = <<>> /\ RestSame /\ w'.k = w.k
  /\ \/ phase = "starting" /\ phase' = "running" /\ w'.m = w.m
     \/ phase = "tearing" /\ phase' = "stopped" /\ w'.m = NoManager
     \/ phase = "failing" /\ phase' = "failed" /\ w'.m = NoManager
     \/ phase = "clearing" /\ phase' = "cleared" /\ w'.m = NoManager

LEMMA OverDoes ==
  ASSUME SettingsOK, Basics, Over
  PROVE  Still /\ Ends
  <1>1. w \in Machines /\ w.pc = <<>>
    BY DEF Over, Basics, TunTypes
  <1>2. Still
    BY DEF Over, Basics, TunTypes, Still
  <1>3. \/ phase = "starting" /\ phase' = "running"
        \/ phase = "tearing" /\ phase' = "stopped"
        \/ phase = "failing" /\ phase' = "failed"
        \/ phase = "clearing" /\ phase' = "cleared"
    BY DEF Over
  <1>4. w' = IF phase' = "running" THEN w ELSE [w EXCEPT !.m = NoManager]
    BY DEF Over
  <1> DEFINE z == [w EXCEPT !.m = NoManager]
  <1>5. z \in Machines /\ z.pc = w.pc /\ z.m = NoManager
        /\ z.main = w.main /\ z.rp = w.rp /\ z.file = w.file /\ z.k = w.k /\ z.warned = w.warned
    BY <1>1, NoManagerIs, ManagerSet DEF OnlyManager
  <1>6. w' = IF phase' = "running" THEN w ELSE z
    BY <1>4
  <1> HIDE DEF z
  <1> QED
    BY <1>1, <1>2, <1>3, <1>5, <1>6 DEF Ends, RestSame

\* What happens around the process.
Meanwhile ==
  /\ TunTypes' /\ cfg' = cfg /\ phase' = phase /\ w' \in Machines /\ w'.pc = w.pc /\ w'.m = w.m /\ w'.file = w.file
  /\ w'.rp = w.rp /\ w'.warned = w.warned
  /\ w'.k.dev = w.k.dev /\ w'.k.crule = w.k.crule /\ w'.k.ctab = w.k.ctab /\ w'.k.brule = w.k.brule
  /\ w'.k.btab \in {w.k.btab, None} /\ w'.k.snat \in {w.k.snat, {}} /\ w'.k.notrack \in {w.k.notrack, {}}
  /\ w'.k.jumps \in {w.k.jumps, {}} /\ (w'.k.fwd => w.k.fwd) /\ (w'.k.gate => w.k.gate)
  /\ w.k.chain = None => w'.k.chain = None
  /\ (Hijacked(w') => Hijacked(w)) /\ (Routable(w) => Routable(w'))
  /\ left'.kills <= left.kills /\ left'.readdr <= left.readdr
  /\ Readdressed' \/ /\ addr' = addr
                         /\ \A i \in 0..1 : \/ w'.main[i] \in {w.main[i], None} \/ w'.main[i].src = None
                                            \/ \E u \in Uplinks : w'.main[i].src = addr[u]

LEMMA LeastChange ==
  ASSUME SettingsOK, Basics, cfg' = cfg, wan' = wan, addr' = addr, sets' \in 0..1, w' = w, phase' = phase,
         left' \in Budgets, left'.kills = left.kills, left'.readdr = left.readdr
  PROVE  Meanwhile
  <1>1. TunTypes'
    BY DEF Basics, TunTypes
  <1>2. left.kills \in Nat /\ left.readdr \in Nat /\ w \in Machines
    BY DEF Basics, TunTypes, Budgets
  <1>3. left.kills <= left.kills /\ left.readdr <= left.readdr
    BY <1>2
  <1> QED
    BY <1>1, <1>2, <1>3 DEF Meanwhile, Hijacked, Routable

LEMMA TimerDoes ==
  ASSUME SettingsOK, Basics, TimerFires \/ UNCHANGED vars
  PROVE  Meanwhile
  <1>1. /\ cfg' = cfg /\ wan' = wan /\ addr' = addr /\ sets' = sets /\ w' = w /\ phase' = phase /\ left' = left
    BY DEF TimerFires, vars
  <1>2. sets \in 0..1 /\ left \in Budgets
    BY DEF Basics, TunTypes
  <1> QED
    BY <1>1, <1>2, LeastChange

LEMMA SetsChangeDoes ==
  ASSUME SettingsOK, Basics, SetsChange
  PROVE  Meanwhile
  <1>1. /\ cfg' = cfg /\ wan' = wan /\ addr' = addr /\ sets' = 1 - sets /\ w' = w /\ phase' = phase
    BY DEF SetsChange
  <1>2. 1 - sets \in 0..1
    BY DEF Basics, TunTypes
  <1>3. left' \in Budgets /\ left'.kills = left.kills /\ left'.readdr = left.readdr
    BY Spent DEF SetsChange, Basics
  <1> QED
    BY <1>1, <1>2, <1>3, LeastChange

LEMMA WipeDoes ==
  ASSUME SettingsOK, Basics, NEW chains \in BOOLEAN, Wipe(chains)
  PROVE  Meanwhile
  <1> DEFINE c == IF chains \/ w.k.chain = None THEN None ELSE Empty
             k == [w.k EXCEPT !.fwd = FALSE, !.snat = {}, !.notrack = {}, !.jumps = {}, !.gate = FALSE, !.chain = c]
  <1>1. w \in Machines /\ w.k \in Kernels /\ TunTypes
    BY MachineFields DEF Basics, TunTypes
  <1>2. w' = [w EXCEPT !.k = k]
    BY <1>1 DEF Wipe, Machines, Kernels
  <1>3. k \in Kernels
    BY <1>1 DEF Kernels
  <1>4. k.dev = w.k.dev /\ k.fwd = FALSE /\ k.snat = {} /\ k.notrack = {} /\ k.brule = w.k.brule /\ k.btab = w.k.btab
        /\ k.crule = w.k.crule /\ k.ctab = w.k.ctab /\ k.chain = c /\ k.gate = FALSE /\ k.jumps = {}
    BY <1>1 DEF Kernels
  <1> HIDE DEF k
  <1>5. OnlyKernel(w', w) /\ w'.k = k
    BY <1>1, <1>2, <1>3, KernelSet
  <1>6. /\ cfg' = cfg /\ wan' = wan /\ addr' = addr /\ sets' = sets /\ phase' = phase
    BY DEF Wipe
  <1>7. left' \in Budgets /\ left'.kills = left.kills /\ left'.readdr = left.readdr
    BY <1>1, Spent DEF Wipe
  <1>8. TunTypes'
    BY <1>1, <1>5, <1>6, <1>7 DEF TunTypes, OnlyKernel
  <1>9. left.kills \in Nat /\ left.readdr \in Nat
    BY <1>1 DEF TunTypes, Budgets
  <1>10. left'.kills <= left.kills /\ left'.readdr <= left.readdr
    BY <1>7, <1>9
  <1> QED
    BY <1>4, <1>5, <1>6, <1>8, <1>10 DEF Meanwhile, OnlyKernel, Hijacked, Routable

\* The route that the system's scripts write.
LEMMA GivenIs ==
  ASSUME SettingsOK, cfg \in Settings, NEW u \in Uplinks, NEW a \in Addresses
  PROVE  LET r == Given(u, a)
         IN  /\ r \in Routes /\ r # None /\ r.dev # Dev /\ (r.src = None \/ r.src = a)
  <1> DEFINE r == Given(u, a)
             s == IF cfg.prints THEN a ELSE None
  <1>1. r = [dev |-> u, src |-> s, metric |-> cfg.metric]
    BY DEF Given, Route
  <1>2. cfg.metric \in 0..1 /\ s \in Addresses \cup {None}
    BY TunSettings
  <1>3. r \in Routes /\ r.dev = u /\ r.src = s
    BY <1>1, <1>2 DEF Routes
  <1> QED
    BY <1>3, TunDistinct

\* The main table with a route written at one metric.
LEMMA Rewritten ==
  ASSUME NEW x, NEW z, NEW i \in 0..1, NEW r, r # None, r.dev # Dev, z.main[i] = r,
         \A j \in 0..1 : j # i => z.main[j] \in {x.main[j], None}
  PROVE  Routable(z) /\ (Hijacked(z) => Hijacked(x)) /\ \A j \in 0..1 : z.main[j] \in {x.main[j], None, r}
  <1>1. Routable(z)
    BY DEF Routable
  <1>2. ASSUME Hijacked(z) PROVE Hijacked(x)
    <2>1. PICK j \in 0..1 : z.main[j] # None /\ z.main[j].dev = Dev
      BY <1>2 DEF Hijacked
    <2>2. j # i /\ z.main[j] = x.main[j]
      BY <2>1
    <2> QED
      BY <2>1, <2>2 DEF Hijacked
  <1> QED
    BY <1>1, <1>2

LEMMA DefaultMovesDoes ==
  ASSUME SettingsOK, Basics, NEW u \in Uplinks, NEW drop \in BOOLEAN, DefaultMoves(u, drop)
  PROVE  Meanwhile
  <1> DEFINE r == Given(u, addr[u])
             b == IF drop /\ w.k.btab = wan THEN None ELSE w.k.btab
             k == [w.k EXCEPT !.btab = b]
             t == [w.main EXCEPT ![cfg.metric] = r]
  <1>1. w \in Machines /\ w.k \in Kernels /\ TunTypes /\ cfg \in Settings /\ addr[u] \in Addresses
        /\ w.main \in [0..1 -> Routes \cup {None}] /\ cfg.metric \in 0..1
    BY MachineFields, TunSettings DEF Basics, TunTypes
  <1>2. r \in Routes /\ r # None /\ r.dev # Dev /\ (r.src = None \/ r.src = addr[u])
    BY <1>1, GivenIs
  <1>3. w' = [w EXCEPT !.main[cfg.metric] = r, !.k.btab = b]
    BY <1>1 DEF DefaultMoves, Machines, Kernels
  <1>4. b \in Uplinks \cup {None}
    BY <1>1, KernelFields
  <1> HIDE DEF r, b
  <1>5. w' = [w EXCEPT !.main = t, !.k = k]
    BY <1>1, <1>3 DEF Machines
  <1>6. k \in Kernels /\ t \in [0..1 -> Routes \cup {None}]
    BY <1>1, <1>2, <1>4 DEF Kernels
  <1>7. k.dev = w.k.dev /\ k.fwd = w.k.fwd /\ k.snat = w.k.snat /\ k.notrack = w.k.notrack /\ k.brule = w.k.brule
        /\ k.btab = b /\ k.crule = w.k.crule /\ k.ctab = w.k.ctab /\ k.chain = w.k.chain /\ k.gate = w.k.gate
        /\ k.jumps = w.k.jumps
    BY <1>1 DEF Kernels
  <1>20. t = [w.main EXCEPT ![cfg.metric] = r]
    OBVIOUS
  <1> HIDE DEF k, t
  <1>8. w' \in Machines /\ w'.pc = w.pc /\ w'.m = w.m /\ w'.file = w.file /\ w'.rp = w.rp /\ w'.warned = w.warned
        /\ w'.k = k /\ w'.main = t
    BY <1>1, <1>5, <1>6 DEF Machines
  <1>9. Routable(w') /\ (Hijacked(w') => Hijacked(w)) /\ \A j \in 0..1 : w'.main[j] \in {w.main[j], None, r}
    <2>1. t[cfg.metric] = r /\ \A j \in 0..1 : j # cfg.metric => t[j] = w.main[j]
      BY <1>1, <1>20
    <2>2. w'.main[cfg.metric] = r /\ \A j \in 0..1 : j # cfg.metric => w'.main[j] \in {w.main[j], None}
      BY <1>8, <2>1
    <2> QED
      BY <1>1, <1>2, <2>2, Rewritten
  <1>10. /\ cfg' = cfg /\ wan' = u /\ addr' = addr /\ sets' = sets /\ phase' = phase
    BY DEF DefaultMoves
  <1>11. left' \in Budgets /\ left'.kills = left.kills /\ left'.readdr = left.readdr
    BY <1>1, Spent DEF DefaultMoves
  <1>12. TunTypes'
    BY <1>1, <1>8, <1>10, <1>11 DEF TunTypes
  <1>13. left.kills \in Nat /\ left.readdr \in Nat
    BY <1>1 DEF TunTypes, Budgets
  <1>14. left'.kills <= left.kills /\ left'.readdr <= left.readdr
    BY <1>11, <1>13
  <1>15. b \in {w.k.btab, None}
    BY DEF b
  <1>16. \A i \in 0..1 : \/ w'.main[i] \in {w.main[i], None} \/ w'.main[i].src = None
                         \/ \E v \in Uplinks : w'.main[i].src = addr[v]
    BY <1>2, <1>9
  <1> QED
    BY <1>7, <1>8, <1>9, <1>10, <1>12, <1>14, <1>15, <1>16 DEF Meanwhile

LEMMA AddressChangesDoes ==
  ASSUME SettingsOK, Basics, AddressChanges
  PROVE  Meanwhile
  <1> DEFINE a == <<wan, addr[wan][2] + 1>>
             kept == [i \in 0..1 |-> IF w.main[i] # None /\ w.main[i].src = addr[wan] THEN None ELSE w.main[i]]
             r == Given(wan, a)
             t == [kept EXCEPT ![cfg.metric] = r]
  <1>1. w \in Machines /\ TunTypes /\ cfg \in Settings /\ wan \in Uplinks /\ addr \in [Uplinks -> Addresses]
        /\ w.main \in [0..1 -> Routes \cup {None}] /\ cfg.metric \in 0..1
    BY MachineFields, TunSettings DEF Basics, TunTypes
  <1>2. a \in Addresses
    BY <1>1 DEF Addresses
  <1>3. addr' = [addr EXCEPT ![wan] = a] /\ w' = [w EXCEPT !.main = t]
    BY DEF AddressChanges
  <1>4. kept \in [0..1 -> Routes \cup {None}] /\ \A j \in 0..1 : kept[j] \in {w.main[j], None}
    BY <1>1
  <1> HIDE DEF a, kept
  <1>5. r \in Routes /\ r # None /\ r.dev # Dev
    BY <1>1, <1>2, GivenIs
  <1> HIDE DEF r
  <1>6. t \in [0..1 -> Routes \cup {None}] /\ t = [kept EXCEPT ![cfg.metric] = r]
    BY <1>1, <1>4, <1>5
  <1> HIDE DEF t
  <1>8. w' \in Machines /\ w'.pc = w.pc /\ w'.m = w.m /\ w'.file = w.file /\ w'.rp = w.rp /\ w'.warned = w.warned
        /\ w'.k = w.k /\ w'.main = t
    BY <1>1, <1>3, <1>6 DEF Machines
  <1>7. w'.main[cfg.metric] = r /\ \A j \in 0..1 : j # cfg.metric => w'.main[j] \in {w.main[j], None}
    <2>1. t[cfg.metric] = r /\ \A j \in 0..1 : j # cfg.metric => t[j] = kept[j]
      BY <1>1, <1>4, <1>6
    <2> QED
      BY <1>4, <1>8, <2>1
  <1>9. Routable(w') /\ (Hijacked(w') => Hijacked(w))
    BY <1>1, <1>5, <1>7, Rewritten
  <1>10. /\ cfg' = cfg /\ wan' = wan /\ sets' = sets /\ phase' = phase
    BY DEF AddressChanges
  <1>11. left' \in Budgets /\ left'.kills = left.kills /\ left'.readdr = left.readdr - 1
         /\ left'.readdr < cfg.left.readdr
    BY <1>1, Spent DEF AddressChanges
  <1>12. left.kills \in Nat /\ left.readdr \in Nat /\ left'.readdr <= cfg.left.readdr
    BY <1>1, Spent DEF TunTypes, Budgets, AddressChanges
  <1>13. TunTypes'
    BY <1>1, <1>2, <1>3, <1>8, <1>10, <1>11, <1>12 DEF TunTypes
  <1>14. left'.kills <= left.kills /\ left'.readdr <= left.readdr
    BY <1>11, <1>12
  <1>15. Readdressed'
    BY <1>10, <1>11 DEF Readdressed
  <1> QED
    BY <1>8, <1>9, <1>10, <1>13, <1>14, <1>15 DEF Meanwhile

(* The first state *)

LEMMA InitIs ==
  ASSUME SettingsOK, Init
  PROVE  /\ TunTypes /\ w.pc = <<>> /\ Coming(w) = {} /\ phase = "stopped" /\ w.m = NoManager /\ w.file = None
         /\ Routable(w) /\ ~Hijacked(w) /\ w.k.dev = FALSE /\ w.k.fwd = FALSE /\ w.k.snat = {} /\ w.k.notrack = {}
         /\ w.k.brule = FALSE /\ w.k.btab = None /\ w.k.crule = FALSE /\ w.k.ctab = None /\ w.k.chain = None
         /\ w.k.gate = FALSE /\ w.k.jumps = {} /\ (\A u \in Uplinks : w.rp[u] = "admin")
         /\ addr = [u \in Uplinks |-> <<u, 0>>] /\ w.warned = FALSE
         /\ \A i \in 0..1 : w.main[i] # None => w.main[i].src = None \/ \E u \in Uplinks : w.main[i].src = addr[u]
  <1> DEFINE r == Route(wan, IF cfg.prints THEN addr[wan] ELSE None, cfg.metric)
             t == [i \in 0..1 |-> IF i = cfg.metric THEN r ELSE None]
             k == [dev |-> FALSE, fwd |-> FALSE, snat |-> {}, notrack |-> {}, brule |-> FALSE, btab |-> None,
                   crule |-> FALSE, ctab |-> None, chain |-> None, gate |-> FALSE, jumps |-> {}]
             f == [u \in Uplinks |-> "admin"]
  <1>1. cfg \in Settings /\ wan \in Uplinks /\ addr = [u \in Uplinks |-> <<u, 0>>] /\ sets = 0 /\ phase = "stopped"
        /\ left = cfg.left
    BY TunDistinct DEF Init
  <1>2. addr \in [Uplinks -> Addresses] /\ cfg.metric \in 0..1 /\ left \in Budgets
    BY <1>1, TunSettings DEF Addresses
  <1>3. w = [main |-> t, rp |-> f, k |-> k, file |-> None, m |-> NoManager, warned |-> FALSE, pc |-> <<>>]
    <2>1. t = [i \in 0..1 |-> IF i = cfg.metric THEN Route(wan, IF cfg.prints THEN addr[wan] ELSE None, i) ELSE None]
      OBVIOUS
    <2> QED
      BY <2>1 DEF Init
  <1>4. r \in Routes /\ r # None /\ r.dev # Dev /\ (r.src = None \/ r.src = addr[wan])
    BY <1>1, <1>2, GivenIs DEF Given
  <1>5. k \in Kernels /\ f \in [Uplinks -> {"admin", "loose"}]
    BY DEF Kernels
  <1> HIDE DEF r
  <1>6. t \in [0..1 -> Routes \cup {None}] /\ t[cfg.metric] = r /\ \A i \in 0..1 : t[i] \in {r, None}
    BY <1>2, <1>4
  <1>7. k.dev = FALSE /\ k.fwd = FALSE /\ k.snat = {} /\ k.notrack = {}
         /\ k.brule = FALSE /\ k.btab = None /\ k.crule = FALSE /\ k.ctab = None /\ k.chain = None
         /\ k.gate = FALSE /\ k.jumps = {} /\ (\A u \in Uplinks : f[u] = "admin")
    OBVIOUS
  <1> HIDE DEF t, k, f
  <1>8. w \in Machines
    BY <1>3, <1>5, <1>6, NoManagerIs, EmptyIs DEF Machines
  <1>9. w.main = t /\ w.rp = f /\ w.k = k /\ w.file = None /\ w.m = NoManager /\ w.warned = FALSE /\ w.pc = <<>>
    BY <1>3
  <1>10. TunTypes
    <2>1. left.kills <= cfg.left.kills /\ left.readdr <= cfg.left.readdr
      BY <1>1, <1>2 DEF Budgets
    <2> QED
      BY <1>1, <1>2, <1>8, <2>1 DEF TunTypes, Phases
  <1>11. Coming(w) = {}
    BY <1>8, <1>9, Drained
  <1>12. Routable(w) /\ ~Hijacked(w)
    BY <1>2, <1>4, <1>6, <1>9 DEF Routable, Hijacked
  <1>13. \A i \in 0..1 : w.main[i] # None => w.main[i].src = None \/ \E u \in Uplinks : w.main[i].src = addr[u]
    BY <1>1, <1>4, <1>6, <1>9
  <1> QED
    BY <1>1, <1>7, <1>9, <1>10, <1>11, <1>12, <1>13

(* The basic invariant through every action *)

LEMMA InitBasics ==
  ASSUME SettingsOK, Init
  PROVE  Basics
  <1>1. TunTypes /\ w.pc = <<>> /\ Coming(w) = {} /\ phase = "stopped" /\ ~Hijacked(w) /\ w.k.dev = FALSE
    BY InitIs
  <1>2. DOMAIN <<>> = {}
    OBVIOUS
  <1>3. Sequenced
    BY <1>1, <1>2 DEF Sequenced, InOrder
  <1>4. Prepared
    BY <1>1 DEF Prepared
  <1>5. Managed
    BY <1>1 DEF Managed, Begun, Hijacked
  <1> QED
    BY <1>1, <1>3, <1>4, <1>5 DEF Basics

LEMMA StillTypes ==
  ASSUME TunTypes, Still, w' \in Machines, phase' \in Phases
  PROVE  TunTypes'
  BY DEF TunTypes, Still

LEMMA StartBasics ==
  ASSUME SettingsOK, Basics, Start
  PROVE  Basics'
  <1>1. /\ Down /\ phase' = "starting" /\ Still /\ w' \in Machines /\ AllSame
        /\ Coming(w') = {"restore", "open", "setup"} /\ InOrder("starting", w'.pc)
    BY StartDoes DEF Reissues
  <1>2. TunTypes /\ Managed
    BY DEF Basics
  <1>3. TunTypes'
    BY <1>1, <1>2, StillTypes DEF Phases
  <1>4. Sequenced'
    BY <1>1, IssuedIs DEF Sequenced, InRestore
  <1>5. Prepared'
    BY <1>1 DEF Prepared, Needs
  <1>6. Managed'
    BY <1>1, <1>2 DEF Managed, Begun, AllSame, RestSame, Down
  <1> QED
    BY <1>3, <1>4, <1>5, <1>6 DEF Basics

LEMMA ClearStaleBasics ==
  ASSUME SettingsOK, Basics, ClearStaleArtifacts
  PROVE  Basics'
  <1>1. /\ phase \in {"dead", "failed"} /\ phase' = "clearing" /\ Still /\ w' \in Machines /\ AllSame
        /\ Coming(w') = {"restore", "stale_chains", "stale_nat", "stale_tables"} /\ InOrder("clearing", w'.pc)
    BY ClearStaleDoes DEF Reissues
  <1>2. TunTypes /\ Managed
    BY DEF Basics
  <1>3. TunTypes'
    BY <1>1, <1>2, StillTypes DEF Phases
  <1>4. Sequenced'
    BY <1>1, IssuedIs DEF Sequenced, InRestore
  <1>5. Prepared'
    BY <1>1 DEF Prepared
  <1>6. Managed'
    BY <1>1, <1>2 DEF Managed, Begun, AllSame, RestSame
  <1> QED
    BY <1>3, <1>4, <1>5, <1>6 DEF Basics

LEMMA SetupFailsBasics ==
  ASSUME SettingsOK, Basics, SetupFails
  PROVE  Basics'
  <1>1. phase = "starting" /\ phase' = "starting" /\ Still /\ Aborts /\ w.pc # <<>>
    BY SetupFailsDoes
  <1>2. TunTypes'
    BY <1>1, StillTypes DEF Basics, Aborts, Phases
  <1> QED
    BY <1>1, <1>2, AbortBasics

LEMMA OverBasics ==
  ASSUME SettingsOK, Basics, ClearsAll, Over
  PROVE  Basics'
  <1>1. Still /\ Ends /\ TunTypes /\ Managed
    BY OverDoes DEF Basics
  <1>2. w' \in Machines /\ w'.pc = <<>> /\ w.pc = <<>> /\ RestSame /\ w'.k = w.k /\ w \in Machines
    BY <1>1 DEF Ends, TunTypes
  <1>3. Coming(w) = {} /\ Coming(w') = {}
    BY <1>2, Drained
  <1>4. TunTypes'
    BY <1>1, <1>2, StillTypes DEF Phases, Ends
  <1>5. DOMAIN <<>> = {}
    OBVIOUS
  <1>6. Sequenced'
    BY <1>2, <1>3, <1>5 DEF Sequenced, InOrder
  <1>7. w'.pc \in Seq(Args(Addresses))
    BY <1>2, EmptyIs
  <1>8. Prepared'
    BY <1>1, <1>3, <1>7 DEF Prepared, Ends
  <1>9. cfg' = cfg
    BY <1>1 DEF Still
  <1>10. Managed'
    <2>1. CASE phase = "starting" /\ phase' = "running" /\ w'.m = w.m
      BY <1>1, <1>2, <1>3, <1>9, <2>1 DEF Managed, Begun, RestSame
    <2>2. CASE phase \in {"tearing", "failing", "clearing"} /\ phase' \in {"stopped", "failed", "cleared"}
      <3>1. ~w.k.dev
        BY <1>1, <1>3, <2>2 DEF Managed, ClearsAll
      <3>2. \A i \in 0..1 : ~(w'.main[i] # None /\ w'.main[i].dev = Dev)
        BY <1>1, <1>2, <2>2 DEF Managed, RestSame
      <3> QED
        BY <1>2, <1>3, <2>2, <3>1, <3>2 DEF Managed, Begun
    <2> QED
      BY <1>1, <2>1, <2>2 DEF Ends
  <1> QED
    BY <1>4, <1>6, <1>8, <1>10 DEF Basics

LEMMA ReconcileBasics ==
  ASSUME SettingsOK, Basics, reconcileLoop \/ Tick
  PROVE  Basics'
  <1>1. Still /\ Reconciles /\ TunTypes /\ Managed /\ cfg \in Settings
    BY ReconcileDoes DEF Basics, TunTypes
  <1>2. PICK N : /\ Reissues(N, phase) /\ N \subseteq {"refresh"} \cup AtEnd
                 /\ cfg.skip => N \cap {"forward", "snat", "renotrack"} = {}
                 /\ IF w.m.cap = "ports" THEN "redefault" \notin N ELSE "recapture" \notin N
    BY <1>1 DEF Reconciles
  <1>3. phase \in {"running", "stopping"} /\ phase' = phase /\ cfg' = cfg
    BY <1>1 DEF Reconciles, Still
  <1>4. w' \in Machines /\ AllSame /\ Coming(w') = N /\ InOrder(phase, w'.pc)
        /\ \A i \in DOMAIN w'.pc : w'.pc[i] \in Args({})
    BY <1>2 DEF Reissues
  <1>5. TunTypes'
    BY <1>1, <1>3, <1>4, StillTypes DEF Phases
  <1>6. N \subseteq InLoop
    BY <1>2 DEF AtEnd, InLoop
  <1>7. Sequenced'
    BY <1>3, <1>4, <1>6, IssuedIs DEF Sequenced
  <1>8. w.m.cap = cfg.capture /\ cfg.capture \in {"ports", "default"}
    BY <1>1, <1>3, TunSettings DEF Managed, Begun
  <1>9. w'.pc \in Seq(Args(Addresses))
    <2> DEFINE q == w'.pc
    <2>1. q \in Seq(Commands)
      BY <1>4, MachineFields
    <2>2. Args({}) \subseteq Args(Addresses)
      BY DEF Args
    <2> HIDE DEF q
    <2>3. \A i \in DOMAIN q : q[i] \in Args(Addresses)
      BY <1>4, <2>2 DEF q
    <2>4. q \in Seq(Args(Addresses))
      BY <2>1, <2>3
    <2> QED
      BY <2>4 DEF q
  <1>10. N \cap {"into_tun", "ctab", "loosen", "undo_route", "undo_rp", "undefault"} = {}
    BY <1>2 DEF AtEnd
  <1>11. Prepared'
    BY <1>2, <1>3, <1>4, <1>8, <1>9, <1>10 DEF Prepared
  <1>12. Managed'
    BY <1>1, <1>3, <1>4, <1>10 DEF Managed, Begun, AllSame, RestSame
  <1> QED
    BY <1>5, <1>7, <1>11, <1>12 DEF Basics

LEMMA StopBasics ==
  ASSUME SettingsOK, Basics, Stop
  PROVE  Basics'
  <1>1. /\ phase = "running" /\ phase' = "stopping" /\ Still /\ w' \in Machines /\ w'.pc = w.pc
        /\ w'.m = w.m /\ w'.file = w.file /\ w'.k.dev = FALSE /\ ~Hijacked(w') /\ cfg' = cfg
    BY StopDoes DEF Still
  <1>2. TunTypes /\ Sequenced /\ Prepared /\ Managed
    BY DEF Basics
  <1>3. TunTypes'
    BY <1>1, <1>2, StillTypes DEF Phases
  <1>4. Coming(w') = Coming(w)
    BY <1>1 DEF Coming
  <1>5. InOrder("stopping", w.pc)
    <2>1. InOrder("running", w.pc)
      BY <1>1, <1>2 DEF Sequenced
    <2> QED
      BY <2>1, ExcludedIs DEF InOrder
  <1>6. Sequenced'
    BY <1>1, <1>2, <1>4, <1>5, IssuedIs DEF Sequenced
  <1>7. Prepared'
    BY <1>1, <1>2, <1>4 DEF Prepared
  <1>8. Managed'
    BY <1>1, <1>2, <1>4 DEF Managed, Begun, Hijacked
  <1> QED
    BY <1>3, <1>6, <1>7, <1>8 DEF Basics

LEMMA StopTeardownBasics ==
  ASSUME SettingsOK, Basics, StopTeardown
  PROVE  Basics'
  <1>1. /\ phase = "stopping" /\ w.pc = <<>> /\ phase' = "tearing" /\ Still /\ w' \in Machines /\ AllSame
        /\ Coming(w') = {"teardown"} /\ InOrder("tearing", w'.pc) /\ cfg' = cfg
    BY StopTeardownDoes DEF Reissues, Still
  <1>2. TunTypes /\ Managed
    BY DEF Basics
  <1>3. TunTypes'
    BY <1>1, <1>2, StillTypes DEF Phases
  <1>4. Sequenced'
    BY <1>1, IssuedIs DEF Sequenced
  <1>5. Prepared'
    BY <1>1 DEF Prepared
  <1>6. Managed'
    BY <1>1, <1>2 DEF Managed, Begun, AllSame, RestSame
  <1> QED
    BY <1>3, <1>4, <1>5, <1>6 DEF Basics

LEMMA KillBasics ==
  ASSUME SettingsOK, Basics, Kill
  PROVE  Basics'
  <1>1. /\ phase' = "dead" /\ cfg' = cfg /\ wan' = wan /\ addr' = addr /\ sets' = sets
        /\ left' \in Budgets /\ left'.kills < cfg.left.kills /\ left'.readdr = left.readdr
        /\ w' \in Machines /\ w'.pc = <<>> /\ w'.k.dev = FALSE /\ ~Hijacked(w')
    BY KillDoes
  <1>2. TunTypes
    BY DEF Basics
  <1>3. left'.kills <= cfg.left.kills
    <2>1. left'.kills \in Nat /\ cfg.left.kills \in Nat
      BY <1>1, <1>2, TunSettings DEF TunTypes, Budgets
    <2> QED
      BY <1>1, <2>1
  <1>4. TunTypes'
    BY <1>1, <1>2, <1>3 DEF TunTypes, Phases
  <1>5. Coming(w') = {}
    BY <1>1, Drained
  <1>6. DOMAIN <<>> = {}
    OBVIOUS
  <1>7. Sequenced'
    BY <1>1, <1>5, <1>6 DEF Sequenced, InOrder
  <1>8. Prepared'
    BY <1>1 DEF Prepared
  <1>9. Managed'
    BY <1>1, <1>5 DEF Managed, Begun, Hijacked
  <1> QED
    BY <1>4, <1>7, <1>8, <1>9 DEF Basics

LEMMA MeanwhileBasics ==
  ASSUME Basics, Meanwhile
  PROVE  Basics' /\ Coming(w') = Coming(w) /\ (Begun' <=> Begun)
  <1>1. /\ TunTypes' /\ cfg' = cfg /\ phase' = phase /\ w'.pc = w.pc /\ w'.m = w.m /\ w'.file = w.file
        /\ w'.k.dev = w.k.dev /\ (Hijacked(w') => Hijacked(w))
    BY DEF Meanwhile
  <1>2. Sequenced /\ Prepared /\ Managed
    BY DEF Basics
  <1>3. Coming(w') = Coming(w)
    BY <1>1 DEF Coming
  <1>4. Begun' <=> Begun
    BY <1>1, <1>3 DEF Begun
  <1>5. Sequenced'
    BY <1>1, <1>2, <1>3 DEF Sequenced
  <1>6. Prepared'
    BY <1>1, <1>2, <1>3 DEF Prepared, Needs
  <1>7. Managed'
    BY <1>1, <1>2, <1>3, <1>4 DEF Managed, Hijacked
  <1> QED
    BY <1>1, <1>3, <1>4, <1>5, <1>6, <1>7 DEF Basics

\* Every action is one of these.
Acts == Step \/ Start \/ ClearStaleArtifacts \/ SetupFails \/ Over \/ reconcileLoop \/ Tick
        \/ Stop \/ StopTeardown \/ Kill

LEMMA NextIs ==
  ASSUME SettingsOK, Basics, [Next]_vars
  PROVE  Acts \/ Meanwhile
  <1>1. CASE UNCHANGED vars
    BY <1>1, TimerDoes
  <1>2. CASE Next
    BY <1>2, TimerDoes, DefaultMovesDoes, AddressChangesDoes, SetsChangeDoes, WipeDoes DEF Next, Acts
  <1> QED
    BY <1>1, <1>2

LEMMA BasicsKept ==
  ASSUME SettingsOK, Basics, ClearsAll, [Next]_vars
  PROVE  Basics'
  <1>1. CASE Acts
    BY <1>1, StepBasics, StartBasics, ClearStaleBasics, SetupFailsBasics, OverBasics, ReconcileBasics, StopBasics,
       StopTeardownBasics, KillBasics DEF Acts
  <1>2. CASE Meanwhile
    BY <1>2, MeanwhileBasics
  <1> QED
    BY <1>1, <1>2, NextIs

(* The default route through every command *)

\* The next commands of a start, and of a teardown.
LEMMA Nexts ==
  ASSUME NEW a, Taken(a), Silent, a # "fail"
  PROVE  /\ SameAround /\ phase' = phase /\ Coming(w) = {a} \cup Coming(w') /\ w.pc # <<>> /\ a \in Issued(phase)
         /\ phase \in {"starting", "clearing"} => \A b \in Coming(w') : ~NeverThen(a, b)
         /\ phase \in {"running", "stopping"} => \A b \in Coming(w') : ~NeverThenInLoop(a, b)
         /\ phase \in {"tearing", "failing"} => \A b \in Coming(w') : ~NeverThenInTeardown(a, b)
         /\ a # "setup" => (Begun' <=> Begun)
  <1>1. SameAround /\ phase' = phase /\ Coming(w) = {a} \cup Coming(w') /\ w.pc # <<>> /\ a \in Issued(phase)
        /\ \A b \in Coming(w') : ~Excluded(phase, a, b)
    BY TakenQuietly, TakenIs DEF Silent
  <1>2. a # "setup" => (Begun' <=> Begun)
    BY <1>1 DEF Begun
  <1> QED
    BY <1>1, <1>2, ExcludedIs

\* Nothing is begun while setup is to come.
LEMMA NotBegun ==
  ASSUME NEW a, Taken(a), a \in InRestore \cup {"open"}, phase \in {"starting", "clearing"}
  PROVE  phase = "starting" => "setup" \in Coming(w) /\ ~Begun
  <1>1. a \in Coming(w)
    BY TakenIs
  <1> QED
    BY <1>1 DEF Taken, Basics, Prepared, Needs, Begun

\* A save that has the route's name in it.
FileKept(a) ==
  \/ w'.file = w.file \/ a = "forget" \/ (a = "tear" /\ w'.file = Torn)
  \/ a = "save" /\ w'.file \in Files /\ w'.file.cap = w.m.cap /\ w'.file.saved = w.m.saved

LEMMA QuietKept ==
  ASSUME NEW a, Taken(a), Silent, a \notin {"fail", "setup"}, RouteSaved, FileKept(a), w.warned => w'.warned,
         w'.m.saved = w.m.saved \/ w'.m.saved # None
  PROVE  RouteSaved'
  <1>1. SameAround /\ phase' = phase /\ Coming(w) = {a} \cup Coming(w') /\ (Begun' <=> Begun)
        /\ (phase \in {"starting", "clearing"} => \A b \in Coming(w') : ~NeverThen(a, b))
    BY Nexts
  <1>2. SUFFICES ASSUME Begun, ~w'.warned, ~w.warned
                 PROVE  /\ phase # "tearing" => w'.m.saved # None
                        /\ (cfg.capture = "default" /\ phase # "tearing" /\ (phase = "starting" => "save" \notin Coming(w')))
                              => Backed'
                        /\ "teardown" \in Coming(w') => w'.m.saved # None
    BY <1>1 DEF RouteSaved, SameAround
  <1>3. /\ phase # "tearing" => w.m.saved # None
        /\ (cfg.capture = "default" /\ phase # "tearing" /\ (phase = "starting" => "save" \notin Coming(w))) => Backed
        /\ "teardown" \in Coming(w) => w.m.saved # None
    BY <1>2 DEF RouteSaved
  <1>4. ASSUME cfg.capture = "default", phase # "tearing", phase = "starting" => "save" \notin Coming(w')
        PROVE  Backed'
    <2>1. CASE w'.file = w.file /\ a # "save"
      BY <1>1, <1>3, <1>4, <2>1 DEF Backed
    <2>2. CASE a = "tear" /\ w'.file = Torn
      BY <2>2 DEF Backed
    <2>3. CASE a = "save" /\ w'.file \in Files /\ w'.file.cap = w.m.cap /\ w'.file.saved = w.m.saved
      <3>1. phase = "starting" => "mode" \notin Coming(w)
        BY <1>1, <2>3 DEF NeverThen
      <3>2. w.m.cap = "default"
        BY <1>2, <1>4, <3>1 DEF Taken, Basics, Managed
      <3> QED
        BY <1>3, <1>4, <2>3, <3>2 DEF Backed
    <2>4. CASE a = "forget"
      <3>1. phase \in {"starting", "clearing", "tearing", "failing"}
        BY <2>4, PhaseOf
      <3>2. phase # "starting"
        BY <1>2, <2>4, NotBegun DEF InRestore
      <3> QED
        BY <1>2, <1>4, <3>1, <3>2 DEF Begun
    <2>5. CASE a = "save"
      BY <2>3, <2>5, SaveStep
    <2> QED
      BY <2>1, <2>2, <2>3, <2>4, <2>5 DEF FileKept
  <1> QED
    BY <1>1, <1>3, <1>4

LEMMA QuietSurvives ==
  ASSUME NEW a, Taken(a), Silent, Survives, FileKept(a), w.warned => w'.warned, Routable(w) => Routable(w'),
         w'.m.saved = w.m.saved \/ w'.m.saved # None,
         a \notin {"fail", "setup", "restore", "undo_route", "teardown", "undefault"}
  PROVE  Survives'
  <1>1. SameAround /\ phase' = phase /\ Coming(w) = {a} \cup Coming(w') /\ w.pc # <<>> /\ a \in Issued(phase)
        /\ (phase \in {"starting", "clearing"} => \A b \in Coming(w') : ~NeverThen(a, b))
        /\ (phase \in {"tearing", "failing"} => \A b \in Coming(w') : ~NeverThenInTeardown(a, b))
    BY Nexts
  <1>2. phase # "dead"
    BY <1>1, IssuedIs
  <1>3. CASE w.warned \/ Routable(w)
    BY <1>3 DEF Survives
  <1>4. CASE phase \in {"starting", "clearing"} /\ Backed
               /\ ("restore" \in Coming(w) \/ ("undo_route" \in Coming(w) /\ w.file # Torn))
    <2>1. "restore" \in Coming(w') \/ "undo_route" \in Coming(w')
      BY <1>1, <1>4
    <2>2. a \notin {"tear", "save", "forget"}
      <3>1. CASE a = "forget"
        BY <1>1, <1>4, <2>1, <3>1 DEF NeverThen
      <3>2. CASE a \in {"tear", "save"}
        <4>1. phase = "starting"
          BY <1>4, <3>2, PhaseOf
        <4>2. "setup" \in Coming(w')
          BY <1>1, <2>1, <3>2, <4>1 DEF Taken, Basics, Prepared, Needs, InRestore
        <4> QED
          BY <1>1, <3>2, <4>1, <4>2 DEF NeverThen, InRestore
      <3> QED
        BY <3>1, <3>2
    <2>3. w'.file = w.file
      BY <2>2 DEF FileKept
    <2> QED
      BY <1>1, <1>4, <2>3 DEF Survives, Backed
  <1>5. CASE phase \in {"running", "stopping"} /\ cfg.capture = "default"
    BY <1>1, <1>5 DEF Survives, SameAround
  <1>6. CASE phase = "tearing" /\ Backed /\ cfg.capture = "default" /\ w.m.saved # None
               /\ Coming(w) \cap {"teardown", "undefault"} # {}
    <2>1. Coming(w') \cap {"teardown", "undefault"} # {}
      BY <1>1, <1>6
    <2>2. a \notin {"tear", "save"}
      BY <1>6, PhaseOf
    <2>3. a # "forget"
      BY <1>1, <1>6, <2>1 DEF NeverThenInTeardown
    <2>4. w'.file = w.file
      BY <2>2, <2>3 DEF FileKept
    <2> QED
      BY <1>1, <1>6, <2>1, <2>4 DEF Survives, Backed, SameAround
  <1> QED
    BY <1>1, <1>2, <1>3, <1>4, <1>5, <1>6 DEF Survives

\* Outside of a clean-up only the device matters.
LEMMA QuietClears ==
  ASSUME NEW a, Taken(a), Silent, ClearsAll, a \notin {"fail", "link_del"}, phase # "clearing", w'.k.dev = w.k.dev
  PROVE  ClearsAll'
  <1>1. phase' = phase /\ Coming(w) = {a} \cup Coming(w') /\ a \in Issued(phase)
    BY Nexts
  <1>2. phase # "cleared"
    BY <1>1, IssuedIs
  <1> QED
    BY <1>1, <1>2 DEF ClearsAll

SurviveParts == RouteSaved /\ Survives /\ ClearsAll

LEMMA AbortSurvives ==
  ASSUME Coming(w) \cap {"restore", "undo_route"} = {}, SurviveParts, w.pc # <<>>,
         phase = "starting", phase' = "starting", Aborts
  PROVE  SurviveParts'
  <1>1. Coming(w') = {"fail"} /\ AllSame
    BY FailComes DEF Aborts
  <1>2. RouteSaved'
    BY <1>1 DEF RouteSaved, Begun
  <1>3. Survives'
    BY <1>1 DEF SurviveParts, Survives, AllSame, RestSame, Routable
  <1>4. ClearsAll'
    BY DEF ClearsAll
  <1> QED
    BY <1>2, <1>3, <1>4 DEF SurviveParts

LEMMA PlainFile ==
  ASSUME NEW a \in Plain, Taken(a)
  PROVE  FileKept(a)
  <1>1. CASE a = "tear"
    BY <1>1, TearStep DEF FileKept
  <1>2. CASE a = "save"
    BY <1>2, SaveStep DEF FileKept
  <1>3. CASE a \notin {"tear", "save"}
    BY <1>3, PlainStep DEF FileKept
  <1> QED
    BY <1>1, <1>2, <1>3

\* What a clean-up does.
LEMMA PlainClears ==
  ASSUME NEW a \in Plain, Taken(a), phase = "clearing", ClearsAll
  PROVE  ClearsAll'
  <1>1. Silent
    BY PlainStep
  <1>2. phase' = phase /\ Coming(w) = {a} \cup Coming(w') /\ a \in Issued(phase)
        /\ \A b \in Coming(w') : ~NeverThen(a, b)
    BY <1>1, Nexts DEF Plain
  <1>3. a \in {"undo_rp", "forget", "stale_chains", "stale_nat", "stale_tables"}
    BY <1>2, IssuedIs DEF Plain, InRestore
  <1>4. /\ w.k.jumps # {} \/ w.k.chain # None \/ w.k.gate => "stale_chains" \in Coming(w)
        /\ w.k.fwd \/ w.k.snat # {} => "stale_nat" \in Coming(w)
        /\ w.k.crule \/ w.k.brule => "stale_tables" \in Coming(w)
        /\ w.file # None => Coming(w) \cap {"restore", "forget"} # {}
    BY DEF ClearsAll
  <1>5. SUFFICES /\ w'.k.jumps # {} \/ w'.k.chain # None \/ w'.k.gate => "stale_chains" \in Coming(w')
                 /\ w'.k.fwd \/ w'.k.snat # {} => "stale_nat" \in Coming(w')
                 /\ w'.k.crule \/ w'.k.brule => "stale_tables" \in Coming(w')
                 /\ w'.file # None => Coming(w') \cap {"restore", "forget"} # {}
    BY <1>2 DEF ClearsAll
  <1>6. CASE a = "undo_rp"
    BY <1>2, <1>4, <1>6, UndoRPStep
  <1>7. CASE a = "forget"
    BY <1>2, <1>4, <1>7, ForgetStep DEF NatSame, BypassSame, CaptureSame
  <1>8. CASE a = "stale_chains"
    BY <1>2, <1>4, <1>8, StaleChainsStep DEF NatSame, BypassSame, CaptureSame, RestSame
  <1>9. CASE a = "stale_nat"
    BY <1>2, <1>4, <1>9, StaleNatStep DEF NatSame, BypassSame, CaptureSame, RestSame
  <1>10. CASE a = "stale_tables"
    BY <1>2, <1>4, <1>10, StaleTablesStep DEF NatSame, BypassSame, CaptureSame, RestSame
  <1> QED
    BY <1>3, <1>6, <1>7, <1>8, <1>9, <1>10

LEMMA PlainSurvives ==
  ASSUME NEW a \in Plain, Taken(a), SurviveParts
  PROVE  SurviveParts'
  <1>1. Silent /\ SameRoutes /\ w'.warned = w.warned /\ FileKept(a)
    BY PlainStep, PlainFile
  <1>2. a \notin {"fail", "setup", "restore", "undo_route", "teardown", "undefault", "link_del"}
    BY DEF Plain
  <1>3. Routable(w) => Routable(w')
    BY <1>1 DEF SameRoutes, Routable
  <1>4. RouteSaved'
    BY <1>1, <1>2, QuietKept DEF SameRoutes, SurviveParts
  <1>5. Survives'
    BY <1>1, <1>2, <1>3, QuietSurvives DEF SameRoutes, SurviveParts
  <1>6. ClearsAll'
    BY <1>1, <1>2, QuietClears, PlainClears DEF SameRoutes, SurviveParts
  <1> QED
    BY <1>4, <1>5, <1>6 DEF SurviveParts

\* Once begun, nothing of an earlier run is to be undone.
LEMMA BegunClear ==
  ASSUME Basics, phase = "starting", Begun
  PROVE  Coming(w) \cap (InRestore \cup {"open"}) = {}
  BY DEF Basics, Prepared, Needs, Begun

LEMMA SameSurvives ==
  ASSUME NEW a, Taken(a), Silent, SurviveParts, w'.file = w.file, w'.warned = w.warned, w'.main = w.main,
         w'.k.dev = w.k.dev, w'.m.saved = w.m.saved \/ w'.m.saved # None, phase # "clearing",
         a \notin {"fail", "setup", "restore", "undo_route", "teardown", "undefault", "link_del"}
  PROVE  SurviveParts'
  <1>1. FileKept(a) /\ (Routable(w) => Routable(w'))
    BY DEF FileKept, Routable
  <1>2. RouteSaved'
    BY <1>1, QuietKept DEF SurviveParts
  <1>3. Survives'
    BY <1>1, QuietSurvives DEF SurviveParts
  <1>4. ClearsAll'
    BY QuietClears DEF SurviveParts
  <1> QED
    BY <1>2, <1>3, <1>4 DEF SurviveParts

LEMMA RestoreSurvives ==
  ASSUME Taken("restore"), SurviveParts
  PROVE  SurviveParts'
  <1>1. /\ phase \in {"starting", "clearing"} /\ phase' = phase
        /\ \/ Silent /\ AllSame /\ w.file = None
           \/ Silent /\ w.file = Torn /\ w'.file = None /\ w'.warned = TRUE
                /\ w'.main = w.main /\ w'.rp = w.rp /\ w'.k = w.k /\ w'.m = w.m
           \/ w.file \in Files /\ w' = Then([w EXCEPT !.pc = Tail(@)], Steps(<<"undo_route", "undo_rp", "forget">>))
    BY RestoreStep
  <1>2. w.pc # <<>> /\ SettingsOK /\ "restore" \in Coming(w) /\ RouteSaved /\ Survives /\ ClearsAll
    BY TakenIs DEF Taken, SurviveParts
  <1>3. phase = "starting" => "setup" \in Coming(w)
    BY <1>1, NotBegun DEF InRestore
  <1>4. Torn # None /\ None \notin Files /\ Torn \notin Files
    BY <1>2, TunDistinct
  <1>5. CASE Silent /\ w'.file = None /\ w'.k = w.k /\ w'.main = w.main
               /\ ((w.file = None /\ w'.warned = w.warned) \/ w'.warned)
    <2>1. Coming(w) = {"restore"} \cup Coming(w')
      BY <1>5, Nexts
    <2>2. ~Begun'
      BY <1>1, <1>3, <2>1 DEF Begun
    <2>3. RouteSaved'
      BY <2>2 DEF RouteSaved
    <2>4. Survives'
      BY <1>1, <1>2, <1>4, <1>5 DEF Survives, Backed, Routable
    <2>5. ClearsAll'
      BY <1>1, <1>2, <1>5, <2>1 DEF ClearsAll
    <2> QED
      BY <2>3, <2>4, <2>5 DEF SurviveParts
  <1>6. CASE w.file \in Files /\ w' = Then([w EXCEPT !.pc = Tail(@)], Steps(<<"undo_route", "undo_rp", "forget">>))
    <2>1. PICK R : /\ Coming(w) = {"restore"} \cup R /\ Coming(w') = {"undo_route", "undo_rp", "forget"} \cup R
                   /\ AllSame
      BY <1>6, UndoComes
    <2>2. ~Begun'
      BY <1>1, <1>3, <2>1 DEF Begun
    <2>3. RouteSaved'
      BY <2>2 DEF RouteSaved
    <2>4. Survives'
      BY <1>1, <1>2, <1>4, <1>6, <2>1 DEF Survives, Backed, Routable, AllSame, RestSame
    <2>5. ClearsAll'
      BY <1>1, <1>2, <2>1 DEF ClearsAll, AllSame, RestSame
    <2> QED
      BY <2>3, <2>4, <2>5 DEF SurviveParts
  <1> QED
    BY <1>1, <1>5, <1>6 DEF AllSame, RestSame

LEMMA UndoRouteSurvives ==
  ASSUME Taken("undo_route"), SurviveParts
  PROVE  SurviveParts'
  <1>1. /\ Silent /\ w'.k = w.k /\ w'.m = w.m /\ w'.file = w.file /\ w.file \in Files
        /\ (w.warned => w'.warned) /\ (Routable(w) => Routable(w') \/ w'.warned)
        /\ (w.file.cap = "default" /\ w.file.saved # None) => Routable(w') \/ w'.warned
    BY UndoRouteStep
  <1>2. phase \in {"starting", "clearing"} /\ SettingsOK
    BY PhaseOf DEF Taken
  <1>3. phase = "starting" => "setup" \in Coming(w)
    BY <1>2, NotBegun DEF InRestore
  <1>4. Coming(w) = {"undo_route"} \cup Coming(w') /\ phase' = phase /\ w.pc # <<>>
    BY <1>1, Nexts
  <1>5. ~Begun'
    BY <1>2, <1>3, <1>4 DEF Begun
  <1>6. RouteSaved'
    BY <1>5 DEF RouteSaved
  <1>7. Torn \notin Files
    BY <1>2, TunDistinct
  <1>8. Survives'
    BY <1>1, <1>2, <1>4, <1>7 DEF SurviveParts, Survives, Backed
  <1>9. ClearsAll'
    BY <1>1, <1>2, <1>4 DEF SurviveParts, ClearsAll
  <1> QED
    BY <1>6, <1>8, <1>9 DEF SurviveParts

LEMMA OpenSurvives ==
  ASSUME Taken("open"), SurviveParts
  PROVE  SurviveParts'
  <1>1. Silent /\ RestSame /\ phase = "starting"
    BY OpenStep
  <1>2. Coming(w) = {"open"} \cup Coming(w') /\ phase' = phase /\ w.pc # <<>>
    BY <1>1, Nexts
  <1>3. "setup" \in Coming(w')
    BY <1>1, <1>2, NotBegun
  <1>4. RouteSaved'
    BY <1>1, <1>2, <1>3 DEF RouteSaved, Begun
  <1>5. Survives'
    BY <1>1, <1>2 DEF SurviveParts, Survives, Backed, Routable, RestSame
  <1>6. ClearsAll'
    BY <1>1, <1>2 DEF ClearsAll
  <1> QED
    BY <1>4, <1>5, <1>6 DEF SurviveParts

LEMMA SetupSurvives ==
  ASSUME Taken("setup"), SurviveParts
  PROVE  SurviveParts'
  <1>1. phase = "starting" /\ phase' = "starting" /\ (Aborts \/ SetsUp)
    BY SetupStep
  <1>2. w.pc # <<>> /\ SettingsOK /\ cfg \in Settings /\ w \in Machines /\ Coming(w) = {"setup"} /\ SameAround
    <2> DEFINE y == [w EXCEPT !.pc = Tail(@)]
    <2>1. Coming(w) = {"setup"} \cup Coming(y) /\ \A b \in Coming(y) : ~Excluded(phase, "setup", b)
      BY TakenIs
    <2> HIDE DEF y
    <2>2. Coming(y) = {}
      BY <2>1, LastIs
    <2> QED
      BY <2>1, <2>2, TakenIs DEF Taken, Basics, TunTypes
  <1>3. CASE Aborts
    BY <1>1, <1>2, <1>3, AbortSurvives
  <1>4. CASE SetsUp
    <2>1. Coming(w') \subseteq InSetup /\ {"mode", "tear", "save"} \subseteq Coming(w')
      BY <1>2, <1>4, SetsUpComes
    <2>2. RestSame /\ w'.m.saved = FirstDefault(w)
      BY <1>4 DEF SetsUp
    <2>3. w.warned \/ Routable(w)
      BY <1>1, <1>2 DEF SurviveParts, Survives
    <2>4. w.warned \/ w'.m.saved # None
      BY <1>1, <1>2, <2>2, <2>3, NotHijacked, FirstDefaultIs
    <2>5. "teardown" \notin Coming(w')
      BY <2>1 DEF InSetup
    <2>6. RouteSaved'
      BY <1>1, <2>1, <2>2, <2>4, <2>5 DEF RouteSaved, RestSame
    <2>7. Survives'
      BY <2>2, <2>3 DEF Survives, Routable, RestSame
    <2>8. ClearsAll'
      BY <1>1 DEF ClearsAll
    <2> QED
      BY <2>6, <2>7, <2>8 DEF SurviveParts
  <1> QED
    BY <1>1, <1>3, <1>4

LEMMA ModeSurvives ==
  ASSUME Taken("mode"), SurviveParts
  PROVE  SurviveParts'
  <1>1. Silent /\ RestSame /\ w'.k = w.k /\ w'.m.saved = w.m.saved /\ phase = "starting"
    BY ModeStep
  <1> QED
    BY <1>1, SameSurvives DEF RestSame

LEMMA BypassSurvives ==
  ASSUME Taken("bypass"), SurviveParts
  PROVE  SurviveParts'
  <1>1. phase = "starting" /\ (Aborts \/ (Silent /\ RestSame /\ w'.m = w.m /\ w'.k.dev = w.k.dev))
    BY BypassStep
  <1>2. phase' = phase /\ w.pc # <<>> /\ Basics
    BY TakenIs DEF Taken
  <1>3. Begun
    BY <1>1, BegunThen DEF InRestore
  <1>4. Coming(w) \cap {"restore", "undo_route"} = {}
    BY <1>1, <1>2, <1>3, BegunClear DEF InRestore
  <1>5. CASE Aborts
    BY <1>1, <1>2, <1>4, <1>5, AbortSurvives
  <1>6. CASE Silent /\ RestSame /\ w'.m = w.m /\ w'.k.dev = w.k.dev
    BY <1>1, <1>6, SameSurvives DEF RestSame
  <1> QED
    BY <1>1, <1>5, <1>6

LEMMA CtabSurvives ==
  ASSUME Taken("ctab"), SurviveParts
  PROVE  SurviveParts'
  <1>1. \/ Aborts /\ phase = "starting"
        \/ Silent /\ RestSame /\ w'.m = w.m /\ w'.k.dev = w.k.dev
    BY CtabStep DEF AllSame
  <1>2. phase' = phase /\ w.pc # <<>> /\ Basics
    BY TakenIs DEF Taken
  <1>3. phase \in {"starting", "running", "stopping"}
    BY PhaseOf
  <1>4. Begun
    BY <1>3, BegunThen DEF InRestore
  <1>5. CASE Aborts /\ phase = "starting"
    <2>1. Coming(w) \cap {"restore", "undo_route"} = {}
      BY <1>2, <1>4, <1>5, BegunClear DEF InRestore
    <2> QED
      BY <1>2, <1>5, <2>1, AbortSurvives
  <1>6. CASE Silent /\ RestSame /\ w'.m = w.m /\ w'.k.dev = w.k.dev
    BY <1>3, <1>6, SameSurvives DEF RestSame
  <1> QED
    BY <1>1, <1>5, <1>6

LEMMA HijackSurvives ==
  ASSUME NEW a \in {"into_tun", "redefault"}, Taken(a), SurviveParts, (Silent /\ AllSame) \/ Hijacks
  PROVE  SurviveParts'
  <1>1. phase \in {"starting", "running", "stopping"}
    BY PhaseOf
  <1>2. CASE Silent /\ AllSame
    BY <1>1, <1>2, SameSurvives DEF AllSame, RestSame
  <1>3. CASE Hijacks
    <2>1. Silent /\ w'.file = w.file /\ w'.k = w.k /\ w.k.dev /\ w'.m.saved = w.m.saved /\ w'.warned = w.warned
      BY <1>3 DEF Hijacks
    <2>2. phase' = phase /\ SameAround /\ w.pc # <<>> /\ a \in Coming(w) /\ Managed /\ Prepared
          /\ \A b \in Coming(w') : ~Excluded(phase, a, b)
      BY <2>1, TakenIs, TakenQuietly DEF Taken, Basics, Silent
    <2>3. phase \in {"starting", "running"} /\ (a = "redefault" => phase = "running")
      BY <1>1, <2>1, <2>2, PhaseOf DEF Managed
    <2>4. phase = "starting" => w'.pc = <<>>
      BY <2>1, <2>2, <2>3, LastIs, Drained DEF Silent
    <2>5. cfg.capture = "default"
      BY <2>2, <2>3 DEF Prepared
    <2>6. Survives'
      BY <2>2, <2>3, <2>4, <2>5 DEF Survives, SameAround
    <2>7. FileKept(a)
      BY <2>1 DEF FileKept
    <2>8. RouteSaved'
      BY <2>1, <2>7, QuietKept DEF SurviveParts
    <2>9. ClearsAll'
      BY <1>1, <2>1, QuietClears DEF SurviveParts
    <2> QED
      BY <2>6, <2>8, <2>9 DEF SurviveParts
  <1> QED
    BY <1>2, <1>3

LEMMA IntoTunSurvives ==
  ASSUME Taken("into_tun"), SurviveParts
  PROVE  SurviveParts'
  BY IntoTunStep, HijackSurvives

LEMMA RedefaultSurvives ==
  ASSUME Taken("redefault"), SurviveParts
  PROVE  SurviveParts'
  BY RedefaultStep, HijackSurvives

LEMMA RepointSurvives ==
  ASSUME Taken("repoint"), SurviveParts
  PROVE  SurviveParts'
  <1>1. Silent /\ RestSame /\ w'.k = w.k /\ (w'.m.saved = w.m.saved \/ w'.m.saved # None)
        /\ phase \in {"running", "stopping"}
    BY RepointStep
  <1> QED
    BY <1>1, SameSurvives DEF RestSame

LEMMA UndefaultSurvives ==
  ASSUME Taken("undefault"), SurviveParts
  PROVE  SurviveParts'
  <1>1. /\ Silent /\ w'.k = w.k /\ w'.m = w.m /\ w'.file = w.file /\ (w.warned => w'.warned)
        /\ Routable(w') \/ w'.warned
    BY UndefaultStep
  <1>2. phase \in {"tearing", "failing"}
    BY PhaseOf
  <1>3. FileKept("undefault")
    BY <1>1 DEF FileKept
  <1>4. RouteSaved'
    BY <1>1, <1>3, QuietKept DEF SurviveParts
  <1>5. Survives'
    BY <1>1 DEF Survives
  <1>6. ClearsAll'
    BY <1>1, <1>2, QuietClears DEF SurviveParts
  <1> QED
    BY <1>4, <1>5, <1>6 DEF SurviveParts

LEMMA LinkDelSurvives ==
  ASSUME Taken("link_del"), SurviveParts
  PROVE  SurviveParts'
  <1>1. /\ Silent /\ w'.m = w.m /\ w'.file = w.file /\ w'.warned = w.warned /\ w'.k.dev = FALSE
        /\ (Routable(w) => Routable(w'))
    BY LinkDelStep
  <1>2. phase \in {"tearing", "failing"} /\ phase' = phase
    BY <1>1, PhaseOf, Nexts
  <1>3. FileKept("link_del")
    BY <1>1 DEF FileKept
  <1>4. RouteSaved'
    BY <1>1, <1>3, QuietKept DEF SurviveParts
  <1>5. Survives'
    BY <1>1, <1>3, QuietSurvives DEF SurviveParts
  <1>6. ClearsAll'
    BY <1>1, <1>2 DEF ClearsAll
  <1> QED
    BY <1>4, <1>5, <1>6 DEF SurviveParts

LEMMA TeardownSurvives ==
  ASSUME Taken("teardown"), SurviveParts
  PROVE  SurviveParts'
  <1>1. /\ AllSame /\ Coming(w') \subseteq InTeardown /\ phase = "tearing" /\ phase' = "tearing"
        /\ "undefault" \in Coming(w') <=> w.m.cap = "default" /\ w.m.saved # None
    BY TeardownStep DEF Undoes
  <1>2. w.m.cap = cfg.capture /\ SameAround
    BY <1>1, TakenIs DEF Taken, Basics, Managed, Begun
  <1>3. "teardown" \notin Coming(w')
    BY <1>1 DEF InTeardown
  <1>4. RouteSaved'
    BY <1>1, <1>3 DEF RouteSaved
  <1>5. Survives'
    BY <1>1, <1>2 DEF SurviveParts, Survives, AllSame, RestSame, Backed, Routable, SameAround
  <1>6. ClearsAll'
    BY <1>1 DEF ClearsAll
  <1> QED
    BY <1>4, <1>5, <1>6 DEF SurviveParts

LEMMA FailSurvives ==
  ASSUME Taken("fail"), SurviveParts
  PROVE  SurviveParts'
  <1>1. AllSame /\ "link_del" \in Coming(w') /\ phase = "starting" /\ phase' = "failing"
    BY FailStep DEF Undoes
  <1>2. Coming(w) = {"fail"} /\ w.pc # <<>>
    <2> DEFINE y == [w EXCEPT !.pc = Tail(@)]
    <2>1. Coming(w) = {"fail"} \cup Coming(y) /\ w.pc # <<>> /\ \A b \in Coming(y) : ~Excluded(phase, "fail", b)
      BY TakenIs
    <2> HIDE DEF y
    <2>2. Coming(y) = {}
      BY <2>1, LastIs
    <2> QED
      BY <2>1, <2>2
  <1>3. RouteSaved'
    BY <1>1 DEF RouteSaved, Begun
  <1>4. Survives'
    BY <1>1, <1>2 DEF SurviveParts, Survives, AllSame, RestSame, Routable
  <1>5. ClearsAll'
    BY <1>1 DEF ClearsAll
  <1> QED
    BY <1>3, <1>4, <1>5 DEF SurviveParts

\* More commands of the loop, and nothing else.
LEMMA LoopSurvives ==
  ASSUME SurviveParts, phase \in {"running", "stopping"}, phase' = phase, AllSame, cfg' = cfg,
         "teardown" \notin Coming(w')
  PROVE  SurviveParts'
  <1>1. RouteSaved'
    BY DEF SurviveParts, RouteSaved, Begun, Backed, AllSame, RestSame
  <1>2. Survives'
    BY DEF SurviveParts, Survives, Routable, AllSame, RestSame
  <1>3. ClearsAll'
    BY DEF ClearsAll
  <1> QED
    BY <1>1, <1>2, <1>3 DEF SurviveParts

LEMMA RefreshesSurvive ==
  ASSUME NEW a \in {"refresh", "resource"}, Taken(a), SurviveParts, phase \in {"running", "stopping"}, phase' = phase,
         (Silent /\ AllSame) \/ \E N, R : Refreshes(a, N, R) /\ Carried(w')
  PROVE  SurviveParts'
  <1>1. AllSame
    BY DEF Refreshes
  <1>2. Basics' /\ cfg' = cfg
    BY RefreshesBasics, TakenIs DEF SameAround
  <1>3. "teardown" \notin Coming(w')
    BY <1>2, IssuedIs DEF Basics, Sequenced, InLoop
  <1> QED
    BY <1>1, <1>2, <1>3, LoopSurvives

LEMMA RefreshSurvives ==
  ASSUME Taken("refresh"), SurviveParts
  PROVE  SurviveParts'
  BY RefreshStep, RefreshesSurvive

LEMMA ResourceSurvives ==
  ASSUME Taken("resource"), SurviveParts
  PROVE  SurviveParts'
  BY ResourceStep, RefreshesSurvive

LEMMA StepSurvives ==
  ASSUME SettingsOK, Basics, SurviveParts, Step
  PROVE  SurviveParts'
  <1>1. PICK a \in CommandNames : Taken(a)
    BY StepTakes
  <1>2. CASE a \in Plain
    BY <1>1, <1>2, PlainSurvives
  <1>3. CASE a = "restore"
    BY <1>1, <1>3, RestoreSurvives
  <1>4. CASE a = "undo_route"
    BY <1>1, <1>4, UndoRouteSurvives
  <1>5. CASE a = "open"
    BY <1>1, <1>5, OpenSurvives
  <1>6. CASE a = "mode"
    BY <1>1, <1>6, ModeSurvives
  <1>7. CASE a = "bypass"
    BY <1>1, <1>7, BypassSurvives
  <1>8. CASE a = "ctab"
    BY <1>1, <1>8, CtabSurvives
  <1>9. CASE a = "into_tun"
    BY <1>1, <1>9, IntoTunSurvives
  <1>10. CASE a = "redefault"
    BY <1>1, <1>10, RedefaultSurvives
  <1>11. CASE a = "undefault"
    BY <1>1, <1>11, UndefaultSurvives
  <1>12. CASE a = "link_del"
    BY <1>1, <1>12, LinkDelSurvives
  <1>13. CASE a = "repoint"
    BY <1>1, <1>13, RepointSurvives
  <1>14. CASE a = "setup"
    BY <1>1, <1>14, SetupSurvives
  <1>15. CASE a = "teardown"
    BY <1>1, <1>15, TeardownSurvives
  <1>16. CASE a = "fail"
    BY <1>1, <1>16, FailSurvives
  <1>17. CASE a = "refresh"
    BY <1>1, <1>17, RefreshSurvives
  <1>18. CASE a = "resource"
    BY <1>1, <1>18, ResourceSurvives
  <1> QED
    BY <1>1, <1>2, <1>3, <1>4, <1>5, <1>6, <1>7, <1>8, <1>9, <1>10, <1>11, <1>12, <1>13, <1>14, <1>15, <1>16, <1>17, <1>18, AllCommands

(* The default route through every action *)

\* A step of setup can only fail once the state file was read back.
LEMMA FailsLate ==
  ASSUME SettingsOK, Basics, SetupFails
  PROVE  Coming(w) \cap {"restore", "undo_route", "setup"} = {}
  <1> DEFINE a == Head(w.pc).do
  <1>1. phase = "starting" /\ w.pc # <<>> /\ a \in Fallible /\ w \in Machines
    BY SetupFailsDoes DEF Basics, TunTypes
  <1>2. 1 \in DOMAIN w.pc /\ w.pc[1].do = a /\ w.pc \in Seq(Commands)
    BY <1>1, Popped, MachineFields
  <1>3. InOrder("starting", w.pc)
    BY <1>1 DEF Basics, Sequenced
  <1> HIDE DEF a
  <1>4. \A i \in DOMAIN w.pc : i # 1 => ~NeverThen(a, w.pc[i].do)
    <2>1. \A i \in DOMAIN w.pc : i # 1 => 1 < i
      BY <1>2
    <2> QED
      BY <1>2, <1>3, <2>1, ExcludedIs DEF InOrder
  <1>5. "setup" \notin Coming(w)
    <2>1. NeverThen(a, "setup") /\ a # "setup"
      BY <1>1 DEF NeverThen, Fallible, InRestore
    <2> QED
      BY <1>2, <1>4, <2>1 DEF Coming
  <1> QED
    BY <1>1, <1>5 DEF Basics, Prepared, Needs, InRestore

LEMMA SetupFailsSurvives ==
  ASSUME SettingsOK, Basics, SurviveParts, SetupFails
  PROVE  SurviveParts'
  <1>1. phase = "starting" /\ phase' = "starting" /\ Aborts /\ w.pc # <<>>
    BY SetupFailsDoes
  <1>2. Coming(w) \cap {"restore", "undo_route"} = {}
    BY FailsLate
  <1> QED
    BY <1>1, <1>2, AbortSurvives

LEMMA InitSurvives ==
  ASSUME SettingsOK, Init
  PROVE  SurviveParts
  <1>1. phase = "stopped" /\ Routable(w)
    BY InitIs
  <1> QED
    BY <1>1 DEF SurviveParts, RouteSaved, Begun, Survives, ClearsAll

LEMMA StartSurvives ==
  ASSUME SettingsOK, Basics, SurviveParts, Start
  PROVE  SurviveParts'
  <1>1. Down /\ phase' = "starting" /\ AllSame /\ Coming(w') = {"restore", "open", "setup"}
    BY StartDoes DEF Reissues
  <1>2. RouteSaved'
    BY <1>1 DEF RouteSaved, Begun
  <1>3. Survives'
    BY <1>1 DEF SurviveParts, Survives, Down, AllSame, RestSame, Routable, Backed
  <1>4. ClearsAll'
    BY <1>1 DEF ClearsAll
  <1> QED
    BY <1>2, <1>3, <1>4 DEF SurviveParts

LEMMA ClearStaleSurvives ==
  ASSUME SettingsOK, Basics, SurviveParts, ClearStaleArtifacts
  PROVE  SurviveParts'
  <1>1. /\ phase \in {"dead", "failed"} /\ phase' = "clearing" /\ AllSame
        /\ Coming(w') = {"restore", "stale_chains", "stale_nat", "stale_tables"}
    BY ClearStaleDoes DEF Reissues
  <1>2. RouteSaved'
    BY <1>1 DEF RouteSaved, Begun
  <1>3. Survives'
    BY <1>1 DEF SurviveParts, Survives, AllSame, RestSame, Routable, Backed
  <1>4. ClearsAll'
    BY <1>1 DEF ClearsAll
  <1> QED
    BY <1>2, <1>3, <1>4 DEF SurviveParts

LEMMA OverSurvives ==
  ASSUME SettingsOK, Basics, SurviveParts, Over
  PROVE  SurviveParts'
  <1>1. Ends /\ cfg' = cfg /\ w \in Machines
    BY OverDoes DEF Basics, TunTypes, Still
  <1>2. w.pc = <<>> /\ w'.pc = <<>> /\ RestSame /\ w'.k = w.k /\ w' \in Machines
    BY <1>1 DEF Ends
  <1>3. Coming(w) = {} /\ Coming(w') = {}
    BY <1>1, <1>2, Drained
  <1>4. (Routable(w') <=> Routable(w)) /\ w'.warned = w.warned /\ (Backed' <=> Backed)
    BY <1>2 DEF RestSame, Routable, Backed
  <1>5. CASE phase = "starting" /\ phase' = "running" /\ w'.m = w.m
    <2>1. RouteSaved'
      BY <1>1, <1>3, <1>4, <1>5 DEF SurviveParts, RouteSaved, Begun
    <2>2. Survives'
      BY <1>1, <1>3, <1>4, <1>5 DEF SurviveParts, Survives
    <2>3. ClearsAll'
      BY <1>5 DEF ClearsAll
    <2> QED
      BY <2>1, <2>2, <2>3 DEF SurviveParts
  <1>6. CASE \/ phase = "tearing" /\ phase' = "stopped"
             \/ phase = "failing" /\ phase' = "failed"
             \/ phase = "clearing" /\ phase' = "cleared"
    <2>1. RouteSaved'
      BY <1>6 DEF RouteSaved, Begun
    <2>2. Survives'
      BY <1>3, <1>4, <1>6 DEF SurviveParts, Survives
    <2>3. ClearsAll'
      BY <1>2, <1>3, <1>6 DEF SurviveParts, ClearsAll, RestSame
    <2> QED
      BY <2>1, <2>2, <2>3 DEF SurviveParts
  <1> QED
    BY <1>1, <1>5, <1>6 DEF Ends

LEMMA ReconcileSurvives ==
  ASSUME SettingsOK, Basics, SurviveParts, reconcileLoop \/ Tick
  PROVE  SurviveParts'
  <1>1. Reconciles /\ cfg' = cfg
    BY ReconcileDoes DEF Still
  <1>2. PICK N : Reissues(N, phase) /\ N \subseteq {"refresh"} \cup AtEnd
    BY <1>1 DEF Reconciles
  <1>3. phase \in {"running", "stopping"} /\ phase' = phase /\ AllSame /\ "teardown" \notin Coming(w')
    BY <1>1, <1>2 DEF Reconciles, Reissues, AtEnd
  <1> QED
    BY <1>1, <1>3, LoopSurvives

LEMMA StopSurvives ==
  ASSUME SettingsOK, Basics, SurviveParts, Stop
  PROVE  SurviveParts'
  <1>1. /\ phase = "running" /\ phase' = "stopping" /\ w'.pc = w.pc /\ w'.m = w.m /\ w'.file = w.file
        /\ w'.warned = w.warned /\ (Routable(w) => Routable(w')) /\ cfg' = cfg
    BY StopDoes DEF Still
  <1>2. Coming(w') = Coming(w) /\ (Backed' <=> Backed)
    BY <1>1 DEF Coming, Backed
  <1>3. RouteSaved'
    BY <1>1, <1>2 DEF SurviveParts, RouteSaved, Begun
  <1>4. Survives'
    BY <1>1, <1>2 DEF SurviveParts, Survives
  <1>5. ClearsAll'
    BY <1>1 DEF ClearsAll
  <1> QED
    BY <1>3, <1>4, <1>5 DEF SurviveParts

LEMMA StopTeardownSurvives ==
  ASSUME SettingsOK, Basics, SurviveParts, StopTeardown
  PROVE  SurviveParts'
  <1>1. /\ phase = "stopping" /\ phase' = "tearing" /\ AllSame /\ Coming(w') = {"teardown"} /\ cfg' = cfg
    BY StopTeardownDoes DEF Reissues, Still
  <1>2. /\ w.warned \/ w.m.saved # None
        /\ w.warned \/ cfg.capture # "default" \/ Backed
    BY <1>1 DEF SurviveParts, RouteSaved, Begun
  <1>3. RouteSaved'
    BY <1>1, <1>2 DEF RouteSaved, AllSame, RestSame
  <1>4. Survives'
    BY <1>1, <1>2 DEF SurviveParts, Survives, AllSame, RestSame, Routable, Backed
  <1>5. ClearsAll'
    BY <1>1 DEF ClearsAll
  <1> QED
    BY <1>3, <1>4, <1>5 DEF SurviveParts

LEMMA KillSurvives ==
  ASSUME SettingsOK, Basics, SurviveParts, Kill
  PROVE  SurviveParts'
  <1>1. /\ ~Down /\ phase' = "dead" /\ w'.file = w.file /\ w'.warned = w.warned /\ (Routable(w) => Routable(w'))
    BY KillDoes
  <1>2. phase # "dead" /\ (Backed' <=> Backed)
    BY <1>1 DEF Down, Backed
  <1>3. CASE phase \in {"running", "stopping"} /\ cfg.capture = "default"
    <2>1. w.warned \/ Backed
      BY <1>3 DEF SurviveParts, RouteSaved, Begun
    <2> QED
      BY <1>1, <1>2, <2>1 DEF SurviveParts, RouteSaved, Begun, Survives, ClearsAll
  <1>4. CASE phase = "starting" /\ w.pc = <<>> /\ cfg.capture = "default"
    <2>1. Coming(w) = {}
      BY <1>4, Drained DEF Basics, TunTypes
    <2>2. w.warned \/ Backed
      BY <1>4, <2>1 DEF SurviveParts, RouteSaved, Begun
    <2> QED
      BY <1>1, <1>2, <2>2 DEF SurviveParts, RouteSaved, Begun, Survives, ClearsAll
  <1>5. CASE w.warned \/ Routable(w) \/ Backed
    BY <1>1, <1>2, <1>5 DEF SurviveParts, RouteSaved, Begun, Survives, ClearsAll
  <1> QED
    BY <1>2, <1>3, <1>4, <1>5 DEF SurviveParts, Survives

LEMMA MeanwhileSurvives ==
  ASSUME Basics, SurviveParts, Meanwhile
  PROVE  SurviveParts'
  <1>1. /\ cfg' = cfg /\ phase' = phase /\ w'.pc = w.pc /\ w'.m = w.m /\ w'.file = w.file
        /\ w'.warned = w.warned /\ w'.k.dev = w.k.dev /\ w'.k.crule = w.k.crule /\ w'.k.brule = w.k.brule
        /\ w'.k.snat \in {w.k.snat, {}} /\ w'.k.jumps \in {w.k.jumps, {}} /\ (w'.k.fwd => w.k.fwd)
        /\ (w'.k.gate => w.k.gate) /\ (w.k.chain = None => w'.k.chain = None) /\ (Routable(w) => Routable(w'))
    BY DEF Meanwhile
  <1>2. Coming(w') = Coming(w) /\ (Begun' <=> Begun) /\ (Backed' <=> Backed)
    BY <1>1, MeanwhileBasics DEF Backed
  <1>3. RouteSaved'
    BY <1>1, <1>2 DEF SurviveParts, RouteSaved
  <1>4. Survives'
    BY <1>1, <1>2 DEF SurviveParts, Survives
  <1>5. ClearsAll'
    BY <1>1, <1>2 DEF SurviveParts, ClearsAll
  <1> QED
    BY <1>3, <1>4, <1>5 DEF SurviveParts

LEMMA SurvivesKept ==
  ASSUME SettingsOK, SurviveInv, [Next]_vars
  PROVE  SurviveInv'
  <1>1. Basics /\ SurviveParts
    BY DEF SurviveInv, SurviveParts
  <1>2. Basics'
    BY <1>1, BasicsKept DEF SurviveParts
  <1>3. SurviveParts'
    <2>1. CASE Acts
      BY <1>1, <2>1, StepSurvives, StartSurvives, ClearStaleSurvives, SetupFailsSurvives, OverSurvives, ReconcileSurvives,
         StopSurvives, StopTeardownSurvives, KillSurvives DEF Acts
    <2>2. CASE Meanwhile
      BY <1>1, <2>2, MeanwhileSurvives
    <2> QED
      BY <1>1, <2>1, <2>2, NextIs
  <1> QED
    BY <1>2, <1>3 DEF SurviveInv, SurviveParts

LEMMA SurvivesEnough ==
  ASSUME SurviveInv
  PROVE  DefaultSurvives
  <1>1. ASSUME phase \in {"stopped", "failed", "cleared"}
        PROVE  Coming(w) = {} /\ ~w.k.dev
    BY <1>1, IssuedIs DEF SurviveInv, Basics, Sequenced, Managed
  <1>2. ASSUME phase \in {"stopped", "failed", "cleared"}
        PROVE  w.warned \/ Routable(w)
    BY <1>2 DEF SurviveInv, Survives
  <1>3. ASSUME phase = "cleared"
        PROVE  Leftovers \cap {"dev", "fwd", "jumps", "chain", "gate", "crule", "brule", "snat", "file"} = {}
    <2>1. /\ w.k.jumps = {} /\ w.k.chain = None /\ ~w.k.gate /\ ~w.k.fwd /\ w.k.snat = {} /\ ~w.k.crule /\ ~w.k.brule
          /\ w.file = None /\ ~w.k.dev
      BY <1>1, <1>3 DEF SurviveInv, ClearsAll
    <2> QED
      BY <2>1 DEF Leftovers
  <1> QED
    BY <1>2, <1>3 DEF DefaultSurvives, Routable

\* However the engine is stopped, killed, started again and cleaned up, and whatever the uplink
\* does meanwhile, a default route through an uplink is there whenever the process has come to
\* rest in order, or an error was logged; and a clean-up leaves nothing that steers packets.
THEOREM DefaultAlwaysSurvives == Spec => []DefaultSurvives
  <1>0. SettingsOK
    BY SettingsAssumption
  <1>1. Init => SurviveInv
    BY <1>0, InitBasics, InitSurvives DEF SurviveInv, SurviveParts
  <1>2. SurviveInv /\ [Next]_vars => SurviveInv'
    BY <1>0, SurvivesKept
  <1>3. SurviveInv => DefaultSurvives
    BY <1>0, SurvivesEnough
  <1> QED
    BY <1>1, <1>2, <1>3, PTL DEF Spec

(* Everything is undone, through every command *)

Chained(x) == x.k.chain # None \/ x.k.gate \/ x.k.jumps # {}

\* What command a may bring about, and what it must have removed.
Suits(a) ==
  /\ Silent
  /\ w'.k.crule => (w.k.crule /\ a # "uncapture") \/ a \in {"crule", "recapture"}
  /\ w'.k.brule => (w.k.brule /\ a # "unmark") \/ a \in {"bypass", "rebypass"}
  /\ w'.k.btab # None => (w.k.btab # None /\ a # "flush") \/ a \in {"btab", "rebypass"}
  /\ w'.k.ctab # None => (w.k.ctab # None /\ a # "link_del") \/ a \in {"ctab", "recapture"}
  /\ Chained(w') => (Chained(w) /\ a # "unchain") \/ a \in {"chain", "fill", "jumps", "recapture"}
  /\ w'.k.fwd => (w.k.fwd /\ a # "unforward") \/ a = "forward"
  /\ NoSNAT' \/ (~NoSNAT /\ a \notin {"unnat", "unsnat"}) \/ a = "snat"
  /\ w'.k.notrack # {} => (w.k.notrack # {} /\ a # "unnat") \/ a \in {"notrack", "client_notrack", "renotrack"}
  /\ Untouched' \/ (~Untouched /\ a # "unrp") \/ a = "loosen"
  /\ w'.file # None => (w.file # None /\ a # "forget") \/ a \in {"tear", "save"}
  /\ (w'.m.rules = w.m.rules /\ a # "captured") \/ a \in {"uncapture", "open"} \/ (a = "captured" /\ w'.m.rules)
  /\ Owned' /\ Located'

LEMMA ChainedIs ==
  ASSUME NEW x
  PROVE  Chained(x) <=> x.k.chain # None \/ x.k.gate \/ x.k.jumps # {}
  BY DEF Chained

LEMMA PristineOwns ==
  ASSUME Pristine, w.m.rp # "loose", w.m \in Managers
  PROVE  Owned
  BY DEF Pristine, Owned, Untouched

\* What is there comes from the phase's own commands.
LEMMA FitsResting ==
  ASSUME NEW a, Taken(a), Suits(a), a # "fail", Resting', Resting => Pristine, a # "setup"
  PROVE  Pristine'
  <1>1. SameAround /\ phase' = phase /\ Coming(w) = {a} \cup Coming(w') /\ a \in Issued(phase)
        /\ (phase \in {"starting", "clearing"} => \A b \in Coming(w') : ~NeverThen(a, b))
    BY Nexts DEF Suits
  <1>2. phase = "clearing" \/ (phase = "starting" /\ "setup" \in Coming(w'))
    BY <1>1, IssuedIs DEF Resting, Down
  <1>3. Pristine
    BY <1>1, <1>2 DEF Resting
  <1>4. a \in InRestore \cup {"open", "stale_chains", "stale_nat", "stale_tables"}
    <2>1. CASE phase = "clearing"
      BY <1>1, <2>1, IssuedIs
    <2>2. CASE phase = "starting" /\ "setup" \in Coming(w')
      BY <1>1, <2>2 DEF NeverThen
    <2> QED
      BY <1>2, <2>1, <2>2
  <1>5. a \notin {"bypass", "rebypass", "btab", "ctab", "recapture", "chain", "fill", "jumps", "forward", "snat", "notrack",
                  "client_notrack", "renotrack", "loosen", "tear", "save"}
    BY <1>4 DEF InRestore
  <1> HIDE DEF Untouched, NoSNAT
  <1>6. /\ ~w'.k.brule /\ w'.k.btab = None /\ w'.k.ctab = None /\ ~Chained(w') /\ ~w'.k.fwd /\ NoSNAT'
        /\ w'.k.notrack = {} /\ Untouched' /\ w'.file = None
    BY <1>3, <1>5 DEF Suits, Pristine, CapturesPorts, Chained
  <1> QED
    BY <1>6 DEF Pristine, CapturesPorts, Chained

LEMMA FitsStarting ==
  ASSUME NEW a, Taken(a), Suits(a), a \notin {"fail", "setup"}, phase = "starting", Starting
  PROVE  Starting'
  <1>1. SameAround /\ phase' = phase /\ Coming(w) = {a} \cup Coming(w') /\ a \in Issued(phase) /\ (Begun' <=> Begun)
        /\ \A b \in Coming(w') : ~NeverThen(a, b)
    BY Nexts DEF Suits
  <1>2. a \notin {"uncapture", "recapture"}
    BY PhaseOf
  <1>3. "loosen" \in Coming(w') => Untouched'
    BY <1>1, PhaseOf DEF Suits, Starting, NeverThen
  <1>4. CapturesPorts' => CapturesPorts \/ a \in {"ctab", "chain", "fill", "jumps"}
    BY <1>2 DEF Suits, CapturesPorts, Chained
  <1>5. CapturesPorts' => Coming(w') \cap (Fallible \cup {"fail"}) = {} /\ cfg.capture = "ports"
    <2>1. CASE CapturesPorts
      BY <1>1, <2>1 DEF Starting
    <2>2. CASE a \in {"ctab", "chain", "fill", "jumps"}
      <3>1. cfg.capture = "ports"
        BY <1>1, <2>2 DEF Taken, Basics, Prepared, Needs
      <3> QED
        BY <1>1, <2>2, <3>1 DEF NeverThen, InRestore
    <2> QED
      BY <1>4, <2>1, <2>2
  <1>6. (Begun' /\ cfg.capture = "ports" /\ "captured" \notin Coming(w')) => w'.m.rules
    <2>1. Begun => a # "open"
      BY <1>1, NotBegun
    <2> QED
      BY <1>1, <1>2, <2>1 DEF Suits, Starting
  <1> QED
    BY <1>1, <1>3, <1>5, <1>6 DEF Starting, SameAround

LEMMA FitsLooping ==
  ASSUME NEW a, Taken(a), Suits(a), phase \in {"running", "stopping"}, Serving
  PROVE  Serving'
  <1>0. a \notin {"fail", "setup", "uncapture", "open", "unnat", "chain", "fill", "jumps", "captured"}
    BY PhaseOf
  <1>1. SameAround /\ phase' = phase /\ Coming(w) = {a} \cup Coming(w') /\ \A b \in Coming(w') : ~NeverThenInLoop(a, b)
    BY <1>0, Nexts DEF Suits
  <1>2. w'.m.rules = w.m.rules
    BY <1>0 DEF Suits
  <1>3. CapturesPorts' => cfg.capture = "ports"
    <2>1. CapturesPorts' => CapturesPorts \/ a \in {"ctab", "recapture"}
      BY <1>0 DEF Suits, CapturesPorts, Chained
    <2>2. a \in {"ctab", "recapture"} => cfg.capture = "ports"
      BY <1>1 DEF Taken, Basics, Prepared
    <2> QED
      BY <2>1, <2>2 DEF Serving
  <1>4. Coming(w') \cap {"loosen", "repoint"} # {} /\ "unrp" \notin Coming(w') => Untouched'
    BY <1>1 DEF Serving, Suits, NeverThenInLoop
  <1>5. Coming(w') \cap {"repoint", "source"} # {} /\ "unsnat" \notin Coming(w') => NoSNAT'
    BY <1>0, <1>1 DEF Serving, Suits, NeverThenInLoop
  <1> QED
    BY <1>1, <1>2, <1>3, <1>4, <1>5 DEF Serving, SameAround

LEMMA FitsUndoing ==
  ASSUME NEW a, Taken(a), Suits(a), phase \in {"tearing", "failing"}, Undoing
  PROVE  Undoing'
  <1>0. a \notin {"fail", "setup", "crule", "recapture", "bypass", "rebypass", "btab", "ctab", "chain", "fill", "jumps",
                  "forward", "snat", "notrack", "client_notrack", "renotrack", "loosen", "tear", "save"}
    BY PhaseOf
  <1>1. phase' = phase /\ Coming(w) = {a} \cup Coming(w')
    BY <1>0, Nexts DEF Suits
  <1>2. /\ w'.k.brule => "unmark" \in Coming(w')
        /\ w'.k.btab # None => "flush" \in Coming(w')
        /\ w'.k.ctab # None => "link_del" \in Coming(w')
    BY <1>0, <1>1 DEF Suits, Undoing
  <1>3. Chained(w') => "unchain" \in Coming(w')
    BY <1>0, <1>1, ChainedIs DEF Suits, Undoing
  <1>4. /\ w'.k.crule => "uncapture" \in Coming(w') \/ phase = "failing"
        /\ w'.k.fwd => "unforward" \in Coming(w')
        /\ w'.k.notrack # {} => "unnat" \in Coming(w')
        /\ w'.file # None => "forget" \in Coming(w')
    BY <1>0, <1>1 DEF Suits, Undoing
  <1>5. (NoSNAT' \/ "unnat" \in Coming(w')) /\ (Untouched' \/ "unrp" \in Coming(w'))
    BY <1>0, <1>1 DEF Suits, Undoing
  <1> QED
    BY <1>1, <1>2, <1>3, <1>4, <1>5, ChainedIs DEF Undoing

LEMMA FitsClean ==
  ASSUME NEW a, Taken(a), Suits(a), a \notin {"fail", "setup", "teardown"}, Clean
  PROVE  Clean'
  <1>1. SameAround /\ phase' = phase /\ Coming(w) = {a} \cup Coming(w') /\ a \in Issued(phase)
    BY Nexts DEF Suits
  <1>2. /\ w.k.crule => cfg.capture = "ports"
        /\ Resting => Pristine
        /\ phase = "starting" => Starting
        /\ (phase \in {"running", "stopping"} \/ "teardown" \in Coming(w)) => Serving
        /\ (phase \in {"tearing", "failing"} /\ "teardown" \notin Coming(w)) => Undoing
    BY DEF Clean
  <1>3. phase # "stopped"
    BY <1>1, IssuedIs
  <1>4. "teardown" \notin Coming(w)
    <2>1. "teardown" \in Coming(w) => phase = "tearing"
      <3>1. "teardown" \in Coming(w) => "teardown" \in Issued(phase) /\ phase \in Phases
        BY DEF Taken, Basics, Sequenced, TunTypes
      <3> QED
        BY <3>1, IssuedIs DEF Phases, InRestore, InSetup, InLoop, InTeardown
    <2>2. phase = "tearing" => \A b \in Coming(w') : ~NeverThenInTeardown(a, b)
      BY Nexts DEF Suits
    <2> QED
      BY <1>1, <2>1, <2>2 DEF NeverThenInTeardown
  <1>5. w'.k.crule => cfg.capture = "ports"
    <2>1. a = "crule" => cfg.capture = "ports"
      BY <1>1, PhaseOf DEF Taken, Basics, Prepared, Needs
    <2>2. a = "recapture" => cfg.capture = "ports"
      BY <1>1, PhaseOf DEF Taken, Basics, Prepared
    <2> QED
      BY <1>2, <2>1, <2>2 DEF Suits
  <1>6. Resting' => Pristine'
    BY <1>2, FitsResting
  <1>7. phase = "starting" => Starting'
    BY <1>2, FitsStarting
  <1>8. phase \in {"running", "stopping"} => Serving'
    BY <1>2, FitsLooping
  <1>9. phase \in {"tearing", "failing"} => Undoing'
    BY <1>2, <1>4, FitsUndoing
  <1>10. Owned' /\ Located'
    BY DEF Suits
  <1> QED
    BY <1>1, <1>3, <1>4, <1>5, <1>6, <1>7, <1>8, <1>9, <1>10 DEF Clean, SameAround

LEMMA SameReaddressed ==
  ASSUME SameAround
  PROVE  (Readdressed' <=> Readdressed) /\ (Killed' <=> Killed)
  BY DEF SameAround, Readdressed, Killed

LEMMA SameNoSNAT ==
  ASSUME SameAround
  PROVE  /\ w'.k.snat = w.k.snat => (NoSNAT' <=> NoSNAT)
         /\ w'.k.snat = {} => NoSNAT'
         /\ cfg.capture = "default" /\ Readdressed => NoSNAT'
  <1>1. (Readdressed' <=> Readdressed) /\ cfg' = cfg
    BY SameReaddressed DEF SameAround
  <1> QED
    BY <1>1 DEF NoSNAT

LEMMA SameUntouched ==
  ASSUME w'.rp = w.rp
  PROVE  Untouched' <=> Untouched
  BY DEF Untouched

LEMMA SameOwned ==
  ASSUME SameAround, NatSame, UndoSame, w'.rp = w.rp, w'.m.out = w.m.out, w'.m.src = w.m.src, Owned
  PROVE  Owned'
  <1>1. (NoSNAT' <=> NoSNAT) /\ (Untouched' <=> Untouched) /\ cfg' = cfg
    BY SameNoSNAT, SameUntouched DEF NatSame, SameAround
  <1> QED
    BY <1>1 DEF Owned, NatSame, UndoSame

\* The places of the sources in use.
Placed ==
  /\ w'.m.src \in Sources /\ (w'.m.saved # None => w'.m.saved.src \in Sources)
  /\ \A i \in 0..1 : w'.main[i] # None => w'.main[i].src \in Sources

LEMMA QuietLocated ==
  ASSUME NEW a, Taken(a), Silent, SameAround, Located, ~Readdressed => Placed
  PROVE  Located'
  <1>1. Readdressed' <=> Readdressed
    BY SameReaddressed
  <1>2. SUFFICES ASSUME ~Readdressed
                 PROVE  Located'
    BY <1>1 DEF Located
  <1>3. addr = [u \in Uplinks |-> <<u, 0>>] /\ \A i \in DOMAIN w.pc : w.pc[i].src \in Sources
    BY <1>2 DEF Located
  <1>4. \A i \in DOMAIN w'.pc : i + 1 \in DOMAIN w.pc /\ w'.pc[i] = w.pc[i + 1]
    BY TakenQuietly DEF Silent
  <1>5. \A i \in DOMAIN w'.pc : w'.pc[i].src \in Sources
    BY <1>3, <1>4
  <1>6. addr' = addr
    BY DEF SameAround
  <1> QED
    BY <1>2, <1>3, <1>5, <1>6 DEF Located, Placed

LEMMA SameLocated ==
  ASSUME NEW a, Taken(a), Silent, SameAround, Located, w'.m.src = w.m.src, w'.m.saved = w.m.saved, w'.main = w.main
  PROVE  Located'
  <1>1. ~Readdressed => Placed
    BY DEF Located, Placed
  <1> QED
    BY <1>1, QuietLocated

\* A command that leaves alone what the manager has to remember.
LEMMA SameFits ==
  ASSUME NEW a, Taken(a), Silent, SameAround, Clean, NatSame, UndoSame, w'.rp = w.rp, UplinkSame \/ w'.m = w.m \/ a = "mode",
         a = "mode" => w'.m.out = w.m.out /\ w'.m.src = w.m.src /\ w'.m.saved = w.m.saved,
         w'.main = w.main
  PROVE  /\ Owned' /\ Located' /\ (NoSNAT' <=> NoSNAT) /\ (Untouched' <=> Untouched) /\ w'.k.fwd = w.k.fwd
         /\ w'.k.notrack = w.k.notrack
  <1>1. w'.m.out = w.m.out /\ w'.m.src = w.m.src /\ w'.m.saved = w.m.saved
    BY DEF UplinkSame
  <1>2. Owned'
    BY <1>1, SameOwned DEF Clean
  <1>3. Located'
    BY <1>1, SameLocated DEF Clean
  <1> QED
    BY <1>2, <1>3, SameNoSNAT, SameUntouched DEF NatSame

LEMMA BtabFits ==
  ASSUME Taken("btab"), Clean
  PROVE  Suits("btab")
  <1>1. SameAround
    BY TakenIs
  <1>2. /\ Owned' /\ Located' /\ (NoSNAT' <=> NoSNAT) /\ (Untouched' <=> Untouched) /\ w'.k.fwd = w.k.fwd
        /\ w'.k.notrack = w.k.notrack
    BY <1>1, BtabStep, SameFits DEF RestSame, NatSame
  <1> QED
    BY <1>2, BtabStep DEF Suits, Chained, BypassSame, CaptureSame, RestSame

LEMMA FlushFits ==
  ASSUME Taken("flush"), Clean
  PROVE  Suits("flush")
  <1>1. SameAround
    BY TakenIs
  <1>2. /\ Owned' /\ Located' /\ (NoSNAT' <=> NoSNAT) /\ (Untouched' <=> Untouched) /\ w'.k.fwd = w.k.fwd
        /\ w'.k.notrack = w.k.notrack
    BY <1>1, FlushStep, SameFits DEF RestSame, NatSame
  <1> QED
    BY <1>2, FlushStep DEF Suits, Chained, BypassSame, CaptureSame, RestSame

LEMMA UnmarkFits ==
  ASSUME Taken("unmark"), Clean
  PROVE  Suits("unmark")
  <1>1. SameAround
    BY TakenIs
  <1>2. /\ Owned' /\ Located' /\ (NoSNAT' <=> NoSNAT) /\ (Untouched' <=> Untouched) /\ w'.k.fwd = w.k.fwd
        /\ w'.k.notrack = w.k.notrack
    BY <1>1, UnmarkStep, SameFits DEF RestSame, NatSame
  <1> QED
    BY <1>2, UnmarkStep DEF Suits, Chained, BypassSame, CaptureSame, RestSame

LEMMA CruleFits ==
  ASSUME Taken("crule"), Clean
  PROVE  Suits("crule")
  <1>1. SameAround
    BY TakenIs
  <1>2. /\ Owned' /\ Located' /\ (NoSNAT' <=> NoSNAT) /\ (Untouched' <=> Untouched) /\ w'.k.fwd = w.k.fwd
        /\ w'.k.notrack = w.k.notrack
    BY <1>1, CruleStep, SameFits DEF RestSame, NatSame
  <1> QED
    BY <1>2, CruleStep DEF Suits, Chained, BypassSame, CaptureSame, RestSame

LEMMA ChainFits ==
  ASSUME Taken("chain"), Clean
  PROVE  Suits("chain")
  <1>1. SameAround
    BY TakenIs
  <1>2. /\ Owned' /\ Located' /\ (NoSNAT' <=> NoSNAT) /\ (Untouched' <=> Untouched) /\ w'.k.fwd = w.k.fwd
        /\ w'.k.notrack = w.k.notrack
    BY <1>1, ChainStep, SameFits DEF RestSame, NatSame
  <1> QED
    BY <1>2, ChainStep DEF Suits, Chained, BypassSame, CaptureSame, RestSame

LEMMA UnchainFits ==
  ASSUME Taken("unchain"), Clean
  PROVE  Suits("unchain")
  <1>1. SameAround
    BY TakenIs
  <1>2. /\ Owned' /\ Located' /\ (NoSNAT' <=> NoSNAT) /\ (Untouched' <=> Untouched) /\ w'.k.fwd = w.k.fwd
        /\ w'.k.notrack = w.k.notrack
    BY <1>1, UnchainStep, SameFits DEF RestSame, NatSame
  <1> QED
    BY <1>2, UnchainStep DEF Suits, Chained, BypassSame, CaptureSame, RestSame

LEMMA RebypassFits ==
  ASSUME Taken("rebypass"), Clean
  PROVE  Suits("rebypass")
  <1>1. SameAround
    BY TakenIs
  <1>2. /\ Owned' /\ Located' /\ (NoSNAT' <=> NoSNAT) /\ (Untouched' <=> Untouched) /\ w'.k.fwd = w.k.fwd
        /\ w'.k.notrack = w.k.notrack
    BY <1>1, RebypassStep, SameFits DEF RestSame, NatSame
  <1> QED
    BY <1>2, RebypassStep DEF Suits, Chained, BypassSame, CaptureSame, RestSame

LEMMA JumpsFits ==
  ASSUME Taken("jumps"), Clean
  PROVE  Suits("jumps")
  <1>1. SameAround
    BY TakenIs
  <1>2. /\ Owned' /\ Located' /\ (NoSNAT' <=> NoSNAT) /\ (Untouched' <=> Untouched) /\ w'.k.fwd = w.k.fwd
        /\ w'.k.notrack = w.k.notrack
    BY <1>1, JumpsStep, SameFits DEF RestSame, NatSame
  <1> QED
    BY <1>2, JumpsStep DEF Suits, Chained, BypassSame, CaptureSame, RestSame

LEMMA CapturedFits ==
  ASSUME Taken("captured"), Clean
  PROVE  Suits("captured")
  <1>1. SameAround
    BY TakenIs
  <1>2. /\ Owned' /\ Located' /\ (NoSNAT' <=> NoSNAT) /\ (Untouched' <=> Untouched) /\ w'.k.fwd = w.k.fwd
        /\ w'.k.notrack = w.k.notrack
    BY <1>1, CapturedStep, SameFits DEF RestSame, NatSame
  <1> QED
    BY <1>2, CapturedStep DEF Suits, Chained, BypassSame, CaptureSame, RestSame

LEMMA FillFits ==
  ASSUME Taken("fill"), Clean
  PROVE  Suits("fill")
  <1>1. SameAround
    BY TakenIs
  <1>2. /\ Owned' /\ Located' /\ (NoSNAT' <=> NoSNAT) /\ (Untouched' <=> Untouched) /\ w'.k.fwd = w.k.fwd
        /\ w'.k.notrack = w.k.notrack
    BY <1>1, FillStep, SameFits DEF RestSame, NatSame
  <1> QED
    BY <1>2, FillStep DEF Suits, Chained, BypassSame, CaptureSame, RestSame

LEMMA UncaptureFits ==
  ASSUME Taken("uncapture"), Clean
  PROVE  Suits("uncapture")
  <1>1. SameAround
    BY TakenIs
  <1>2. /\ Owned' /\ Located' /\ (NoSNAT' <=> NoSNAT) /\ (Untouched' <=> Untouched) /\ w'.k.fwd = w.k.fwd
        /\ w'.k.notrack = w.k.notrack
    BY <1>1, UncaptureStep, SameFits DEF RestSame, NatSame
  <1> QED
    BY <1>2, UncaptureStep DEF Suits, Chained, BypassSame, CaptureSame, RestSame

LEMMA TearFits ==
  ASSUME Taken("tear"), Clean
  PROVE  Suits("tear")
  <1>1. SameAround
    BY TakenIs
  <1>2. /\ Owned' /\ Located' /\ (NoSNAT' <=> NoSNAT) /\ (Untouched' <=> Untouched) /\ w'.k.fwd = w.k.fwd
        /\ w'.k.notrack = w.k.notrack
    BY <1>1, TearStep, SameFits DEF RestSame, NatSame
  <1> QED
    BY <1>2, TearStep DEF Suits, Chained, BypassSame, CaptureSame, RestSame

LEMMA ForgetFits ==
  ASSUME Taken("forget"), Clean
  PROVE  Suits("forget")
  <1>1. SameAround
    BY TakenIs
  <1>2. /\ Owned' /\ Located' /\ (NoSNAT' <=> NoSNAT) /\ (Untouched' <=> Untouched) /\ w'.k.fwd = w.k.fwd
        /\ w'.k.notrack = w.k.notrack
    BY <1>1, ForgetStep, SameFits DEF RestSame, NatSame
  <1> QED
    BY <1>2, ForgetStep DEF Suits, Chained, BypassSame, CaptureSame, RestSame

LEMMA SaveFits ==
  ASSUME Taken("save"), Clean
  PROVE  Suits("save")
  <1>1. SameAround
    BY TakenIs
  <1>2. /\ Owned' /\ Located' /\ (NoSNAT' <=> NoSNAT) /\ (Untouched' <=> Untouched) /\ w'.k.fwd = w.k.fwd
        /\ w'.k.notrack = w.k.notrack
    BY <1>1, SaveStep, SameFits DEF RestSame, NatSame
  <1> QED
    BY <1>2, SaveStep DEF Suits, Chained, BypassSame, CaptureSame, RestSame

LEMMA RecaptureFits ==
  ASSUME Taken("recapture"), Clean
  PROVE  Suits("recapture")
  <1>1. SameAround
    BY TakenIs
  <1>2. /\ Owned' /\ Located' /\ (NoSNAT' <=> NoSNAT) /\ (Untouched' <=> Untouched) /\ w'.k.fwd = w.k.fwd
        /\ w'.k.notrack = w.k.notrack
    BY <1>1, RecaptureStep, SameFits DEF RestSame, NatSame
  <1> QED
    BY <1>2, RecaptureStep DEF Suits, Chained, BypassSame, CaptureSame, RestSame

LEMMA ModeFits ==
  ASSUME Taken("mode"), Clean
  PROVE  Suits("mode")
  <1>1. SameAround
    BY TakenIs
  <1>2. /\ Owned' /\ Located' /\ (NoSNAT' <=> NoSNAT) /\ (Untouched' <=> Untouched) /\ w'.k.fwd = w.k.fwd
        /\ w'.k.notrack = w.k.notrack
    BY <1>1, ModeStep, SameFits DEF RestSame, NatSame
  <1> QED
    BY <1>2, ModeStep DEF Suits, Chained, BypassSame, CaptureSame, RestSame

LEMMA StaleTablesFits ==
  ASSUME Taken("stale_tables"), Clean
  PROVE  Suits("stale_tables")
  <1>1. SameAround
    BY TakenIs
  <1>2. /\ Owned' /\ Located' /\ (NoSNAT' <=> NoSNAT) /\ (Untouched' <=> Untouched) /\ w'.k.fwd = w.k.fwd
        /\ w'.k.notrack = w.k.notrack
    BY <1>1, StaleTablesStep, SameFits DEF RestSame, NatSame
  <1> QED
    BY <1>2, StaleTablesStep DEF Suits, Chained, BypassSame, CaptureSame, RestSame

\* The commands that change what the manager has to remember.
LEMMA RenotrackFits ==
  ASSUME Taken("renotrack"), Clean
  PROVE  Suits("renotrack")
  <1>1. SameAround /\ "renotrack" \in Coming(w) /\ phase \in {"running", "stopping"}
    BY TakenIs, PhaseOf
  <1>2. Silent /\ w'.k.fwd = w.k.fwd /\ w'.k.snat = w.k.snat /\ w'.k.notrack = w.k.notrack \cup w.m.notrack
        /\ BypassSame /\ CaptureSame /\ UplinkSame /\ UndoSame /\ RestSame /\ w'.m.rules = w.m.rules
    BY RenotrackStep
  <1>3. (NoSNAT' <=> NoSNAT) /\ (Untouched' <=> Untouched) /\ cfg' = cfg
    BY <1>1, <1>2, SameNoSNAT, SameUntouched DEF RestSame, SameAround
  <1>4. ~cfg.skip
    BY <1>1 DEF Taken, Basics, Prepared
  <1>5. Owned'
    BY <1>2, <1>3, <1>4 DEF Clean, Owned, UplinkSame, UndoSame, RestSame
  <1>6. Located'
    BY <1>1, <1>2, SameLocated DEF Clean, UplinkSame, RestSame
  <1> QED
    BY <1>2, <1>3, <1>5, <1>6 DEF Suits, Chained, BypassSame, CaptureSame, RestSame

LEMMA StaleChainsFits ==
  ASSUME Taken("stale_chains"), Clean
  PROVE  Suits("stale_chains")
  <1>1. SameAround
    BY TakenIs
  <1>2. Silent /\ w'.k.fwd = w.k.fwd /\ w'.k.snat = w.k.snat /\ w'.k.notrack = w.k.notrack \ {"reinject"}
        /\ BypassSame /\ w'.k.crule = w.k.crule /\ w'.k.ctab = w.k.ctab /\ w'.k.chain = None
        /\ w'.k.gate = FALSE /\ w'.k.jumps = {} /\ UplinkSame /\ UndoSame /\ RestSame /\ w'.m.rules = w.m.rules
    BY StaleChainsStep
  <1>3. (NoSNAT' <=> NoSNAT) /\ (Untouched' <=> Untouched) /\ cfg' = cfg
    BY <1>1, <1>2, SameNoSNAT, SameUntouched DEF RestSame, SameAround
  <1>5. Owned'
    BY <1>2, <1>3 DEF Clean, Owned, UplinkSame, UndoSame, RestSame
  <1>6. Located'
    BY <1>1, <1>2, SameLocated DEF Clean, UplinkSame, RestSame
  <1> QED
    BY <1>2, <1>3, <1>5, <1>6 DEF Suits, Chained, BypassSame, RestSame

LEMMA StaleNatFits ==
  ASSUME Taken("stale_nat"), Clean
  PROVE  Suits("stale_nat")
  <1>1. SameAround
    BY TakenIs
  <1>2. Silent /\ w'.k.fwd = FALSE /\ w'.k.snat = {} /\ w'.k.notrack = w.k.notrack
        /\ BypassSame /\ CaptureSame /\ UplinkSame /\ UndoSame /\ RestSame /\ w'.m.rules = w.m.rules
    BY StaleNatStep
  <1>3. NoSNAT' /\ (Untouched' <=> Untouched) /\ cfg' = cfg
    BY <1>1, <1>2, SameNoSNAT, SameUntouched DEF RestSame, SameAround
  <1>5. Owned'
    BY <1>2, <1>3 DEF Clean, Owned, UplinkSame, UndoSame, RestSame
  <1>6. Located'
    BY <1>1, <1>2, SameLocated DEF Clean, UplinkSame, RestSame
  <1> QED
    BY <1>2, <1>3, <1>5, <1>6 DEF Suits, Chained, BypassSame, CaptureSame, RestSame

LEMMA UnforwardFits ==
  ASSUME Taken("unforward"), Clean
  PROVE  Suits("unforward")
  <1>1. SameAround
    BY TakenIs
  <1>2. Silent /\ w'.k.fwd = (IF w.m.fwd THEN FALSE ELSE w.k.fwd) /\ w'.k.snat = w.k.snat
        /\ w'.k.notrack = w.k.notrack /\ BypassSame /\ CaptureSame /\ UplinkSame /\ UndoSame /\ RestSame
        /\ w'.m.rules = w.m.rules
    BY UnforwardStep
  <1>3. (NoSNAT' <=> NoSNAT) /\ (Untouched' <=> Untouched) /\ cfg' = cfg
    BY <1>1, <1>2, SameNoSNAT, SameUntouched DEF RestSame, SameAround
  <1>4. ~w'.k.fwd
    BY <1>2 DEF Clean, Owned
  <1>5. Owned'
    BY <1>2, <1>3, <1>4 DEF Clean, Owned, UplinkSame, UndoSame, RestSame
  <1>6. Located'
    BY <1>1, <1>2, SameLocated DEF Clean, UplinkSame, RestSame
  <1> QED
    BY <1>2, <1>3, <1>4, <1>5, <1>6 DEF Suits, Chained, BypassSame, CaptureSame, RestSame

\* Nothing is changed where skipping was asked for.
LEMMA NotSkipped ==
  ASSUME NEW a \in {"loosen", "forward", "snat", "notrack", "client_notrack"}, Taken(a)
  PROVE  ~cfg.skip
  <1>1. a \in Coming(w) /\ phase \in {"starting", "running", "stopping"}
    BY TakenIs, PhaseOf
  <1>2. a \in {"notrack", "client_notrack"} => phase = "starting"
    BY PhaseOf
  <1> QED
    BY <1>1, <1>2 DEF Taken, Basics, Prepared

LEMMA ForwardFits ==
  ASSUME Taken("forward"), Clean
  PROVE  Suits("forward")
  <1>1. SameAround /\ ~cfg.skip
    BY TakenIs, NotSkipped
  <1>2. Silent /\ w'.k.fwd = TRUE /\ w'.k.snat = w.k.snat /\ w'.k.notrack = w.k.notrack /\ BypassSame
        /\ CaptureSame /\ UplinkSame /\ w'.m.rp = w.m.rp /\ w'.m.fwd = TRUE /\ w'.m.snat = w.m.snat
        /\ w'.m.notrack = w.m.notrack /\ RestSame /\ w'.m.rules = w.m.rules
    BY ForwardStep
  <1>3. (NoSNAT' <=> NoSNAT) /\ (Untouched' <=> Untouched) /\ cfg' = cfg
    BY <1>1, <1>2, SameNoSNAT, SameUntouched DEF RestSame, SameAround
  <1>5. Owned'
    BY <1>1, <1>2, <1>3 DEF Clean, Owned, UplinkSame, RestSame
  <1>6. Located'
    BY <1>1, <1>2, SameLocated DEF Clean, UplinkSame, RestSame
  <1> QED
    BY <1>2, <1>3, <1>5, <1>6 DEF Suits, Chained, BypassSame, CaptureSame, RestSame

LEMMA MarkFits ==
  ASSUME NEW a \in {"notrack", "client_notrack"}, NEW n, Taken(a), Clean,
         Silent, w'.k.fwd = w.k.fwd, w'.k.snat = w.k.snat, w'.k.notrack = w.k.notrack \cup {n},
         BypassSame, CaptureSame, UplinkSame, w'.m.rp = w.m.rp, w'.m.fwd = w.m.fwd,
         w'.m.snat = w.m.snat, w'.m.notrack = w.m.notrack \cup {n}, RestSame, w'.m.rules = w.m.rules
  PROVE  Suits(a)
  <1>1. SameAround /\ ~cfg.skip
    BY TakenIs, NotSkipped
  <1>3. (NoSNAT' <=> NoSNAT) /\ (Untouched' <=> Untouched) /\ cfg' = cfg
    BY <1>1, SameNoSNAT, SameUntouched DEF RestSame, SameAround
  <1>5. Owned'
    BY <1>1, <1>3 DEF Clean, Owned, UplinkSame, RestSame
  <1>6. Located'
    BY <1>1, SameLocated DEF Clean, UplinkSame, RestSame
  <1> QED
    BY <1>3, <1>5, <1>6 DEF Suits, Chained, BypassSame, CaptureSame, RestSame

LEMMA NotrackFits ==
  ASSUME Taken("notrack"), Clean
  PROVE  Suits("notrack")
  BY NotrackStep, MarkFits

LEMMA ClientNotrackFits ==
  ASSUME Taken("client_notrack"), Clean
  PROVE  Suits("client_notrack")
  BY ClientNotrackStep, MarkFits

LEMMA SnatFits ==
  ASSUME Taken("snat"), Clean
  PROVE  Suits("snat")
  <1>1. SameAround /\ ~cfg.skip
    BY TakenIs, NotSkipped
  <1>2. Silent /\ w'.k.fwd = w.k.fwd /\ w'.k.notrack = w.k.notrack /\ BypassSame /\ CaptureSame /\ UplinkSame
        /\ w'.m.rp = w.m.rp /\ w'.m.fwd = w.m.fwd /\ w'.m.notrack = w.m.notrack /\ RestSame
        /\ w'.m.rules = w.m.rules
        /\ ((w'.m.snat = w.m.snat /\ w'.k.snat = w.k.snat) \/ (w'.m.snat = TRUE /\ w'.k.snat = w.k.snat \cup {w.m.src}))
    BY SnatStep
  <1>3. (Untouched' <=> Untouched) /\ cfg' = cfg /\ (cfg.capture = "default" /\ Readdressed => NoSNAT')
        /\ (w'.k.snat = w.k.snat => (NoSNAT' <=> NoSNAT))
    BY <1>1, <1>2, SameNoSNAT, SameUntouched DEF RestSame, SameAround
  <1>4. NoSNAT' \/ (w'.k.snat \subseteq {w.m.src} /\ w'.m.snat)
    <2>1. (cfg.capture = "default" /\ Readdressed) \/ w.k.snat = {} \/ (w.k.snat \subseteq {w.m.src} /\ w.m.snat)
      BY DEF Clean, Owned, NoSNAT
    <2>2. CASE w'.m.snat = w.m.snat /\ w'.k.snat = w.k.snat
      BY <1>3, <2>2 DEF Clean, Owned
    <2>3. CASE w'.m.snat = TRUE /\ w'.k.snat = w.k.snat \cup {w.m.src}
      BY <1>3, <2>1, <2>3
    <2> QED
      BY <1>2, <2>2, <2>3
  <1>5. Owned'
    BY <1>1, <1>2, <1>3, <1>4 DEF Clean, Owned, UplinkSame, RestSame
  <1>6. Located'
    BY <1>1, <1>2, SameLocated DEF Clean, UplinkSame, RestSame
  <1> QED
    BY <1>2, <1>3, <1>5, <1>6 DEF Suits, Chained, BypassSame, CaptureSame, RestSame

\* The rule of the manager's source is the only one.
LEMMA NoneLeft ==
  ASSUME w \in Machines, SettingsOK, Owned, SameAround,
         (w'.k.snat = w.k.snat /\ (~w.m.snat \/ w.m.src = None)) \/ w'.k.snat = w.k.snat \ {w.m.src}
  PROVE  NoSNAT'
  <1>1. w.k.snat \subseteq Addresses /\ None \notin Addresses
    BY MachineFields, TunDistinct DEF Kernels
  <1>2. (cfg.capture = "default" /\ Readdressed) \/ w.k.snat = {} \/ (w.k.snat \subseteq {w.m.src} /\ w.m.snat)
    BY DEF Owned, NoSNAT
  <1>3. CASE cfg.capture = "default" /\ Readdressed
    BY <1>3, SameNoSNAT
  <1>4. CASE w.k.snat = {}
    <2>1. w'.k.snat = {}
      BY <1>4
    <2> QED
      BY <2>1, SameNoSNAT
  <1>5. CASE w.k.snat \subseteq {w.m.src} /\ w.m.snat
    <2>1. w'.k.snat = {}
      BY <1>1, <1>5
    <2> QED
      BY <2>1, SameNoSNAT
  <1> QED
    BY <1>2, <1>3, <1>4, <1>5

LEMMA UnsnatFits ==
  ASSUME Taken("unsnat"), Clean
  PROVE  Suits("unsnat")
  <1>1. SameAround /\ w \in Machines /\ SettingsOK
    BY TakenIs DEF Taken
  <1>2. Silent /\ w'.k.fwd = w.k.fwd /\ w'.k.notrack = w.k.notrack /\ BypassSame /\ CaptureSame /\ UplinkSame
        /\ w'.m.rp = w.m.rp /\ w'.m.fwd = w.m.fwd /\ w'.m.notrack = w.m.notrack /\ RestSame
        /\ w'.m.rules = w.m.rules
        /\ ((w'.k.snat = w.k.snat /\ (~w.m.snat \/ w.m.src = None)) \/ w'.k.snat = w.k.snat \ {w.m.src})
    BY UnsnatStep
  <1>3. NoSNAT' /\ (Untouched' <=> Untouched) /\ cfg' = cfg
    BY <1>1, <1>2, NoneLeft, SameUntouched DEF RestSame, SameAround, Clean
  <1>5. Owned'
    BY <1>2, <1>3 DEF Clean, Owned, UplinkSame, RestSame
  <1>6. Located'
    BY <1>1, <1>2, SameLocated DEF Clean, UplinkSame, RestSame
  <1> QED
    BY <1>2, <1>3, <1>5, <1>6 DEF Suits, Chained, BypassSame, CaptureSame, RestSame

LEMMA UnnatFits ==
  ASSUME Taken("unnat"), Clean
  PROVE  Suits("unnat")
  <1>1. SameAround /\ w \in Machines /\ SettingsOK
    BY TakenIs DEF Taken
  <1>2. Silent /\ w'.k.fwd = w.k.fwd /\ w'.k.notrack = w.k.notrack \ w.m.notrack /\ BypassSame /\ CaptureSame
        /\ UplinkSame /\ w'.m.rp = w.m.rp /\ w'.m.fwd = w.m.fwd /\ w'.m.notrack = {} /\ RestSame
        /\ w'.m.rules = w.m.rules
        /\ ((w'.k.snat = w.k.snat /\ (~w.m.snat \/ w.m.src = None)) \/ w'.k.snat = w.k.snat \ {w.m.src})
    BY UnnatStep
  <1>3. NoSNAT' /\ (Untouched' <=> Untouched) /\ cfg' = cfg
    BY <1>1, <1>2, NoneLeft, SameUntouched DEF RestSame, SameAround, Clean
  <1>4. w'.k.notrack = {}
    BY <1>2 DEF Clean, Owned
  <1>5. Owned'
    BY <1>2, <1>3, <1>4 DEF Clean, Owned, UplinkSame, RestSame
  <1>6. Located'
    BY <1>1, <1>2, SameLocated DEF Clean, UplinkSame, RestSame
  <1> QED
    BY <1>2, <1>3, <1>4, <1>5, <1>6 DEF Suits, Chained, BypassSame, CaptureSame, RestSame

LEMMA UnrpFits ==
  ASSUME Taken("unrp"), Clean
  PROVE  Suits("unrp")
  <1>1. SameAround /\ w \in Machines /\ SettingsOK
    BY TakenIs DEF Taken
  <1>2. Silent /\ NatSame /\ BypassSame /\ CaptureSame /\ UplinkSame /\ UndoSame /\ w'.main = w.main
        /\ w'.file = w.file /\ w'.m.rules = w.m.rules
        /\ ((w'.rp = w.rp /\ w.m.rp = None) \/ (w'.rp = [w.rp EXCEPT ![w.m.out] = w.m.rp]))
    BY UnrpStep
  <1>3. (NoSNAT' <=> NoSNAT) /\ cfg' = cfg
    BY <1>1, <1>2, SameNoSNAT DEF NatSame, SameAround
  <1>4. \A u \in Uplinks : w'.rp[u] = "admin"
    <2>1. w.rp \in [Uplinks -> {"admin", "loose"}] /\ w.m.rp \in {"admin", "loose", None} /\ None # "admin"
      BY <1>1, MachineFields, TunDistinct DEF Managers
    <2>2. w.m.rp # "loose" /\ \A u \in Uplinks : w.rp[u] = "admin" \/ (u = w.m.out /\ w.m.rp = "admin")
      BY DEF Clean, Owned
    <2>3. CASE w.m.rp = "admin"
      BY <1>2, <2>1, <2>2, <2>3
    <2>4. CASE w.m.rp = None
      <3>1. \A u \in Uplinks : w.rp[u] = "admin"
        BY <2>1, <2>2, <2>4
      <3>2. w'.rp \in [Uplinks -> {"admin", "loose"}] /\ None # "loose"
        BY <1>1, <1>2, MachineFields, TunDistinct DEF Silent
      <3> QED
        BY <1>2, <2>1, <2>4, <3>1, <3>2
    <2> QED
      BY <2>1, <2>2, <2>3, <2>4
  <1>5. Untouched'
    BY <1>4 DEF Untouched
  <1>6. Owned'
    BY <1>2, <1>3, <1>4, <1>5 DEF Clean, Owned, UplinkSame, NatSame, UndoSame
  <1>7. Located'
    BY <1>1, <1>2, SameLocated DEF Clean, UplinkSame
  <1> QED
    BY <1>2, <1>3, <1>5, <1>6, <1>7 DEF Suits, Chained, BypassSame, CaptureSame, NatSame

LEMMA LoosenFits ==
  ASSUME Taken("loosen"), Clean
  PROVE  Suits("loosen")
  <1>1. SameAround /\ ~cfg.skip /\ w \in Machines /\ "loosen" \in Coming(w) /\ phase \in {"starting", "running", "stopping"}
    BY TakenIs, NotSkipped, PhaseOf
  <1>2. Silent /\ w'.main = w.main /\ w'.file = w.file /\ w'.k = w.k /\ UplinkSame
        /\ w.m.out \in Uplinks /\ w'.m.rp = w.rp[w.m.out] /\ w'.rp = [w.rp EXCEPT ![w.m.out] = "loose"]
        /\ w'.m.fwd = w.m.fwd /\ w'.m.snat = w.m.snat /\ w'.m.notrack = w.m.notrack /\ w'.m.rules = w.m.rules
    BY LoosenStep
  <1>3. (NoSNAT' <=> NoSNAT) /\ cfg' = cfg
    BY <1>1, <1>2, SameNoSNAT DEF SameAround
  <1>4. \A u \in Uplinks : w.rp[u] = "admin"
    <2>1. CASE phase = "starting"
      BY <1>1, <2>1 DEF Clean, Starting, Untouched
    <2>2. CASE phase \in {"running", "stopping"}
      <3>1. Coming(w) = {"loosen"} \cup Coming(w') /\ \A b \in Coming(w') : ~NeverThenInLoop("loosen", b)
        BY <1>2, <2>2, Nexts
      <3>2. "unrp" \notin Coming(w)
        BY <3>1 DEF NeverThenInLoop
      <3> QED
        BY <1>1, <2>2, <3>2 DEF Clean, Serving, Untouched
    <2> QED
      BY <1>1, <2>1, <2>2
  <1>5. w'.m.rp = "admin" /\ \A u \in Uplinks : w'.rp[u] = "admin" \/ (u = w'.m.out /\ w'.m.rp = "admin")
    <2>1. w.rp \in [Uplinks -> {"admin", "loose"}]
      BY <1>1, MachineFields
    <2> QED
      BY <1>2, <1>4, <2>1 DEF UplinkSame
  <1>6. Owned'
    BY <1>1, <1>2, <1>3, <1>5 DEF Clean, Owned, UplinkSame
  <1>7. Located'
    BY <1>1, <1>2, SameLocated DEF Clean, UplinkSame
  <1> QED
    BY <1>2, <1>3, <1>6, <1>7 DEF Suits, Chained

\* The addresses handed on by a refresh.
LEMMA HeadPlaced ==
  ASSUME NEW a, Taken(a), Located, ~Readdressed
  PROVE  Head(w.pc).src \in Sources
  <1>1. w \in Machines /\ w.pc # <<>>
    BY TakenIs
  <1>2. 1 \in DOMAIN w.pc /\ w.pc[1] = Head(w.pc)
    BY <1>1, Popped
  <1> QED
    BY <1>2 DEF Located

LEMMA SourceFits ==
  ASSUME Taken("source"), Clean
  PROVE  Suits("source")
  <1>1. SameAround /\ "source" \in Coming(w)
    BY TakenIs
  <1>2. Silent /\ RestSame /\ w'.k = w.k /\ UndoSame /\ w'.m.rules = w.m.rules
        /\ w'.m.out = w.m.out /\ w'.m.saved = w.m.saved /\ w'.m.src = Head(w.pc).src
        /\ phase \in {"running", "stopping"}
    BY SourceStep
  <1>3. (NoSNAT' <=> NoSNAT) /\ (Untouched' <=> Untouched) /\ cfg' = cfg
    BY <1>1, <1>2, SameNoSNAT, SameUntouched DEF RestSame, SameAround
  <1>4. NoSNAT
    <2>1. Coming(w) = {"source"} \cup Coming(w') /\ \A b \in Coming(w') : ~NeverThenInLoop("source", b)
      BY <1>2, Nexts
    <2>2. "unsnat" \notin Coming(w)
      BY <2>1 DEF NeverThenInLoop
    <2> QED
      BY <1>1, <1>2, <2>2 DEF Clean, Serving
  <1>5. Owned'
    BY <1>2, <1>3, <1>4 DEF Clean, Owned, UndoSame, RestSame
  <1>6. Located'
    <2>1. ~Readdressed => Placed
      BY <1>2, HeadPlaced DEF Clean, Located, Placed, RestSame
    <2> QED
      BY <1>1, <1>2, <2>1, QuietLocated DEF Clean
  <1> QED
    BY <1>2, <1>3, <1>5, <1>6 DEF Suits, Chained, RestSame

LEMMA RepointFits ==
  ASSUME Taken("repoint"), Clean
  PROVE  Suits("repoint")
  <1>1. SameAround /\ "repoint" \in Coming(w) /\ SettingsOK
    BY TakenIs DEF Taken
  <1>2. Silent /\ RestSame /\ w'.k = w.k /\ w'.m.rules = w.m.rules /\ w'.m.rp = None /\ w'.m.fwd = w.m.fwd
        /\ w'.m.snat = w.m.snat /\ w'.m.notrack = w.m.notrack /\ w'.m.src = Head(w.pc).src
        /\ (w'.m.saved = w.m.saved \/ (w'.m.saved # None /\ w'.m.saved.src = Head(w.pc).src))
        /\ phase \in {"running", "stopping"}
    BY RepointStep
  <1>3. (NoSNAT' <=> NoSNAT) /\ (Untouched' <=> Untouched) /\ cfg' = cfg
    BY <1>1, <1>2, SameNoSNAT, SameUntouched DEF RestSame, SameAround
  <1>4. NoSNAT /\ Untouched
    <2>1. Coming(w) = {"repoint"} \cup Coming(w') /\ \A b \in Coming(w') : ~NeverThenInLoop("repoint", b)
      BY <1>2, Nexts
    <2>2. "unsnat" \notin Coming(w) /\ "unrp" \notin Coming(w)
      BY <2>1 DEF NeverThenInLoop
    <2> QED
      BY <1>1, <1>2, <2>2 DEF Clean, Serving
  <1>5. Owned'
    <2>1. None # "loose"
      BY <1>1, TunDistinct
    <2> QED
      BY <1>2, <1>3, <1>4, <2>1 DEF Clean, Owned, Untouched, RestSame
  <1>6. Located'
    <2>1. ~Readdressed => Placed
      BY <1>2, HeadPlaced DEF Clean, Located, Placed, RestSame
    <2> QED
      BY <1>1, <1>2, <2>1, QuietLocated DEF Clean
  <1> QED
    BY <1>2, <1>3, <1>5, <1>6 DEF Suits, Chained, RestSame

\* Without a kill no start finds a state file.
LEMMA NoFile ==
  ASSUME NEW a \in InRestore \cup {"open"}, Taken(a), Clean, phase \in {"starting", "clearing"}
  PROVE  Pristine /\ w.file = None /\ a \notin {"undo_route", "undo_rp"}
  <1>1. a \in Coming(w) /\ SettingsOK
    BY TakenIs DEF Taken
  <1>2. Resting
    BY NotBegun DEF Resting
  <1>3. Pristine /\ w.file = None
    BY <1>2 DEF Clean, Pristine
  <1>4. a \in {"undo_route", "undo_rp"} => w.file \in Files
    BY <1>1 DEF Taken, Basics, Managed
  <1> QED
    BY <1>1, <1>3, <1>4, TunDistinct

LEMMA RestoreFits ==
  ASSUME Taken("restore"), Clean
  PROVE  Suits("restore")
  <1>1. SameAround /\ phase \in {"starting", "clearing"} /\ SettingsOK
    BY TakenIs, PhaseOf DEF Taken
  <1>2. w.file = None
    BY <1>1, NoFile DEF InRestore
  <1>3. Silent /\ AllSame
    BY <1>1, <1>2, RestoreStep, TunDistinct
  <1>4. /\ Owned' /\ Located' /\ (NoSNAT' <=> NoSNAT) /\ (Untouched' <=> Untouched)
    BY <1>1, <1>3, SameFits DEF AllSame, RestSame, NatSame, UndoSame
  <1> QED
    BY <1>3, <1>4 DEF Suits, Chained, AllSame, RestSame

LEMMA OpenFits ==
  ASSUME Taken("open"), Clean
  PROVE  Suits("open")
  <1>1. SameAround /\ SettingsOK
    BY TakenIs DEF Taken
  <1>2. Silent /\ RestSame /\ NatSame /\ BypassSame /\ CaptureSame /\ w'.m = NoManager /\ phase = "starting"
    BY OpenStep
  <1>3. (NoSNAT' <=> NoSNAT) /\ (Untouched' <=> Untouched) /\ cfg' = cfg
    BY <1>1, <1>2, SameNoSNAT, SameUntouched DEF RestSame, NatSame, SameAround
  <1>4. Pristine
    BY <1>2, NoFile
  <1>5. w'.m.rp = None /\ None # "loose" /\ w'.m.src = None /\ w'.m.saved = None
    BY <1>1, <1>2, TunDistinct DEF NoManager
  <1>6. Owned'
    BY <1>2, <1>3, <1>4, <1>5 DEF Owned, Pristine, Untouched, NatSame, RestSame
  <1>7. Located'
    <2>1. ~Readdressed => Placed
      BY <1>2, <1>5 DEF Clean, Located, Placed, RestSame, Sources
    <2> QED
      BY <1>1, <1>2, <2>1, QuietLocated DEF Clean
  <1> QED
    BY <1>2, <1>3, <1>6, <1>7 DEF Suits, Chained, BypassSame, CaptureSame, NatSame, RestSame

\* The default route into the device, with the manager's source if the kernel takes it.
LEMMA HijacksFits ==
  ASSUME NEW a \in {"into_tun", "redefault"}, Taken(a), Clean, (Silent /\ AllSame) \/ Hijacks
  PROVE  Suits(a)
  <1>1. SameAround /\ a \in Coming(w) /\ phase \in {"starting", "running", "stopping"}
    BY TakenIs, PhaseOf
  <1>2. CASE Silent /\ AllSame
    <2>1. /\ Owned' /\ Located' /\ (NoSNAT' <=> NoSNAT) /\ (Untouched' <=> Untouched)
      BY <1>1, <1>2, SameFits DEF AllSame, RestSame, NatSame, UndoSame
    <2> QED
      BY <1>2, <2>1 DEF Suits, Chained, AllSame, RestSame
  <1>3. CASE Hijacks
    <2>1. Silent /\ w'.rp = w.rp /\ w'.file = w.file /\ w'.k = w.k /\ UndoSame /\ w'.m.rules = w.m.rules
          /\ w'.m.out = w.m.out /\ w'.m.saved = w.m.saved
          /\ w'.m.src = (IF Local(w.m.src) THEN w.m.src ELSE None)
          /\ w'.main = [w.main EXCEPT ![0] = [dev |-> Dev, src |-> w'.m.src, metric |-> 0]]
      BY <1>3 DEF Hijacks
    <2>2. (NoSNAT' <=> NoSNAT) /\ (Untouched' <=> Untouched) /\ cfg' = cfg
      BY <1>1, <2>1, SameNoSNAT, SameUntouched DEF SameAround
    <2>3. cfg.capture = "default"
      <3>1. a = "redefault" => phase \in {"running", "stopping"}
        BY PhaseOf
      <3> QED
        BY <1>1, <3>1 DEF Taken, Basics, Prepared
    <2>4. Local(w.m.src) \/ Readdressed
      BY DEF Clean, Located, Local, Sources
    <2>5. w'.m.src = w.m.src \/ NoSNAT
      BY <2>1, <2>3, <2>4 DEF NoSNAT
    <2>6. Owned'
      BY <2>1, <2>2, <2>5 DEF Clean, Owned, UndoSame
    <2>7. Located'
      <3>1. ASSUME ~Readdressed
            PROVE  Placed
        <4>1. w'.m.src = w.m.src /\ w.m.src \in Sources /\ (w.m.saved # None => w.m.saved.src \in Sources)
              /\ \A i \in 0..1 : w.main[i] # None => w.main[i].src \in Sources
          BY <2>1, <2>4, <3>1 DEF Clean, Located
        <4>2. w.main \in [0..1 -> Routes \cup {None}]
          BY MachineFields, TakenIs
        <4> DEFINE r == [dev |-> Dev, src |-> w'.m.src, metric |-> 0]
        <4>3. r.src = w'.m.src
          OBVIOUS
        <4> HIDE DEF r
        <4>4. w'.main = [w.main EXCEPT ![0] = r]
          BY <2>1 DEF r
        <4>5. \A i \in 0..1 : w'.main[i] = r \/ w'.main[i] = w.main[i]
          BY <4>2, <4>4
        <4> QED
          BY <2>1, <4>1, <4>3, <4>5 DEF Placed
      <3> QED
        BY <1>1, <2>1, <3>1, QuietLocated DEF Clean
    <2> QED
      BY <2>1, <2>2, <2>6, <2>7 DEF Suits, Chained
  <1> QED
    BY <1>2, <1>3

LEMMA IntoTunFits ==
  ASSUME Taken("into_tun"), Clean
  PROVE  Suits("into_tun")
  BY IntoTunStep, HijacksFits

LEMMA RedefaultFits ==
  ASSUME Taken("redefault"), Clean
  PROVE  Suits("redefault")
  BY RedefaultStep, HijacksFits

LEMMA UndefaultFits ==
  ASSUME Taken("undefault"), Clean
  PROVE  Suits("undefault")
  <1>1. SameAround /\ w \in Machines /\ SettingsOK
    BY TakenIs DEF Taken
  <1>2. Silent /\ w'.rp = w.rp /\ w'.k = w.k /\ w'.m = w.m /\ w'.file = w.file
        /\ w.m.saved \in UpRoutes
        /\ (w'.main = w.main \/ w'.main = [w.main EXCEPT ![w.m.saved.metric] = w.m.saved])
    BY UndefaultStep
  <1>3. (NoSNAT' <=> NoSNAT) /\ (Untouched' <=> Untouched) /\ cfg' = cfg
    BY <1>1, <1>2, SameNoSNAT, SameUntouched DEF SameAround
  <1>4. Owned'
    BY <1>1, <1>2, SameOwned DEF Clean, NatSame, UndoSame
  <1>5. Located'
    <2>1. w.main \in [0..1 -> Routes \cup {None}] /\ w.m.saved # None
      BY <1>1, <1>2, MachineFields, TunDistinct
    <2> DEFINE r == w.m.saved
    <2> HIDE DEF r
    <2>2. w'.main = w.main \/ w'.main = [w.main EXCEPT ![r.metric] = r]
      BY <1>2 DEF r
    <2>3. \A i \in 0..1 : w'.main[i] = w.main[i] \/ w'.main[i] = r
      BY <2>1, <2>2
    <2>4. ~Readdressed => Placed
      BY <1>2, <2>1, <2>3 DEF Clean, Located, Placed, r
    <2> QED
      BY <1>1, <1>2, <2>4, QuietLocated DEF Clean
  <1> QED
    BY <1>2, <1>3, <1>4, <1>5 DEF Suits, Chained

LEMMA LinkDelFits ==
  ASSUME Taken("link_del"), Clean
  PROVE  Suits("link_del")
  <1>1. SameAround
    BY TakenIs
  <1>2. Silent /\ w'.rp = w.rp /\ w'.m = w.m /\ w'.file = w.file
        /\ NatSame /\ BypassSame /\ w'.k.ctab = None
        /\ w'.k.crule = w.k.crule /\ w'.k.chain = w.k.chain /\ w'.k.gate = w.k.gate /\ w'.k.jumps = w.k.jumps
        /\ \A i \in 0..1 : w'.main[i] \in {w.main[i], None}
    BY LinkDelStep
  <1>3. (NoSNAT' <=> NoSNAT) /\ (Untouched' <=> Untouched) /\ cfg' = cfg
    BY <1>1, <1>2, SameNoSNAT, SameUntouched DEF SameAround, NatSame
  <1>4. Owned'
    BY <1>1, <1>2, SameOwned DEF Clean, UndoSame
  <1>5. Located'
    <2>1. ~Readdressed => Placed
      BY <1>2 DEF Clean, Located, Placed
    <2> QED
      BY <1>1, <1>2, <2>1, QuietLocated DEF Clean
  <1> QED
    BY <1>2, <1>3, <1>4, <1>5 DEF Suits, Chained, NatSame, BypassSame

(* The commands that issue others *)

Calm == cfg' = cfg /\ addr' = addr /\ left'.readdr = left.readdr

LEMMA CalmAround ==
  /\ SameAround => Calm
  /\ Still => Calm
  BY DEF SameAround, Still, Calm

LEMMA CalmSame ==
  ASSUME Calm, AllSame
  PROVE  /\ (NoSNAT' <=> NoSNAT) /\ (Untouched' <=> Untouched) /\ (CapturesPorts' <=> CapturesPorts)
         /\ (Owned' <=> Owned) /\ (Pristine' <=> Pristine) /\ (Readdressed' <=> Readdressed)
  <1>1. Readdressed' <=> Readdressed
    BY DEF Readdressed, Calm
  <1>2. (NoSNAT' <=> NoSNAT) /\ (Untouched' <=> Untouched) /\ (CapturesPorts' <=> CapturesPorts)
    BY <1>1 DEF NoSNAT, Untouched, CapturesPorts, AllSame, RestSame, Calm
  <1>3. Owned' <=> Owned
    BY <1>2 DEF Owned, AllSame, RestSame, Calm
  <1>4. Pristine' <=> Pristine
    BY <1>2 DEF Pristine, AllSame, RestSame
  <1> QED
    BY <1>1, <1>2, <1>3, <1>4

LEMMA PlainArgs ==
  ASSUME NEW c \in Args({})
  PROVE  c.src \in Sources
  BY DEF Args, Sources

LEMMA CalmLocated ==
  ASSUME Calm, AllSame, Located,
         \A i \in DOMAIN w'.pc : w'.pc[i] \in Args({}) \/ \E j \in DOMAIN w.pc : w'.pc[i] = w.pc[j]
  PROVE  Located'
  <1>1. Readdressed' <=> Readdressed
    BY CalmSame
  <1>2. SUFFICES ASSUME ~Readdressed
                 PROVE  Located'
    BY <1>1 DEF Located
  <1>3. \A i \in DOMAIN w'.pc : w'.pc[i].src \in Sources
    BY <1>2, PlainArgs DEF Located
  <1> QED
    BY <1>2, <1>3 DEF Located, AllSame, RestSame, Calm

LEMMA AbortClean ==
  ASSUME Clean, ~CapturesPorts, phase' = "starting", Aborts, Calm
  PROVE  Clean'
  <1>1. Coming(w') = {"fail"} /\ AllSame /\ \A i \in DOMAIN w'.pc : w'.pc[i] \in Args({})
    BY FailComes DEF Aborts
  <1>2. ~CapturesPorts' /\ Owned'
    BY <1>1, CalmSame DEF Clean
  <1>3. Located'
    BY <1>1, CalmLocated DEF Clean
  <1>4. Starting'
    BY <1>1, <1>2 DEF Starting, Begun
  <1>5. w'.k.crule => cfg'.capture = "ports"
    BY <1>1 DEF Clean, AllSame, Calm
  <1> QED
    BY <1>1, <1>2, <1>3, <1>4, <1>5 DEF Clean, Resting, Down

LEMMA BypassClean ==
  ASSUME Taken("bypass"), Clean
  PROVE  Clean'
  <1>1. SameAround /\ "bypass" \in Coming(w) /\ phase = "starting" /\ phase' = phase
    BY TakenIs, PhaseOf
  <1>2. CASE Aborts
    <2>1. ~CapturesPorts
      BY <1>1 DEF Clean, Starting, Fallible
    <2> QED
      BY <1>1, <1>2, <2>1, AbortClean, CalmAround
  <1>3. CASE Silent /\ RestSame /\ w'.m = w.m /\ NatSame /\ CaptureSame /\ w'.k.brule = TRUE /\ w'.k.btab = None
    <2>1. /\ Owned' /\ Located' /\ (NoSNAT' <=> NoSNAT) /\ (Untouched' <=> Untouched) /\ w'.k.fwd = w.k.fwd
          /\ w'.k.notrack = w.k.notrack
      BY <1>1, <1>3, SameFits DEF RestSame, UndoSame
    <2>2. Suits("bypass")
      BY <1>3, <2>1 DEF Suits, Chained, CaptureSame, RestSame
    <2> QED
      BY <2>2, FitsClean
  <1> QED
    BY <1>2, <1>3, BypassStep

LEMMA CtabClean ==
  ASSUME Taken("ctab"), Clean
  PROVE  Clean'
  <1>1. SameAround /\ "ctab" \in Coming(w) /\ phase' = phase
    BY TakenIs
  <1>2. CASE Aborts /\ phase = "starting"
    <2>1. ~CapturesPorts
      BY <1>1, <1>2 DEF Clean, Starting, Fallible
    <2> QED
      BY <1>1, <1>2, <2>1, AbortClean, CalmAround
  <1>3. CASE Silent /\ AllSame /\ phase # "starting"
    <2>1. /\ Owned' /\ Located' /\ (NoSNAT' <=> NoSNAT) /\ (Untouched' <=> Untouched)
      BY <1>1, <1>3, SameFits DEF AllSame, RestSame, NatSame, UndoSame
    <2>2. Suits("ctab")
      BY <1>3, <2>1 DEF Suits, Chained, AllSame, RestSame
    <2> QED
      BY <2>2, FitsClean
  <1>4. CASE /\ Silent /\ RestSame /\ w'.m = w.m /\ NatSame /\ BypassSame
             /\ w'.k.crule = w.k.crule /\ w'.k.chain = w.k.chain /\ w'.k.gate = w.k.gate /\ w'.k.jumps = w.k.jumps
    <2>1. /\ Owned' /\ Located' /\ (NoSNAT' <=> NoSNAT) /\ (Untouched' <=> Untouched) /\ w'.k.fwd = w.k.fwd
          /\ w'.k.notrack = w.k.notrack
      BY <1>1, <1>4, SameFits DEF RestSame, UndoSame
    <2>2. Suits("ctab")
      BY <1>4, <2>1 DEF Suits, Chained, BypassSame, RestSame
    <2> QED
      BY <2>2, FitsClean
  <1> QED
    BY <1>2, <1>3, <1>4, CtabStep

LEMMA SetupClean ==
  ASSUME Taken("setup"), Clean
  PROVE  Clean'
  <1>1. /\ SameAround /\ phase = "starting" /\ phase' = "starting" /\ (Aborts \/ SetsUp) /\ "setup" \in Coming(w)
        /\ SettingsOK /\ w \in Machines /\ w.pc # <<>> /\ cfg \in Settings /\ Managed
    BY TakenIs, SetupStep DEF Taken, Basics, TunTypes
  <1>2. Pristine
    BY <1>1 DEF Clean, Resting
  <1>3. CASE Aborts
    BY <1>1, <1>2, <1>3, AbortClean, CalmAround DEF Pristine
  <1>4. CASE SetsUp
    <2>1. /\ Coming(w') \subseteq InSetup /\ (cfg.capture = "ports" => "captured" \in Coming(w'))
          /\ \A i \in DOMAIN w'.pc : w'.pc[i] \in Args({})
      BY <1>1, <1>4, SetsUpComes
    <2>2. /\ RestSame /\ w'.k = w.k /\ UndoSame /\ w'.m.saved = FirstDefault(w)
          /\ \/ \E u \in Uplinks : w'.m.src = addr[u]
             \/ \E i \in 0..1 : w.main[i] # None /\ w'.m.src = w.main[i].src
      BY <1>4 DEF SetsUp
    <2>3. (NoSNAT' <=> NoSNAT) /\ (Untouched' <=> Untouched) /\ cfg' = cfg /\ addr' = addr
          /\ (Readdressed' <=> Readdressed)
      BY <1>1, <2>2, SameNoSNAT, SameUntouched, SameReaddressed DEF RestSame, SameAround
    <2>4. Owned'
      BY <1>2, <2>2, <2>3 DEF Clean, Owned, Pristine, Untouched, UndoSame, RestSame
    <2>5. ~CapturesPorts'
      BY <1>2, <2>2 DEF Pristine, CapturesPorts
    <2>6. Starting'
      BY <1>2, <2>1, <2>3, <2>5 DEF Starting, Pristine
    <2>7. ASSUME ~Readdressed
          PROVE  Located'
      <3>1. /\ addr = [u \in Uplinks |-> <<u, 0>>]
            /\ \A i \in 0..1 : w.main[i] # None => w.main[i].src \in Sources
        BY <2>7 DEF Clean, Located
      <3>2. \A i \in DOMAIN w'.pc : w'.pc[i].src \in Sources
        BY <2>1, PlainArgs
      <3>3. w'.m.src \in Sources
        BY <2>2, <3>1 DEF Sources
      <3>4. ~Hijacked(w)
        BY <1>1 DEF Managed, Hijacked
      <3>5. w'.m.saved # None => w'.m.saved.src \in Sources
        BY <1>1, <2>2, <3>1, <3>4, FirstDefaultIs
      <3> QED
        BY <2>2, <2>3, <3>1, <3>2, <3>3, <3>5 DEF Located, RestSame
    <2>8. Located'
      BY <2>3, <2>7 DEF Located
    <2>9. w'.k.crule => cfg'.capture = "ports"
      BY <2>2, <2>3 DEF Clean
    <2>10. "setup" \notin Coming(w') /\ "teardown" \notin Coming(w')
      BY <2>1 DEF InSetup
    <2> QED
      BY <1>1, <2>4, <2>6, <2>8, <2>9, <2>10 DEF Clean, Resting, Down
  <1> QED
    BY <1>1, <1>3, <1>4

\* A teardown that begins has a command for everything that is there.
LEMMA UndoesClean ==
  ASSUME NEW p \in {"tearing", "failing"}, Undoes(p), phase' = p, Calm, Clean,
         cfg.capture \in {"ports", "default"},
         CapturesPorts \/ (w.k.crule /\ p = "tearing") => w.m.cap = "ports" /\ w.m.rules
  PROVE  Clean'
  <1>1. /\ AllSame /\ Coming(w') \subseteq InTeardown /\ {"unmark", "flush", "link_del", "forget"} \subseteq Coming(w')
        /\ (w.m.cap = "ports" /\ w.m.rules => {"unchain", "uncapture"} \subseteq Coming(w'))
        /\ (~cfg.skip => {"unforward", "unnat", "unrp"} \subseteq Coming(w'))
        /\ \A i \in DOMAIN w'.pc : w'.pc[i] \in Args({})
    BY DEF Undoes
  <1>2. (NoSNAT' <=> NoSNAT) /\ (Untouched' <=> Untouched) /\ Owned' /\ Owned
    BY <1>1, CalmSame DEF Clean
  <1>3. cfg.skip => Untouched /\ NoSNAT /\ ~w.k.fwd /\ w.k.notrack = {}
    BY <1>2 DEF Owned
  <1>4. Undoing'
    <2>1. /\ "unmark" \in Coming(w') /\ "flush" \in Coming(w') /\ "link_del" \in Coming(w') /\ "forget" \in Coming(w')
      BY <1>1
    <2>2. w.k.chain # None \/ w.k.gate \/ w.k.jumps # {} => "unchain" \in Coming(w')
      BY <1>1 DEF CapturesPorts
    <2>3. w.k.crule => "uncapture" \in Coming(w') \/ p = "failing"
      BY <1>1
    <2>4. /\ w.k.fwd => "unforward" \in Coming(w')
          /\ NoSNAT \/ "unnat" \in Coming(w')
          /\ w.k.notrack # {} => "unnat" \in Coming(w')
          /\ Untouched \/ "unrp" \in Coming(w')
      BY <1>1, <1>3
    <2> QED
      BY <1>1, <1>2, <2>1, <2>2, <2>3, <2>4 DEF Undoing, AllSame, RestSame
  <1>5. Located'
    BY <1>1, CalmLocated DEF Clean
  <1>6. w'.k.crule => cfg'.capture = "ports"
    BY <1>1 DEF Clean, AllSame, Calm
  <1>7. "teardown" \notin Coming(w')
    BY <1>1 DEF InTeardown
  <1> QED
    BY <1>2, <1>4, <1>5, <1>6, <1>7 DEF Clean, Resting, Down

LEMMA TeardownClean ==
  ASSUME Taken("teardown"), Clean
  PROVE  Clean'
  <1>1. /\ Undoes("tearing") /\ phase = "tearing" /\ phase' = "tearing" /\ Calm /\ "teardown" \in Coming(w)
        /\ SettingsOK /\ cfg \in Settings
    BY TeardownStep, TakenIs, CalmAround DEF Taken, Basics, TunTypes
  <1>2. Serving /\ (w.k.crule => cfg.capture = "ports")
    BY <1>1 DEF Clean
  <1>3. w.m.cap = cfg.capture
    BY <1>1 DEF Taken, Basics, Managed, Begun
  <1>4. cfg.capture \in {"ports", "default"}
    BY <1>1, TunSettings
  <1> QED
    BY <1>1, <1>2, <1>3, <1>4, UndoesClean DEF Serving

LEMMA FailClean ==
  ASSUME Taken("fail"), Clean
  PROVE  Clean'
  <1>1. /\ Undoes("failing") /\ phase = "starting" /\ phase' = "failing" /\ Calm /\ "fail" \in Coming(w)
        /\ SettingsOK /\ cfg \in Settings
    BY FailStep, TakenIs, CalmAround DEF Taken, Basics, TunTypes
  <1>2. ~CapturesPorts
    BY <1>1 DEF Clean, Starting
  <1>4. cfg.capture \in {"ports", "default"}
    BY <1>1, TunSettings
  <1> QED
    BY <1>1, <1>2, <1>4, UndoesClean

LEMMA RefreshesClean ==
  ASSUME NEW a \in {"refresh", "resource"}, Taken(a), Clean, phase \in {"running", "stopping"}, phase' = phase,
         (Silent /\ AllSame) \/ \E N, R : Refreshes(a, N, R) /\ Carried(w')
  PROVE  Clean'
  <1>1. SameAround /\ Calm
    BY TakenIs, CalmAround
  <1>2. CASE Silent /\ AllSame
    <2>1. /\ Owned' /\ Located' /\ (NoSNAT' <=> NoSNAT) /\ (Untouched' <=> Untouched)
      BY <1>1, <1>2, SameFits DEF AllSame, RestSame, NatSame, UndoSame
    <2>2. Suits(a)
      BY <1>2, <2>1 DEF Suits, Chained, AllSame, RestSame
    <2> QED
      BY <2>2, FitsClean
  <1>3. CASE \E N, R : Refreshes(a, N, R) /\ Carried(w')
    <2>1. PICK N, R : Refreshes(a, N, R) /\ Carried(w')
      BY <1>3
    <2>2. /\ Coming(w') = N \cup R /\ R \subseteq AtEnd /\ AllSame
          /\ N \subseteq InLoop \ (AtEnd \cup {"refresh"})
          /\ "unsnat" \in N /\ (a = "resource" => N \cap {"unrp", "repoint", "loosen"} = {})
          /\ (a = "refresh" /\ ~cfg.skip => {"unrp", "loosen"} \subseteq N)
      BY <2>1 DEF Refreshes
    <2>3. (NoSNAT' <=> NoSNAT) /\ (Untouched' <=> Untouched) /\ (CapturesPorts' <=> CapturesPorts) /\ Owned' /\ Owned
          /\ (Readdressed' <=> Readdressed)
      BY <1>1, <2>2, CalmSame DEF Clean
    <2>4. Serving'
      <3>1. Serving
        BY DEF Clean
      <3>2. "unsnat" \in Coming(w')
        BY <2>2
      <3>3. Coming(w') \cap {"loosen", "repoint"} # {} /\ "unrp" \notin Coming(w') => Untouched'
        <4>1. cfg.skip => Untouched
          BY <2>3 DEF Owned
        <4>2. R \cap {"loosen", "repoint"} = {}
          BY <2>2 DEF AtEnd
        <4> QED
          BY <2>2, <2>3, <4>1, <4>2
      <3>4. w'.m.rules = w.m.rules /\ cfg' = cfg
        BY <1>1, <2>2 DEF AllSame, SameAround
      <3> QED
        BY <2>3, <3>1, <3>2, <3>3, <3>4 DEF Serving
    <2>5. ASSUME ~Readdressed
          PROVE  Located'
      <3>1. PICK c \in Addresses :
              /\ \/ \E u \in Uplinks : c = addr[u]
                 \/ \E i \in 0..1 : w.main[i] # None /\ c = w.main[i].src
              /\ \A i \in DOMAIN w'.pc : w'.pc[i] \in Args({c}) \/ \E j \in DOMAIN w.pc : w'.pc[i] = w.pc[j]
        BY <2>1 DEF Carried
      <3>2. /\ addr = [u \in Uplinks |-> <<u, 0>>]
            /\ \A i \in 0..1 : w.main[i] # None => w.main[i].src \in Sources
            /\ \A i \in DOMAIN w.pc : w.pc[i].src \in Sources
            /\ w.m.src \in Sources /\ (w.m.saved # None => w.m.saved.src \in Sources)
        BY <2>5 DEF Clean, Located
      <3>3. c \in Sources
        BY <3>1, <3>2 DEF Sources
      <3>4. \A d \in Args({c}) : d.src \in Sources
        BY <3>3 DEF Args, Sources
      <3>5. \A i \in DOMAIN w'.pc : w'.pc[i].src \in Sources
        BY <3>1, <3>2, <3>4
      <3> QED
        BY <1>1, <2>2, <3>2, <3>5 DEF Located, AllSame, RestSame, Calm
    <2>6. Located'
      BY <2>3, <2>5 DEF Located
    <2>7. w'.k.crule => cfg'.capture = "ports"
      BY <1>1, <2>2 DEF Clean, AllSame, Calm
    <2> QED
      BY <2>3, <2>4, <2>6, <2>7 DEF Clean, Resting, Down
  <1> QED
    BY <1>2, <1>3

LEMMA RefreshClean ==
  ASSUME Taken("refresh"), Clean
  PROVE  Clean'
  BY RefreshStep, RefreshesClean

LEMMA ResourceClean ==
  ASSUME Taken("resource"), Clean
  PROVE  Clean'
  BY ResourceStep, RefreshesClean

LEMMA PlainFits ==
  ASSUME NEW a \in Plain, a # "undo_rp", Taken(a), Clean
  PROVE  Suits(a)
  <1>1. CASE a = "btab"
    BY <1>1, BtabFits
  <1>2. CASE a = "flush"
    BY <1>2, FlushFits
  <1>3. CASE a = "unmark"
    BY <1>3, UnmarkFits
  <1>4. CASE a = "crule"
    BY <1>4, CruleFits
  <1>5. CASE a = "chain"
    BY <1>5, ChainFits
  <1>6. CASE a = "unchain"
    BY <1>6, UnchainFits
  <1>7. CASE a = "renotrack"
    BY <1>7, RenotrackFits
  <1>8. CASE a = "rebypass"
    BY <1>8, RebypassFits
  <1>9. CASE a = "stale_chains"
    BY <1>9, StaleChainsFits
  <1>10. CASE a = "stale_nat"
    BY <1>10, StaleNatFits
  <1>11. CASE a = "stale_tables"
    BY <1>11, StaleTablesFits
  <1>12. CASE a = "jumps"
    BY <1>12, JumpsFits
  <1>13. CASE a = "unforward"
    BY <1>13, UnforwardFits
  <1>14. CASE a = "captured"
    BY <1>14, CapturedFits
  <1>15. CASE a = "forward"
    BY <1>15, ForwardFits
  <1>16. CASE a = "fill"
    BY <1>16, FillFits
  <1>17. CASE a = "uncapture"
    BY <1>17, UncaptureFits
  <1>18. CASE a = "notrack"
    BY <1>18, NotrackFits
  <1>19. CASE a = "client_notrack"
    BY <1>19, ClientNotrackFits
  <1>20. CASE a = "snat"
    BY <1>20, SnatFits
  <1>21. CASE a = "unsnat"
    BY <1>21, UnsnatFits
  <1>22. CASE a = "unnat"
    BY <1>22, UnnatFits
  <1>23. CASE a = "tear"
    BY <1>23, TearFits
  <1>24. CASE a = "forget"
    BY <1>24, ForgetFits
  <1>25. CASE a = "save"
    BY <1>25, SaveFits
  <1>26. CASE a = "unrp"
    BY <1>26, UnrpFits
  <1>27. CASE a = "loosen"
    BY <1>27, LoosenFits
  <1>28. CASE a = "source"
    BY <1>28, SourceFits
  <1>29. CASE a = "recapture"
    BY <1>29, RecaptureFits
  <1> QED
    BY <1>1, <1>2, <1>3, <1>4, <1>5, <1>6, <1>7, <1>8, <1>9, <1>10, <1>11, <1>12, <1>13, <1>14, <1>15, <1>16, <1>17, <1>18, <1>19, <1>20, <1>21, <1>22, <1>23, <1>24, <1>25, <1>26, <1>27, <1>28, <1>29 DEF Plain

LEMMA StepClean ==
  ASSUME SettingsOK, Basics, Clean, Step
  PROVE  Clean'
  <1>1. PICK a \in CommandNames : Taken(a)
    BY StepTakes
  <1>2. a \notin {"undo_route", "undo_rp"}
    BY <1>1, PhaseOf, NoFile DEF InRestore
  <1>3. CASE a \in Plain
    <2>1. Suits(a)
      BY <1>1, <1>2, <1>3, PlainFits
    <2> QED
      BY <1>1, <1>3, <2>1, FitsClean DEF Plain
  <1>4. CASE a = "restore"
    BY <1>1, <1>4, RestoreFits, FitsClean
  <1>5. CASE a = "open"
    BY <1>1, <1>5, OpenFits, FitsClean
  <1>6. CASE a = "mode"
    BY <1>1, <1>6, ModeFits, FitsClean
  <1>7. CASE a = "bypass"
    BY <1>1, <1>7, BypassClean
  <1>8. CASE a = "ctab"
    BY <1>1, <1>8, CtabClean
  <1>9. CASE a = "into_tun"
    BY <1>1, <1>9, IntoTunFits, FitsClean
  <1>10. CASE a = "redefault"
    BY <1>1, <1>10, RedefaultFits, FitsClean
  <1>11. CASE a = "undefault"
    BY <1>1, <1>11, UndefaultFits, FitsClean
  <1>12. CASE a = "link_del"
    BY <1>1, <1>12, LinkDelFits, FitsClean
  <1>13. CASE a = "repoint"
    BY <1>1, <1>13, RepointFits, FitsClean
  <1>14. CASE a = "setup"
    BY <1>1, <1>14, SetupClean
  <1>15. CASE a = "teardown"
    BY <1>1, <1>15, TeardownClean
  <1>16. CASE a = "fail"
    BY <1>1, <1>16, FailClean
  <1>17. CASE a = "refresh"
    BY <1>1, <1>17, RefreshClean
  <1>18. CASE a = "resource"
    BY <1>1, <1>18, ResourceClean
  <1> QED
    BY <1>1, <1>2, <1>3, <1>4, <1>5, <1>6, <1>7, <1>8, <1>9, <1>10, <1>11, <1>12, <1>13, <1>14, <1>15, <1>16, <1>17, <1>18, AllCommands

(* Everything is undone, through every action *)

LEMMA InitClean ==
  ASSUME SettingsOK, Init
  PROVE  Clean
  <1>1. /\ w.pc = <<>> /\ Coming(w) = {} /\ phase = "stopped" /\ w.m = NoManager /\ w.file = None
        /\ w.k.fwd = FALSE /\ w.k.snat = {} /\ w.k.notrack = {}
        /\ w.k.brule = FALSE /\ w.k.btab = None /\ w.k.crule = FALSE /\ w.k.ctab = None /\ w.k.chain = None
        /\ w.k.gate = FALSE /\ w.k.jumps = {} /\ (\A u \in Uplinks : w.rp[u] = "admin")
        /\ addr = [u \in Uplinks |-> <<u, 0>>]
        /\ \A i \in 0..1 : w.main[i] # None => w.main[i].src = None \/ \E u \in Uplinks : w.main[i].src = addr[u]
    BY InitIs
  <1>2. Pristine
    BY <1>1 DEF Pristine, Untouched, NoSNAT, CapturesPorts
  <1>3. w.m.rp = None /\ None # "loose" /\ w.m.src = None /\ w.m.saved = None /\ w.m \in Managers
    BY <1>1, TunDistinct, NoManagerIs DEF NoManager
  <1>4. Owned
    BY <1>2, <1>3, PristineOwns
  <1>5. Located
    <2>1. DOMAIN <<>> = {}
      OBVIOUS
    <2>2. \A u \in Uplinks : addr[u] \in Sources
      BY <1>1 DEF Sources
    <2>3. None \in Sources
      BY DEF Sources
    <2>4. \A i \in 0..1 : w.main[i] # None => w.main[i].src \in Sources
      BY <1>1, <2>2, <2>3
    <2> QED
      BY <1>1, <1>3, <2>1, <2>3, <2>4 DEF Located
  <1> QED
    BY <1>1, <1>2, <1>4, <1>5 DEF Clean, Resting, Down

\* A start or a clean-up begins where nothing is left.
LEMMA RestClean ==
  ASSUME Clean, Down, Calm, AllSame, \A i \in DOMAIN w'.pc : w'.pc[i] \in Args({}), "teardown" \notin Coming(w'),
         phase' = "clearing" \/ (phase' = "starting" /\ "setup" \in Coming(w'))
  PROVE  Clean'
  <1>1. Pristine' /\ Owned'
    BY CalmSame DEF Clean, Resting
  <1>2. Located'
    BY CalmLocated DEF Clean
  <1>3. w'.k.crule => cfg'.capture = "ports"
    BY DEF Clean, AllSame, Calm
  <1>4. phase' = "starting" => Starting'
    BY <1>1 DEF Starting, Pristine, Begun
  <1> QED
    BY <1>1, <1>2, <1>3, <1>4 DEF Clean, Resting, Down

LEMMA StartClean ==
  ASSUME SettingsOK, Basics, Clean, Start
  PROVE  Clean'
  <1>1. Down /\ phase' = "starting" /\ Calm /\ AllSame /\ Coming(w') = {"restore", "open", "setup"}
        /\ \A i \in DOMAIN w'.pc : w'.pc[i] \in Args({})
    BY StartDoes, CalmAround DEF Reissues
  <1> QED
    BY <1>1, RestClean

LEMMA ClearStaleClean ==
  ASSUME SettingsOK, Basics, Clean, ClearStaleArtifacts
  PROVE  Clean'
  <1>1. /\ phase \in {"dead", "failed"} /\ phase' = "clearing" /\ Calm /\ AllSame
        /\ Coming(w') = {"restore", "stale_chains", "stale_nat", "stale_tables"}
        /\ \A i \in DOMAIN w'.pc : w'.pc[i] \in Args({})
    BY ClearStaleDoes, CalmAround DEF Reissues
  <1>2. Down
    BY <1>1 DEF Down
  <1> QED
    BY <1>1, <1>2, RestClean

LEMMA SetupFailsClean ==
  ASSUME SettingsOK, Basics, Clean, SetupFails
  PROVE  Clean'
  <1>1. phase = "starting" /\ phase' = "starting" /\ Calm /\ Aborts
        /\ Head(w.pc).do \in Fallible /\ Head(w.pc).do \in Coming(w)
    BY SetupFailsDoes, CalmAround
  <1>2. ~CapturesPorts
    BY <1>1 DEF Clean, Starting
  <1> QED
    BY <1>1, <1>2, AbortClean

LEMMA ReconcileClean ==
  ASSUME SettingsOK, Basics, Clean, reconcileLoop \/ Tick
  PROVE  Clean'
  <1>1. Reconciles /\ Calm
    BY ReconcileDoes, CalmAround
  <1>2. PICK N : Reissues(N, phase) /\ N \subseteq {"refresh"} \cup AtEnd
    BY <1>1 DEF Reconciles
  <1>3. /\ phase \in {"running", "stopping"} /\ phase' = phase /\ AllSame
        /\ Coming(w') \cap {"teardown", "loosen", "repoint", "source"} = {}
        /\ \A i \in DOMAIN w'.pc : w'.pc[i] \in Args({})
    BY <1>1, <1>2 DEF Reconciles, Reissues, AtEnd
  <1>4. Owned' /\ (CapturesPorts' <=> CapturesPorts)
    BY <1>1, <1>3, CalmSame DEF Clean
  <1>5. Serving'
    BY <1>1, <1>3, <1>4 DEF Clean, Serving, AllSame, Calm
  <1>6. Located'
    BY <1>1, <1>3, CalmLocated DEF Clean
  <1>7. w'.k.crule => cfg'.capture = "ports"
    BY <1>1, <1>3 DEF Clean, AllSame, Calm
  <1> QED
    BY <1>3, <1>4, <1>5, <1>6, <1>7 DEF Clean, Resting, Down

LEMMA StopTeardownClean ==
  ASSUME SettingsOK, Basics, Clean, StopTeardown
  PROVE  Clean'
  <1>1. /\ phase = "stopping" /\ phase' = "tearing" /\ AllSame /\ Coming(w') = {"teardown"} /\ Calm
        /\ \A i \in DOMAIN w'.pc : w'.pc[i] \in Args({})
    BY StopTeardownDoes, CalmAround DEF Reissues
  <1>2. Owned' /\ (CapturesPorts' <=> CapturesPorts)
    BY <1>1, CalmSame DEF Clean
  <1>3. Serving'
    BY <1>1, <1>2 DEF Clean, Serving, AllSame, Calm
  <1>4. Located'
    BY <1>1, CalmLocated DEF Clean
  <1>5. w'.k.crule => cfg'.capture = "ports"
    BY <1>1 DEF Clean, AllSame, Calm
  <1> QED
    BY <1>1, <1>2, <1>3, <1>4, <1>5 DEF Clean, Resting, Down

\* Less of b4 than before.
NoMoreThan ==
  /\ cfg' = cfg /\ w'.pc = w.pc /\ w'.m = w.m /\ w'.file = w.file /\ w'.rp = w.rp
  /\ w'.k.crule = w.k.crule /\ w'.k.ctab \in {w.k.ctab, None} /\ w'.k.brule = w.k.brule
  /\ w'.k.btab \in {w.k.btab, None} /\ w'.k.snat \in {w.k.snat, {}} /\ w'.k.notrack \in {w.k.notrack, {}}
  /\ w'.k.jumps \in {w.k.jumps, {}} /\ (w'.k.fwd => w.k.fwd) /\ (w'.k.gate => w.k.gate)
  /\ w.k.chain = None => w'.k.chain = None
  /\ Readdressed => Readdressed'

LEMMA FewerIs ==
  ASSUME NoMoreThan
  PROVE  /\ (NoSNAT => NoSNAT') /\ (Untouched' <=> Untouched) /\ (CapturesPorts' => CapturesPorts)
         /\ Coming(w') = Coming(w) /\ (Owned => Owned') /\ (Pristine => Pristine') /\ (Undoing /\ phase' = phase => Undoing')
         /\ (Serving => Serving') /\ (Starting /\ phase' = phase => Starting')
  <1>1. NoSNAT => NoSNAT'
    BY DEF NoMoreThan, NoSNAT
  <1>2. (Untouched' <=> Untouched) /\ (CapturesPorts' => CapturesPorts) /\ Coming(w') = Coming(w)
    BY DEF NoMoreThan, Untouched, CapturesPorts, Coming
  <1>3. Owned => Owned'
    <2> SUFFICES ASSUME Owned
                 PROVE  Owned'
      OBVIOUS
    <2>1. NoSNAT' \/ (w'.k.snat \subseteq {w'.m.src} /\ w'.m.snat)
      BY <1>1 DEF Owned, NoMoreThan
    <2>2. (w'.k.fwd => w'.m.fwd) /\ w'.k.notrack \subseteq w'.m.notrack /\ w'.m.rp # "loose"
      BY DEF Owned, NoMoreThan
    <2>3. \A u \in Uplinks : w'.rp[u] = "admin" \/ (u = w'.m.out /\ w'.m.rp = "admin")
      BY DEF Owned, NoMoreThan
    <2>4. cfg'.skip => Untouched' /\ NoSNAT' /\ ~w'.k.fwd /\ w'.k.notrack = {}
      BY <1>1, <1>2 DEF Owned, NoMoreThan
    <2> QED
      BY <2>1, <2>2, <2>3, <2>4 DEF Owned
  <1>4. Pristine => Pristine'
    BY <1>1, <1>2 DEF NoMoreThan, Pristine
  <1>5. Undoing /\ phase' = phase => Undoing'
    BY <1>1, <1>2 DEF NoMoreThan, Undoing
  <1>6. Serving => Serving'
    BY <1>1, <1>2 DEF NoMoreThan, Serving
  <1>7. Starting /\ phase' = phase => Starting'
    BY <1>2 DEF NoMoreThan, Starting, Begun
  <1> QED
    BY <1>1, <1>2, <1>3, <1>4, <1>5, <1>6, <1>7

LEMMA StopClean ==
  ASSUME SettingsOK, Basics, Clean, Stop
  PROVE  Clean'
  <1>1. /\ phase = "running" /\ phase' = "stopping" /\ Still /\ w'.pc = w.pc
        /\ w'.rp = w.rp /\ w'.m = w.m /\ w'.file = w.file
        /\ NatSame /\ BypassSame /\ w'.k.ctab = None
        /\ w'.k.crule = w.k.crule /\ w'.k.chain = w.k.chain /\ w'.k.gate = w.k.gate /\ w'.k.jumps = w.k.jumps
        /\ \A i \in 0..1 : w'.main[i] \in {w.main[i], None}
    BY StopDoes
  <1>2. Readdressed' <=> Readdressed
    BY <1>1 DEF Still, Readdressed
  <1>3. NoMoreThan
    BY <1>1, <1>2 DEF NoMoreThan, Still, NatSame, BypassSame
  <1>4. Coming(w') = Coming(w) /\ Owned' /\ Serving'
    BY <1>1, <1>3, FewerIs DEF Clean
  <1>5. Located'
    BY <1>1, <1>2 DEF Clean, Located, Still
  <1>6. w'.k.crule => cfg'.capture = "ports"
    BY <1>1 DEF Clean, Still
  <1> QED
    BY <1>1, <1>4, <1>5, <1>6 DEF Clean, Resting, Down

LEMMA Budgeted ==
  ASSUME SettingsOK, Basics
  PROVE  cfg.left.kills \in Nat /\ cfg.left.readdr \in Nat
  BY TunSettings DEF Basics, TunTypes, Budgets

LEMMA MeanwhileClean ==
  ASSUME SettingsOK, Basics, Clean, Meanwhile
  PROVE  Clean'
  <1>1. Readdressed => Readdressed'
    <2>1. left'.readdr <= left.readdr /\ cfg' = cfg /\ left \in Budgets /\ left' \in Budgets
      BY DEF Meanwhile, Basics, TunTypes
    <2>2. left'.readdr \in Nat /\ left.readdr \in Nat
      BY <2>1 DEF Budgets
    <2>3. Readdressed <=> left.readdr < cfg.left.readdr
      BY DEF Readdressed
    <2>4. Readdressed' <=> left'.readdr < cfg.left.readdr
      BY <2>1 DEF Readdressed
    <2>5. cfg.left.readdr \in Nat
      BY Budgeted
    <2> QED
      BY <2>1, <2>2, <2>3, <2>4, <2>5
  <1>2. NoMoreThan
    BY <1>1 DEF Meanwhile, NoMoreThan
  <1>3. phase' = phase /\ cfg' = cfg /\ w'.k.crule = w.k.crule
    BY DEF Meanwhile
  <1>4. Coming(w') = Coming(w) /\ Owned' /\ (Resting' => Pristine') /\ (phase = "starting" => Starting')
        /\ ((phase \in {"running", "stopping"} \/ "teardown" \in Coming(w)) => Serving')
        /\ ((phase \in {"tearing", "failing"} /\ "teardown" \notin Coming(w)) => Undoing')
    BY <1>2, <1>3, FewerIs DEF Clean, Resting, Down
  <1>5. ASSUME ~Readdressed'
        PROVE  Located'
    <2>1. /\ addr = [u \in Uplinks |-> <<u, 0>>]
          /\ w.m.src \in Sources /\ (w.m.saved # None => w.m.saved.src \in Sources)
          /\ \A i \in 0..1 : w.main[i] # None => w.main[i].src \in Sources
          /\ \A i \in DOMAIN w.pc : w.pc[i].src \in Sources
      BY <1>1, <1>5 DEF Clean, Located
    <2>2. /\ addr' = addr
          /\ \A i \in 0..1 : \/ w'.main[i] \in {w.main[i], None} \/ w'.main[i].src = None
                             \/ \E u \in Uplinks : w'.main[i].src = addr[u]
      BY <1>5 DEF Meanwhile
    <2>3. \A i \in 0..1 : w'.main[i] # None => w'.main[i].src \in Sources
      BY <2>1, <2>2 DEF Sources
    <2> QED
      BY <2>1, <2>2, <2>3 DEF Located, Meanwhile
  <1>6. Located'
    BY <1>5 DEF Located
  <1> QED
    BY <1>3, <1>4, <1>6 DEF Clean

LEMMA OverClean ==
  ASSUME SettingsOK, Basics, Clean, Over
  PROVE  Clean'
  <1>1. Ends /\ Calm /\ w \in Machines
    BY OverDoes, CalmAround DEF Basics, TunTypes
  <1>2. w.pc = <<>> /\ w'.pc = <<>> /\ RestSame /\ w'.k = w.k /\ w' \in Machines
    BY <1>1 DEF Ends
  <1>3. Coming(w) = {} /\ Coming(w') = {}
    BY <1>1, <1>2, Drained
  <1>4. Readdressed' <=> Readdressed
    BY <1>1 DEF Calm, Readdressed
  <1>5. (NoSNAT' <=> NoSNAT) /\ (Untouched' <=> Untouched) /\ (CapturesPorts' <=> CapturesPorts) /\ cfg' = cfg
    BY <1>1, <1>2, <1>4 DEF NoSNAT, Untouched, CapturesPorts, RestSame, Calm
  <1>6. w'.k.crule => cfg'.capture = "ports"
    BY <1>2, <1>5 DEF Clean
  <1>7. DOMAIN <<>> = {}
    OBVIOUS
  <1>8. CASE phase = "starting" /\ phase' = "running" /\ w'.m = w.m
    <2>1. Owned'
      BY <1>2, <1>5, <1>8 DEF Clean, Owned, RestSame
    <2>2. Serving'
      <3>1. Begun
        BY <1>3, <1>8 DEF Begun
      <3> QED
        BY <1>3, <1>5, <1>8, <3>1 DEF Clean, Starting, Serving
    <2>3. Located'
      BY <1>1, <1>2, <1>4, <1>7, <1>8 DEF Clean, Located, RestSame, Calm
    <2> QED
      BY <1>3, <1>6, <1>8, <2>1, <2>2, <2>3 DEF Clean, Resting, Down
  <1>9. CASE \/ phase = "tearing" /\ phase' = "stopped" /\ w'.m = NoManager
             \/ phase = "failing" /\ phase' = "failed" /\ w'.m = NoManager
             \/ phase = "clearing" /\ phase' = "cleared" /\ w'.m = NoManager
    <2>1. Pristine /\ (phase = "tearing" => ~w.k.crule)
      BY <1>3, <1>9 DEF Clean, Undoing, Resting, Pristine, CapturesPorts
    <2>2. Pristine'
      BY <1>2, <1>5, <2>1 DEF Pristine, RestSame
    <2>3. w'.m.rp = None /\ None # "loose" /\ w'.m.src = None /\ w'.m.saved = None /\ w'.m \in Managers
      BY <1>9, TunDistinct, NoManagerIs DEF NoManager
    <2>4. Owned'
      BY <2>2, <2>3 DEF Owned, Pristine, Untouched
    <2>5. Located'
      BY <1>1, <1>2, <1>4, <1>7, <2>3 DEF Clean, Located, RestSame, Calm, Sources
    <2> QED
      BY <1>2, <1>3, <1>6, <1>9, <2>1, <2>2, <2>4, <2>5 DEF Clean
  <1> QED
    BY <1>1, <1>8, <1>9 DEF Ends

\* What was killed stays killed.
LEMMA KilledForGood ==
  ASSUME SettingsOK, Basics, Basics', Killed, cfg' = cfg, left'.kills <= left.kills
  PROVE  Killed'
  <1>1. left.kills \in Nat /\ left'.kills \in Nat
    BY DEF Basics, TunTypes, Budgets
  <1>2. Killed <=> left.kills < cfg.left.kills
    BY DEF Killed
  <1>3. Killed' <=> left'.kills < cfg.left.kills
    BY DEF Killed
  <1>4. cfg.left.kills \in Nat
    BY Budgeted
  <1> QED
    BY <1>1, <1>2, <1>3, <1>4

LEMMA KillsOnly ==
  ASSUME SettingsOK, Basics, [Next]_vars
  PROVE  cfg' = cfg /\ left'.kills <= left.kills
  <1>0. left.kills \in Nat
    BY DEF Basics, TunTypes, Budgets
  <1>1. CASE Step
    <2>1. SameAround
      BY <1>1 DEF Step, SameAround
    <2> QED
      BY <1>0, <2>1 DEF SameAround
  <1>2. CASE Kill
    <2>1. cfg' = cfg /\ left'.kills = left.kills - 1
      BY <1>2, Spent DEF Kill, Basics
    <2> QED
      BY <1>0, <2>1
  <1>3. CASE Meanwhile
    BY <1>3 DEF Meanwhile
  <1>4. CASE Acts /\ ~Step /\ ~Kill
    <2>1. Still
      BY <1>4, StartDoes, ClearStaleDoes, SetupFailsDoes, OverDoes, ReconcileDoes, StopDoes, StopTeardownDoes DEF Acts
    <2> QED
      BY <1>0, <2>1 DEF Still
  <1> QED
    BY <1>1, <1>2, <1>3, <1>4, NextIs

LEMMA CleanKept ==
  ASSUME SettingsOK, SurviveInv, StopInv, [Next]_vars
  PROVE  StopInv'
  <1>1. Basics /\ Basics'
    BY SurvivesKept DEF SurviveInv
  <1>2. CASE Killed
    BY <1>1, <1>2, KilledForGood, KillsOnly DEF StopInv
  <1>3. CASE Kill
    <2>1. left'.kills < cfg.left.kills /\ cfg' = cfg
      BY <1>1, <1>3, KillDoes
    <2>2. Killed'
      BY <2>1 DEF Killed
    <2> QED
      BY <2>2 DEF StopInv
  <1>4. CASE Clean /\ ~Kill
    <2>1. CASE Acts
      BY <1>1, <1>4, <2>1, StepClean, StartClean, ClearStaleClean, SetupFailsClean, OverClean, ReconcileClean,
         StopClean, StopTeardownClean DEF Acts, StopInv
    <2>2. CASE Meanwhile
      BY <1>1, <1>4, <2>2, MeanwhileClean DEF StopInv
    <2> QED
      BY <1>1, <2>1, <2>2, NextIs
  <1> QED
    BY <1>2, <1>3, <1>4 DEF StopInv

LEMMA CleanEnough ==
  ASSUME SurviveInv, StopInv
  PROVE  CleanStop
  <1> DEFINE forgotten == IF cfg.capture = "default" /\ Readdressed THEN {"snat"} ELSE {}
  <1>1. SUFFICES ASSUME ~Killed, phase \in {"stopped", "failed"}
                 PROVE  /\ phase = "stopped" => Leftovers \subseteq forgotten
                        /\ phase = "failed" => Leftovers \subseteq forgotten \cup {"crule"}
    BY DEF CleanStop
  <1>2. Clean /\ Pristine
    BY <1>1 DEF StopInv, Clean, Resting, Down
  <1>3. ~w.k.dev
    BY <1>1 DEF SurviveInv, Basics, Managed
  <1>4. /\ ~w.k.fwd /\ ~w.k.brule /\ ~w.k.gate /\ w.k.btab = None /\ w.k.ctab = None /\ w.k.chain = None
        /\ w.k.notrack = {} /\ w.k.jumps = {} /\ w.file = None /\ (\A u \in Uplinks : w.rp[u] = "admin")
    BY <1>2 DEF Pristine, CapturesPorts, Untouched
  <1>5. w.k.snat # {} => forgotten = {"snat"}
    BY <1>2 DEF Pristine, NoSNAT
  <1>6. phase = "stopped" => ~w.k.crule
    BY <1>2 DEF Clean
  <1>7. Leftovers \subseteq (IF w.k.snat # {} THEN {"snat"} ELSE {}) \cup (IF w.k.crule THEN {"crule"} ELSE {})
    BY <1>3, <1>4 DEF Leftovers
  <1> HIDE DEF forgotten
  <1> QED
    BY <1>5, <1>6, <1>7

\* An engine that was never killed leaves nothing behind when it stops, however the uplink moved and
\* whatever was flushed meanwhile, nor when its start fails: the rule of the capture table after a
\* failed start and the SNAT rule of a rejected source excepted.
THEOREM StopAlwaysClean == Spec => []CleanStop
  <1>0. SettingsOK
    BY SettingsAssumption
  <1>1. Init => SurviveInv /\ StopInv
    BY <1>0, InitBasics, InitSurvives, InitClean DEF SurviveInv, SurviveParts, StopInv
  <1>2. SurviveInv /\ StopInv /\ [Next]_vars => SurviveInv' /\ StopInv'
    BY <1>0, SurvivesKept, CleanKept
  <1>3. SurviveInv /\ StopInv => CleanStop
    BY <1>0, CleanEnough
  <1> QED
    BY <1>1, <1>2, <1>3, PTL DEF Spec

=============================================================================
