--------------------------- MODULE LauncherProofs ---------------------------
(***************************************************************************)
(* Theorems about Launcher and their proofs: no two processes of one name, *)
(* no recovery of what was stopped, and no token left open, for every      *)
(* number of names, instances and requests.                                *)
(***************************************************************************)
EXTENDS Launcher, SequenceTheorems, TLAPS

-----------------------------------------------------------------------------
(* The inductive invariant. *)

FramePCs == {"create", "talk", "drop", "remove", "recover", "free"}
FrameType ==
  [at : FramePCs, obj : Instances \union {None}, name : Names \union {None},
   token : Tokens \union {None}, from : Instances \union {None}]
InstanceType ==
  [state : {"unused", "used", "freed"}, name : Names \union {None}, refs : Int,
   started : BOOLEAN, stopped : BOOLEAN, recovery : BOOLEAN,
   token : Tokens \union {None}, from : Instances \union {None}]

(* Only the top of a stack is in the middle of anything but the end of a   *)
(* release, under which it recovers an instance.                           *)
StackOK ==
  /\ stack \in [Threads -> Seq(FrameType)]
  /\ \A t \in Threads : \A i \in 2 .. Len(stack[t]) : stack[t][i].at = "free"

TypeOK ==
  /\ list \subseteq Instances
  /\ inst \in [Instances -> InstanceType]
  /\ process \in [Instances -> {"none", "alive", "dead"}]
  /\ waiting \subseteq Instances
  /\ token \in [Tokens -> {"none", "open", "protected", "closed"}]
  /\ client \in Tokens \union {None}
  /\ StackOK

Frames(t) == {stack[t][i] : i \in 1 .. Len(stack[t])}
Used(x) == inst[x].state # "unused"

(* What is true of an instance that has left the list, never to be found,  *)
(* and stopped, again.                                                     *)
Gone(x) == x \in Instances /\ Used(x) /\ x \notin list /\ ~inst[x].stopped

Good(t, f) ==
  /\ f.at # "create" => f.obj \in Instances /\ Used(f.obj)
  /\ f.at = "create" => f.token \in Tokens /\ (f.from # None => Gone(f.from))
  /\ f.at = "talk" => f.obj # t
  /\ f.at = "remove" => f.obj \notin waiting
  /\ f.at = "recover" => f.obj \notin list
FramesGood == \A t \in Threads : \A f \in Frames(t) : Good(t, f)

(* An instance that was not created yet, and one that was.                 *)
Life(x) ==
  /\ ~Used(x) => x \notin list /\ x \notin waiting /\ process[x] = "none" /\ ~Busy(x)
  /\ Used(x) => /\ inst[x].token \in Tokens
                /\ x \notin waiting => process[x] = "dead"
  /\ process[x] = "alive" => x \in list
  /\ Busy(x) => x \notin waiting
  /\ inst[x].from # None => Gone(inst[x].from)
Lives == \A x \in Instances : Life(x)

PipeServes == Busy(Pipe) => client # None

NamesDiffer == \A x, y \in list : x # y => inst[x].name # inst[y].name

(* The two references: of the thread that starts the instance, and of the  *)
(* wait for its process.                                                   *)
Starts(t, x) == Busy(t) /\ t # x /\ Top(t).at \in {"talk", "drop"} /\ Top(t).obj = x
Waits(x) == x \in waiting \/ (At(x, "drop") /\ Top(x).obj = x)
Started(x) == \E t \in Threads : Starts(t, x)
OneStarter ==
  \A x \in Instances : \A t, u \in Threads : Starts(t, x) /\ Starts(u, x) => t = u
RefCount ==
  \A x \in Instances : Used(x) =>
    inst[x].refs = (IF Started(x) THEN 1 ELSE 0) + (IF Waits(x) THEN 1 ELSE 0)

(* A protected token is one of an instance that has yet to give it up in   *)
(* its release.                                                            *)
Frees(x) == \E t \in Threads : \E f \in Frames(t) : f.at = "free" /\ f.obj = x
Protects(x, k) == inst[x].state = "used" /\ inst[x].token = k /\ ~Frees(x)
TokensKept ==
  \A k \in Tokens :
    /\ token[k] = "protected" => \E x \in Instances : Protects(x, k)
    /\ token[k] = "open" =>
         k = client \/ \E x \in Instances : inst[x].state = "used" /\ inst[x].token = k

IInv ==
  /\ TypeOK /\ FramesGood /\ Lives /\ PipeServes /\ NamesDiffer
  /\ OneStarter /\ RefCount /\ TokensKept

-----------------------------------------------------------------------------
(* Stacks. *)

LEMMA TopOfStack ==
  ASSUME StackOK, NEW t \in Threads, Busy(t)
  PROVE  /\ Top(t) \in Frames(t) /\ Top(t) \in FrameType
         /\ Tail(stack[t]) \in Seq(FrameType)
         /\ Len(stack[t]) \in Nat \ {0} /\ Len(Tail(stack[t])) = Len(stack[t]) - 1
         /\ \A i \in 1 .. Len(Tail(stack[t])) :
              /\ Tail(stack[t])[i] = stack[t][i + 1] /\ Tail(stack[t])[i] \in Frames(t)
              /\ Tail(stack[t])[i].at = "free"
<1>1. stack[t] \in Seq(FrameType) /\ stack[t] # <<>>
  BY DEF StackOK, Busy
<1>2. /\ Tail(stack[t]) \in Seq(FrameType)
      /\ Len(stack[t]) \in Nat \ {0} /\ Len(Tail(stack[t])) = Len(stack[t]) - 1
      /\ \A i \in 1 .. Len(Tail(stack[t])) : Tail(stack[t])[i] = stack[t][i + 1]
      /\ Head(stack[t]) = stack[t][1] /\ Head(stack[t]) \in FrameType
  BY <1>1
<1>3. Top(t) \in Frames(t) /\ Top(t) \in FrameType
  BY <1>2 DEF Top, Frames
<1>4. ASSUME NEW i \in 1 .. Len(Tail(stack[t]))
      PROVE  stack[t][i + 1] \in Frames(t) /\ stack[t][i + 1].at = "free"
  BY <1>2, i + 1 \in 2 .. Len(stack[t]), i + 1 \in 1 .. Len(stack[t]) DEF StackOK, Frames
<1> QED BY <1>2, <1>3, <1>4

(* A thread replaces its top frame, or finishes it, or starts another one  *)
(* on top of what it becomes; the others stay where they are.              *)
Keeps(t, new) ==
  /\ StackOK'
  /\ \A u \in Threads \ {t} : stack'[u] = stack[u]
  /\ Frames(t)' \subseteq Frames(t) \union new

LEMMA GotoStack ==
  ASSUME StackOK, NEW t \in Threads, Busy(t), NEW f \in FrameType, Goto(t, f)
  PROVE  Keeps(t, {f}) /\ Busy(t)' /\ Top(t)' = f
<1> DEFINE s == <<f>> \o Tail(stack[t])
<1>1. stack' = [stack EXCEPT ![t] = s] /\ stack'[t] = s
  BY DEF Goto, StackOK
<1>2. /\ s \in Seq(FrameType) /\ Len(s) = Len(Tail(stack[t])) + 1 /\ s[1] = f
      /\ \A i \in 2 .. Len(s) : i - 1 \in 1 .. Len(Tail(stack[t])) /\ s[i] = Tail(stack[t])[i - 1]
      /\ s # <<>> /\ Head(s) = f
  BY TopOfStack
<1>3. StackOK'
  BY <1>1, <1>2, TopOfStack DEF StackOK
<1>4. Frames(t)' \subseteq Frames(t) \union {f}
  <2> SUFFICES ASSUME NEW i \in 1 .. Len(s) PROVE s[i] \in Frames(t) \union {f}
    BY <1>1 DEF Frames
  <2> QED BY <1>2, TopOfStack, i = 1 \/ i \in 2 .. Len(s)
<1> QED BY <1>1, <1>2, <1>3, <1>4 DEF Keeps, Busy, Top, StackOK

LEMMA PopStack ==
  ASSUME StackOK, NEW t \in Threads, Busy(t), Pop(t)
  PROVE  Keeps(t, {}) /\ (Busy(t)' => Top(t)'.at = "free")
<1> DEFINE s == Tail(stack[t])
<1>1. stack' = [stack EXCEPT ![t] = s] /\ stack'[t] = s /\ s \in Seq(FrameType)
  BY TopOfStack DEF Pop, StackOK
<1>2. \A i \in 1 .. Len(s) : s[i] \in Frames(t) /\ s[i].at = "free"
  BY TopOfStack
<1>3. StackOK'
  BY <1>1, <1>2 DEF StackOK
<1>4. Busy(t)' => Top(t)'.at = "free"
  <2> SUFFICES ASSUME s # <<>> PROVE Head(s).at = "free"
    BY <1>1 DEF Busy, Top
  <2>1. 1 \in 1 .. Len(s) /\ Head(s) = s[1]
    BY <1>1
  <2> QED BY <2>1, <1>2
<1> QED BY <1>1, <1>2, <1>3, <1>4 DEF Keeps, Frames, StackOK

LEMMA PushStack ==
  ASSUME StackOK, NEW t \in Threads, Busy(t), NEW f \in FrameType, NEW g \in FrameType,
         g.at = "free", Push(t, g, f)
  PROVE  Keeps(t, {f, g}) /\ Busy(t)' /\ Top(t)' = f
<1> DEFINE s == <<f, g>> \o Tail(stack[t])
<1>1. stack' = [stack EXCEPT ![t] = s] /\ stack'[t] = s
  BY DEF Push, StackOK
<1>2. /\ s \in Seq(FrameType) /\ Len(s) = Len(Tail(stack[t])) + 2 /\ s[1] = f /\ s[2] = g
      /\ \A i \in 3 .. Len(s) : i - 2 \in 1 .. Len(Tail(stack[t])) /\ s[i] = Tail(stack[t])[i - 2]
      /\ s # <<>> /\ Head(s) = f
  BY TopOfStack
<1>3. \A i \in 2 .. Len(s) : s[i].at = "free" /\ s[i] \in Frames(t) \union {g}
  <2> SUFFICES ASSUME NEW i \in 2 .. Len(s)
               PROVE  s[i].at = "free" /\ s[i] \in Frames(t) \union {g}
    OBVIOUS
  <2> QED BY <1>2, TopOfStack, i = 2 \/ i \in 3 .. Len(s)
<1>4. StackOK'
  BY <1>1, <1>2, <1>3 DEF StackOK
<1>5. Frames(t)' \subseteq Frames(t) \union {f, g}
  <2> SUFFICES ASSUME NEW i \in 1 .. Len(s) PROVE s[i] \in Frames(t) \union {f, g}
    BY <1>1 DEF Frames
  <2> QED BY <1>2, <1>3, i = 1 \/ i \in 2 .. Len(s)
<1> QED BY <1>1, <1>2, <1>4, <1>5 DEF Keeps, Busy, Top, StackOK

(* A thread that is idle begins.                                           *)
LEMMA BeginStack ==
  ASSUME StackOK, NEW t \in Threads, NEW f \in FrameType, stack' = [stack EXCEPT ![t] = <<f>>]
  PROVE  Keeps(t, {f}) /\ Busy(t)' /\ Top(t)' = f
<1>1. /\ stack'[t] = <<f>> /\ \A u \in Threads \ {t} : stack'[u] = stack[u]
      /\ stack' \in [Threads -> Seq(FrameType)]
  BY DEF StackOK
<1>2. Len(<<f>>) = 1 /\ <<f>>[1] = f /\ <<f>> # <<>> /\ Head(<<f>>) = f
  OBVIOUS
<1> QED BY <1>1, <1>2 DEF Keeps, StackOK, Frames, Busy, Top

-----------------------------------------------------------------------------
(* What the steps have in common. *)

LEMMA InitInv == Init => IInv
<1> SUFFICES ASSUME Init PROVE IInv
  OBVIOUS
<1> USE LauncherAssumption DEF Init, Unused
<1>1. /\ \A x \in Instances : inst[x].state = "unused" /\ inst[x].from = None
      /\ inst \in [Instances -> InstanceType]
  BY DEF InstanceType
<1>2. StackOK /\ \A t \in Threads : stack[t] = <<>> /\ Frames(t) = {}
  <2>1. \A t \in Threads : stack[t] = <<>> /\ Len(stack[t]) = 0
    OBVIOUS
  <2> QED BY <2>1 DEF StackOK, Frames
<1>3. TypeOK
  BY <1>1, <1>2 DEF TypeOK
<1>4. FramesGood /\ Lives /\ PipeServes /\ NamesDiffer
  BY <1>1, <1>2 DEF FramesGood, Lives, Life, PipeServes, NamesDiffer, Used, Busy, Threads, Pipe
<1>5. OneStarter /\ RefCount /\ TokensKept
  BY <1>1, <1>2 DEF OneStarter, RefCount, TokensKept, Used, Starts, Busy
<1> QED BY <1>3, <1>4, <1>5 DEF IInv

LEMMA FrameTypes ==
  /\ \A at \in FramePCs, x \in Instances :
       /\ Frame(at, x) \in FrameType
       /\ Frame(at, x).at = at /\ Frame(at, x).obj = x
  /\ \A n \in Names \union {None}, k \in Tokens, x \in Instances \union {None} :
       /\ CreateFrame(n, k, x) \in FrameType
       /\ CreateFrame(n, k, x).at = "create"
       /\ CreateFrame(n, k, x).token = k /\ CreateFrame(n, k, x).from = x
BY DEF Frame, CreateFrame, FrameType, FramePCs

(* No instance comes back to life, to the list or to its wait, and none is *)
(* stopped that is not in the list.                                        *)
Onward ==
  \A x \in Instances : Used(x) =>
    /\ Used(x)'
    /\ x \notin waiting => x \notin waiting'
    /\ x \notin list => x \notin list' /\ inst'[x].stopped = inst[x].stopped

LEMMA GoneStays == ASSUME NEW x, Gone(x), Onward PROVE Gone(x)'
BY DEF Gone, Onward

LEMMA FramesGoodStep ==
  ASSUME FramesGood, Onward, NEW t \in Threads, NEW new, Keeps(t, new),
         \A f \in new : Good(t, f)'
  PROVE  FramesGood'
<1> SUFFICES ASSUME NEW u \in Threads, NEW f \in Frames(u)' PROVE Good(u, f)'
  BY DEF FramesGood
<1>1. f \in Frames(u) \/ (u = t /\ f \in new)
  BY DEF Keeps, Frames
<1>2. CASE f \in Frames(u)
  <2>1. Good(u, f)
    BY <1>2 DEF FramesGood
  <2>2. f.from # None /\ f.at = "create" => Gone(f.from)'
    BY <2>1, GoneStays DEF Good
  <2> QED BY <2>1, <2>2 DEF Good, Onward
<1> QED BY <1>1, <1>2

(* The same for a step that touches no stack.                              *)
LEMMA FramesGoodKept ==
  ASSUME FramesGood, Onward, UNCHANGED stack
  PROVE  FramesGood'
<1> SUFFICES ASSUME NEW u \in Threads, NEW f \in Frames(u)' PROVE Good(u, f)'
  BY DEF FramesGood
<1>1. Good(u, f)
  BY DEF FramesGood, Frames
<1>2. f.from # None /\ f.at = "create" => Gone(f.from)'
  BY <1>1, GoneStays DEF Good
<1> QED BY <1>1, <1>2 DEF Good, Onward

Referring(t) == Busy(t) /\ Top(t).at \in {"talk", "drop"}

(* A step of a thread that has no reference and gets none.                 *)
LEMMA RefsStep ==
  ASSUME OneStarter, RefCount, NEW t \in Threads,
         \A u \in Threads \ {t} : stack'[u] = stack[u],
         ~Referring(t), ~Referring(t)', UNCHANGED waiting,
         \A x \in Instances : inst'[x].refs = inst[x].refs /\ (Used(x)' => Used(x))
  PROVE  OneStarter' /\ RefCount'
<1>1. \A u \in Threads, x \in Instances : Starts(u, x)' <=> Starts(u, x)
  BY DEF Starts, Referring, Busy, Top
<1>2. \A x \in Instances : Waits(x)' <=> Waits(x)
  BY DEF Waits, At, Referring, Busy, Top, Threads
<1>3. \A x \in Instances : Started(x)' <=> Started(x)
  BY <1>1 DEF Started
<1> QED BY <1>1, <1>2, <1>3 DEF OneStarter, RefCount

LEMMA RefsKept ==
  ASSUME OneStarter, RefCount, UNCHANGED <<stack, waiting>>,
         \A x \in Instances : inst'[x].refs = inst[x].refs /\ (Used(x)' => Used(x))
  PROVE  OneStarter' /\ RefCount'
<1>1. \A u \in Threads, x \in Instances : Starts(u, x)' <=> Starts(u, x)
  BY DEF Starts, Busy, Top
<1>2. \A x \in Instances : Waits(x)' <=> Waits(x)
  BY DEF Waits, At, Busy, Top
<1>3. \A x \in Instances : Started(x)' <=> Started(x)
  BY <1>1 DEF Started
<1> QED BY <1>1, <1>2, <1>3 DEF OneStarter, RefCount

(* A step that changes no token, and lets go of no instance.               *)
LEMMA TokensStep ==
  ASSUME TokensKept, UNCHANGED <<token, client>>,
         \A x \in Instances : /\ inst'[x].state = inst[x].state /\ inst'[x].token = inst[x].token
                              /\ Frees(x)' => Frees(x)
  PROVE  TokensKept'
<1>1. \A x \in Instances, k \in Tokens : Protects(x, k) => Protects(x, k)'
  BY DEF Protects
<1> QED BY <1>1 DEF TokensKept

LEMMA FreesStep ==
  ASSUME NEW t \in Threads, NEW new, Keeps(t, new), NEW x,
         \A f \in new : f.at = "free" => f.obj # x
  PROVE  Frees(x)' => Frees(x)
BY DEF Frees, Keeps, Frames

(* A step that creates no instance.                                        *)
SameInstances ==
  \A x \in Instances :
    /\ Used(x)' <=> Used(x)
    /\ inst'[x].from = inst[x].from /\ inst'[x].token = inst[x].token
    /\ inst'[x].name = inst[x].name

LEMMA LivesStep ==
  ASSUME TypeOK, Lives, Onward, SameInstances, UNCHANGED <<waiting, process>>,
         list' \subseteq list,
         \A x \in list \ list' : process[x] # "alive",
         \A x \in Instances : Busy(x)' => Busy(x)
  PROVE  Lives'
<1> SUFFICES ASSUME NEW x \in Instances PROVE Life(x)'
  BY DEF Lives
<1>1. Life(x)
  BY DEF Lives
<1>2. \A z : z = inst[x].from /\ z # None => Gone(z)'
  BY <1>1, GoneStays DEF Life
<1> QED BY <1>1, <1>2 DEF Life, SameInstances, Gone

LEMMA NamesStep ==
  ASSUME TypeOK, NamesDiffer, list' \subseteq list, SameInstances
  PROVE  NamesDiffer'
BY DEF TypeOK, NamesDiffer, SameInstances

-----------------------------------------------------------------------------
(* The start of an instance. *)

LEMMA RequestInv == ASSUME IInv, NEW n \in Names, Request(n) PROVE IInv'
<1> USE LauncherAssumption DEF IInv
<1>1. PICK k \in Tokens :
        /\ token[k] = "none" /\ token' = [token EXCEPT ![k] = "open"] /\ client' = k
        /\ stack' = [stack EXCEPT ![Pipe] = <<CreateFrame(n, k, None)>>]
  BY DEF Request
<1> DEFINE f == CreateFrame(n, k, None)
<1>2. /\ f \in FrameType /\ f.at = "create" /\ f.token = k /\ f.from = None
      /\ Pipe \in Threads /\ Pipe \notin Instances /\ Instances \subseteq Threads
  <2>1. f \in FrameType /\ f.at = "create" /\ f.token = k /\ f.from = None
    BY FrameTypes
  <2> QED BY <2>1 DEF Threads, Pipe, Instances
<1>3. Keeps(Pipe, {f}) /\ Busy(Pipe)' /\ Top(Pipe)' = f
  BY <1>1, <1>2, BeginStack DEF TypeOK
<1>4. UNCHANGED <<list, inst, process, waiting>> /\ client = None /\ ~Busy(Pipe)
  BY DEF Request, PipeServes
<1>5. Onward /\ SameInstances
  BY <1>4 DEF Onward, SameInstances, Used
<1>6. TypeOK'
  BY <1>1, <1>3, <1>4 DEF TypeOK, Keeps
<1>7. FramesGood'
  BY <1>2, <1>3, <1>5, FramesGoodStep DEF Good
<1>8. Lives' /\ NamesDiffer'
  <2>1. \A x \in Instances : Busy(x)' => Busy(x)
    BY <1>2, <1>3 DEF Keeps, Busy
  <2> QED BY <1>4, <1>5, <2>1, LivesStep, NamesStep
<1>9. PipeServes'
  BY <1>1 DEF PipeServes, Tokens
<1>10. OneStarter' /\ RefCount'
  <2>1. ~Referring(Pipe) /\ ~Referring(Pipe)'
    BY <1>2, <1>3, <1>4 DEF Referring
  <2> QED BY <1>2, <1>3, <1>4, <1>5, <2>1, RefsStep DEF Keeps, SameInstances
<1>11. TokensKept'
  <2>1. \A x \in Instances : Frees(x)' => Frees(x)
    BY <1>2, <1>3, FreesStep
  <2>2. \A x \in Instances, j \in Tokens : Protects(x, j) => Protects(x, j)'
    BY <1>4, <2>1 DEF Protects
  <2> QED BY <1>1, <1>4, <2>2 DEF TypeOK, TokensKept, Tokens
<1> QED BY <1>6, <1>7, <1>8, <1>9, <1>10, <1>11

LEMMA CreateInv ==
  ASSUME IInv, NEW t \in Threads, NEW x \in Instances, Create(t, x)
  PROVE  IInv'
<1> USE LauncherAssumption DEF IInv
<1> DEFINE f == Top(t)
           g == Frame("talk", x)
<1>1. /\ Busy(t) /\ f.at = "create" /\ f \in Frames(t) /\ f \in FrameType
      /\ f.token \in Tokens /\ (f.from # None => Gone(f.from)) /\ Instances \subseteq Threads
  BY TopOfStack DEF Create, Created, At, TypeOK, FramesGood, Good, Threads
<1>2. /\ ~Used(x) /\ x \notin list /\ x \notin waiting /\ ~Busy(x) /\ t # x
  BY <1>1 DEF Create, Created, Lives, Life, Used
<1>3. PICK recovery \in BOOLEAN :
        inst' = [inst EXCEPT ![x] = [state |-> "used", name |-> f.name, refs |-> 2,
                  started |-> FALSE, stopped |-> FALSE, recovery |-> recovery,
                  token |-> f.token, from |-> f.from]]
  BY DEF Create, Created
<1>4. /\ inst'[x].state = "used" /\ inst'[x].name = f.name /\ inst'[x].refs = 2
      /\ inst'[x].token = f.token /\ inst'[x].from = f.from
      /\ \A y \in Instances : y # x => inst'[y] = inst[y]
      /\ inst' \in [Instances -> InstanceType]
  BY <1>1, <1>3 DEF TypeOK, InstanceType, FrameType
<1>5. /\ token' = [token EXCEPT ![f.token] = "protected"]
      /\ process' = [process EXCEPT ![x] = "alive"]
      /\ waiting' = waiting \union {x} /\ list' = list \union {x}
      /\ \A y \in list : inst[y].name # f.name
      /\ UNCHANGED client
  BY DEF Create, Created, SvcInstanceCreateProcess, SvcInstanceLookup
<1>6. Keeps(t, {g}) /\ Busy(t)' /\ Top(t)' = g /\ g.at = "talk" /\ g.obj = x
  <2>1. g \in FrameType /\ g.at = "talk" /\ g.obj = x
    BY FrameTypes DEF FramePCs
  <2>2. Goto(t, g)
    BY DEF Create, Created
  <2> QED BY <1>1, <2>1, <2>2, GotoStack DEF TypeOK
<1>7. Onward
  BY <1>2, <1>4, <1>5 DEF Onward, Used
<1>8. TypeOK'
  BY <1>1, <1>4, <1>5, <1>6 DEF TypeOK, Keeps
<1>9. FramesGood'
  BY <1>2, <1>4, <1>6, <1>7, FramesGoodStep DEF Good, Used
<1>10. Lives'
  <2>1. ASSUME NEW y \in Instances, y # x
        PROVE  Life(y)'
    <3>1. Busy(y)' <=> Busy(y)
      BY <1>1, <1>2, <1>6, <2>1 DEF Keeps, Busy
    <3>2. Life(y)
      BY DEF Lives
    <3>3. \A z : z = inst[y].from /\ z # None => Gone(z)'
      BY <3>2, <1>7, GoneStays DEF Life
    <3> QED BY <1>4, <1>5, <2>1, <3>1, <3>2, <3>3 DEF Life, Used, TypeOK, Gone
  <2>2. Life(x)'
    <3>1. ~Busy(x)'
      BY <1>1, <1>2, <1>6 DEF Keeps, Busy
    <3>2. \A z : z = f.from /\ z # None => Gone(z)'
      BY <1>1, <1>7, GoneStays
    <3> QED BY <1>1, <1>4, <1>5, <3>1, <3>2 DEF Life, Used, Gone
  <2> QED BY <2>1, <2>2 DEF Lives
<1>11. PipeServes' /\ NamesDiffer'
  <2>1. PipeServes'
    BY <1>1, <1>5, <1>6 DEF PipeServes, Keeps, Busy, Threads
  <2>2. NamesDiffer'
    BY <1>2, <1>4, <1>5 DEF TypeOK, NamesDiffer
  <2> QED BY <2>1, <2>2
<1>12. OneStarter' /\ RefCount'
  <2>1. \A u \in Threads, y \in Instances :
          Starts(u, y)' <=> (Starts(u, y) /\ y # x) \/ (u = t /\ y = x)
    <3>1. ASSUME NEW u \in Threads \ {t}, NEW y \in Instances
          PROVE  (Starts(u, y)' <=> Starts(u, y)) /\ ~Starts(u, x)
      <4>1. Starts(u, y)' <=> Starts(u, y)
        BY <1>6 DEF Keeps, Starts, Busy, Top
      <4>2. ~Starts(u, x)
        BY <1>2, TopOfStack DEF Starts, TypeOK, FramesGood, Good
      <4> QED BY <4>1, <4>2
    <3>2. \A y \in Instances : ~Starts(t, y) /\ (Starts(t, y)' <=> y = x)
      BY <1>1, <1>2, <1>6 DEF Starts
    <3> QED BY <3>1, <3>2
  <2>2. /\ \A y \in Instances : y # x => (Waits(y)' <=> Waits(y))
        /\ Waits(x)'
    BY <1>1, <1>5, <1>6 DEF Waits, At, Keeps, Busy, Top
  <2>3. \A y \in Instances : y # x => (Started(y)' <=> Started(y))
    BY <2>1 DEF Started
  <2>4. Started(x)'
    BY <2>1 DEF Started
  <2>5. OneStarter'
    BY <2>1 DEF OneStarter
  <2>6. RefCount'
    BY <1>4, <2>2, <2>3, <2>4 DEF RefCount, Used
  <2> QED BY <2>5, <2>6
<1>13. TokensKept'
  <2>1. ~Frees(x) /\ \A y \in Instances : Frees(y)' => Frees(y)
    <3>1. ~Frees(x)
      BY <1>2 DEF Frees, FramesGood, Good
    <3> QED BY <1>6, <3>1, FreesStep
  <2>2. \A y \in Instances, k \in Tokens : Protects(y, k) => Protects(y, k)'
    BY <1>2, <1>4, <2>1 DEF Protects, Used
  <2>3. \A k : k = f.token => Protects(x, k)'
    BY <1>4, <2>1 DEF Protects
  <2> QED BY <1>1, <1>2, <1>4, <1>5, <2>2, <2>3 DEF TypeOK, TokensKept, Used
<1> QED BY <1>8, <1>9, <1>10, <1>11, <1>12, <1>13

LEMMA TalkInv == ASSUME IInv, NEW t \in Threads, Talk(t) PROVE IInv'
<1> USE LauncherAssumption DEF IInv
<1>0. PICK x : x = Top(t).obj
  OBVIOUS
<1> DEFINE g == Frame("drop", x)
<1>1. /\ Busy(t) /\ Top(t).at = "talk" /\ x \in Instances /\ Used(x) /\ t # x
      /\ Instances \subseteq Threads /\ x = Top(t).obj
  BY <1>0, TopOfStack DEF Talk, At, TypeOK, FramesGood, Good, Threads
<1>2. g \in FrameType /\ g.at = "drop" /\ g.obj = x
  BY <1>1, FrameTypes DEF FramePCs
<1>3. Keeps(t, {g}) /\ Busy(t)' /\ Top(t)' = g
  <2>1. Goto(t, g)
    BY <1>1 DEF Talk
  <2> QED BY <1>1, <1>2, <2>1, GotoStack DEF TypeOK
<1>4. PICK success \in BOOLEAN : inst' = [inst EXCEPT ![x].started = success]
  BY <1>1 DEF Talk
<1>5. /\ UNCHANGED <<list, process, waiting, token, client>>
      /\ inst' \in [Instances -> InstanceType]
      /\ \A y \in Instances :
           /\ inst'[y].state = inst[y].state /\ inst'[y].refs = inst[y].refs
           /\ inst'[y].token = inst[y].token /\ inst'[y].from = inst[y].from
           /\ inst'[y].name = inst[y].name /\ inst'[y].stopped = inst[y].stopped
  BY <1>1, <1>4 DEF Talk, TypeOK, InstanceType
<1>6. Onward /\ SameInstances
  BY <1>5 DEF Onward, SameInstances, Used
<1>7. TypeOK'
  BY <1>3, <1>5 DEF TypeOK, Keeps
<1>8. FramesGood'
  BY <1>1, <1>2, <1>3, <1>5, <1>6, FramesGoodStep DEF Good, Used
<1>9. \A y \in Instances \union {Pipe} : Busy(y)' => Busy(y)
  BY <1>1, <1>3 DEF Keeps, Busy, Threads
<1>10. Lives' /\ NamesDiffer' /\ PipeServes'
  <2>1. Lives' /\ NamesDiffer'
    BY <1>5, <1>6, <1>9, LivesStep, NamesStep
  <2> QED BY <2>1, <1>5, <1>9 DEF PipeServes
<1>11. OneStarter' /\ RefCount'
  <2>1. \A u \in Threads, y \in Instances : Starts(u, y)' <=> Starts(u, y)
    <3>1. \A u \in Threads \ {t}, y \in Instances : Starts(u, y)' <=> Starts(u, y)
      BY <1>3 DEF Keeps, Starts, Busy, Top
    <3>2. \A y \in Instances : Starts(t, y)' <=> Starts(t, y)
      BY <1>1, <1>2, <1>3 DEF Starts
    <3> QED BY <3>1, <3>2
  <2>2. \A y \in Instances : Waits(y)' <=> Waits(y)
    <3>1. \A y \in Instances \ {t} : Waits(y)' <=> Waits(y)
      BY <1>1, <1>3, <1>5 DEF Waits, At, Keeps, Busy, Top
    <3>2. t \in Instances => (Waits(t)' <=> Waits(t))
      BY <1>1, <1>2, <1>3, <1>5 DEF Waits, At
    <3> QED BY <3>1, <3>2
  <2>3. \A y \in Instances : Started(y)' <=> Started(y)
    BY <2>1 DEF Started
  <2> QED BY <1>5, <2>1, <2>2, <2>3 DEF OneStarter, RefCount, Used
<1>12. TokensKept'
  BY <1>2, <1>3, <1>5, FreesStep, TokensStep
<1> QED BY <1>7, <1>8, <1>10, <1>11, <1>12

LEMMA CreateFailsInv == ASSUME IInv, NEW t \in Threads, CreateFails(t) PROVE IInv'
<1> USE LauncherAssumption DEF IInv
<1>1. /\ Busy(t) /\ Top(t).at = "create" /\ Pop(t) /\ Instances \subseteq Threads
      /\ UNCHANGED <<list, inst, process, waiting, token, client>>
  BY DEF CreateFails, At, Threads
<1>2. Keeps(t, {}) /\ (Busy(t)' => Top(t)'.at = "free")
  BY <1>1, PopStack DEF TypeOK
<1>3. Onward /\ SameInstances
  BY <1>1 DEF Onward, SameInstances, Used
<1>4. TypeOK' /\ FramesGood'
  <2>1. FramesGood'
    BY <1>2, <1>3, FramesGoodStep
  <2> QED BY <2>1, <1>1, <1>2 DEF TypeOK, Keeps
<1>5. \A y \in Instances \union {Pipe} : Busy(y)' => Busy(y)
  BY <1>1, <1>2 DEF Keeps, Busy, Threads
<1>6. Lives' /\ NamesDiffer' /\ PipeServes'
  <2>1. Lives' /\ NamesDiffer'
    BY <1>1, <1>3, <1>5, LivesStep, NamesStep
  <2> QED BY <2>1, <1>1, <1>5 DEF PipeServes
<1>7. OneStarter' /\ RefCount'
  <2>1. ~Referring(t) /\ ~Referring(t)'
    BY <1>1, <1>2 DEF Referring
  <2> QED BY <1>1, <1>2, <1>3, <2>1, RefsStep DEF Keeps, SameInstances
<1>8. TokensKept'
  BY <1>1, <1>2, FreesStep, TokensStep
<1> QED BY <1>4, <1>6, <1>7, <1>8

LEMMA CloseClientInv == ASSUME IInv, CloseClient PROVE IInv'
<1> USE LauncherAssumption DEF IInv
<1>1. /\ UNCHANGED <<list, inst, process, waiting, stack>>
      /\ client \in Tokens /\ client' = None /\ ~Busy(Pipe)
      /\ token' = [token EXCEPT ![client] = IF @ = "open" THEN "closed" ELSE @]
  BY DEF CloseClient, CloseToken, TypeOK
<1>2. Onward /\ SameInstances
  BY <1>1 DEF Onward, SameInstances, Used
<1>3. TypeOK' /\ FramesGood'
  BY <1>1, <1>2, FramesGoodKept DEF TypeOK, StackOK
<1>4. Lives' /\ NamesDiffer' /\ PipeServes'
  <2>1. \A y \in Instances \union {Pipe} : Busy(y)' <=> Busy(y)
    BY <1>1 DEF Busy
  <2>2. Lives' /\ NamesDiffer'
    BY <1>1, <1>2, <2>1, LivesStep, NamesStep
  <2> QED BY <2>2, <2>1, <1>1 DEF PipeServes
<1>5. OneStarter' /\ RefCount'
  BY <1>1, <1>2, RefsKept DEF SameInstances
<1>6. TokensKept'
  <2>1. \A y \in Instances, k \in Tokens : Protects(y, k) => Protects(y, k)'
    BY <1>1 DEF Protects, Frees, Frames
  <2> QED BY <1>1, <2>1 DEF TokensKept, TypeOK
<1> QED BY <1>3, <1>4, <1>5, <1>6

-----------------------------------------------------------------------------
(* The release of an instance. *)

LEMMA DropInv == ASSUME IInv, NEW t \in Threads, Drop(t) PROVE IInv'
<1> USE LauncherAssumption DEF IInv
<1>0. PICK x : x = Top(t).obj
  OBVIOUS
<1> DEFINE g == Frame("remove", x)
<1>1. /\ Busy(t) /\ Top(t).at = "drop" /\ x \in Instances /\ Used(x)
      /\ Instances \subseteq Threads /\ x = Top(t).obj
  BY <1>0, TopOfStack DEF Drop, At, TypeOK, FramesGood, Good, Threads
<1>2. g \in FrameType /\ g.at = "remove" /\ g.obj = x
  BY <1>1, FrameTypes DEF FramePCs
<1>3. /\ Keeps(t, {g}) /\ ~Referring(t)'
      /\ Busy(t)' => Top(t)'.at # "drop"
      /\ inst[x].refs # 1 => Keeps(t, {})
  <2>1. CASE inst[x].refs = 1
    <3>1. Goto(t, g)
      BY <1>1, <2>1 DEF Drop
    <3> QED BY <1>1, <1>2, <2>1, <3>1, GotoStack DEF TypeOK, Referring
  <2>2. CASE inst[x].refs # 1
    <3>1. Pop(t)
      BY <1>1, <2>2 DEF Drop
    <3> QED BY <1>1, <2>2, <3>1, PopStack DEF TypeOK, Referring, Keeps
  <2> QED BY <2>1, <2>2
<1>4. /\ UNCHANGED <<list, process, waiting, token, client>>
      /\ inst' \in [Instances -> InstanceType]
      /\ \A y \in Instances :
           /\ inst'[y].state = inst[y].state
           /\ inst'[y].refs = IF y = x THEN inst[x].refs - 1 ELSE inst[y].refs
           /\ inst'[y].token = inst[y].token /\ inst'[y].from = inst[y].from
           /\ inst'[y].name = inst[y].name /\ inst'[y].stopped = inst[y].stopped
  BY <1>1 DEF Drop, TypeOK, InstanceType
<1>5. Onward /\ SameInstances
  BY <1>4 DEF Onward, SameInstances, Used
<1>6. TypeOK'
  BY <1>3, <1>4 DEF TypeOK, Keeps
<1>7. t # x => Starts(t, x) /\ Started(x)
  BY <1>1 DEF Starts, Started
<1>8. t = x => Waits(x) /\ x \notin waiting
  BY <1>1 DEF Waits, At, Lives, Life
<1>9. inst[x].refs = 1 => x \notin waiting
  BY <1>1, <1>7, <1>8 DEF RefCount, Waits
<1>10. FramesGood'
  <2>1. CASE inst[x].refs = 1
    <3>1. \A f \in {g} : Good(t, f)'
      BY <1>1, <1>2, <1>4, <1>9, <2>1 DEF Good, Used
    <3> QED BY <1>3, <1>5, <3>1, FramesGoodStep
  <2>2. CASE inst[x].refs # 1
    BY <1>3, <1>5, <2>2, FramesGoodStep
  <2> QED BY <2>1, <2>2
<1>11. \A y \in Instances \union {Pipe} : Busy(y)' => Busy(y)
  BY <1>1, <1>3 DEF Keeps, Busy, Threads
<1>12. Lives' /\ NamesDiffer' /\ PipeServes'
  <2>1. Lives' /\ NamesDiffer'
    BY <1>4, <1>5, <1>11, LivesStep, NamesStep
  <2> QED BY <2>1, <1>4, <1>11 DEF PipeServes
<1>13. OneStarter' /\ RefCount'
  <2>1. \A u \in Threads, y \in Instances : Starts(u, y)' <=> Starts(u, y) /\ u # t
    <3>1. \A u \in Threads \ {t}, y \in Instances : Starts(u, y)' <=> Starts(u, y)
      BY <1>3 DEF Keeps, Starts, Busy, Top
    <3>2. \A y \in Instances : ~Starts(t, y)'
      BY <1>3 DEF Starts, Referring
    <3> QED BY <3>1, <3>2
  <2>2. \A y \in Instances : Waits(y)' <=> Waits(y) /\ (y = t => y # x)
    <3>1. \A y \in Instances \ {t} : Waits(y)' <=> Waits(y)
      BY <1>1, <1>3, <1>4 DEF Waits, At, Keeps, Busy, Top
    <3>2. t \in Instances => (Waits(t)' <=> Waits(t) /\ t # x)
      BY <1>1, <1>3, <1>4, <1>8 DEF Waits, At
    <3> QED BY <3>1, <3>2
  <2>3. ASSUME NEW y \in Instances, y # x
        PROVE  (Started(y)' <=> Started(y)) /\ (Waits(y)' <=> Waits(y))
    BY <1>1, <2>1, <2>2, <2>3 DEF Started, Starts
  <2>4. CASE t = x
    <3>1. Started(x)' <=> Started(x)
      BY <1>1, <2>1, <2>4 DEF Started, Starts
    <3> QED BY <1>4, <1>8, <2>1, <2>2, <2>3, <2>4, <3>1
        DEF OneStarter, RefCount, Used, TypeOK, InstanceType
  <2>5. CASE t # x
    <3>1. ~Started(x)'
      BY <1>1, <1>7, <2>1, <2>5 DEF Started, OneStarter
    <3>2. Waits(x)' <=> Waits(x)
      BY <1>1, <2>2, <2>5
    <3> QED BY <1>4, <1>7, <2>1, <2>3, <2>5, <3>1, <3>2
        DEF OneStarter, RefCount, Used, TypeOK, InstanceType
  <2> QED BY <2>4, <2>5
<1>14. TokensKept'
  BY <1>2, <1>3, <1>4, FreesStep, TokensStep
<1> QED BY <1>6, <1>10, <1>12, <1>13, <1>14

LEMMA RemoveInv == ASSUME IInv, NEW t \in Threads, Remove(t) PROVE IInv'
<1> USE LauncherAssumption DEF IInv
<1>0. PICK x : x = Top(t).obj
  OBVIOUS
<1> DEFINE g == Frame("recover", x)
<1>1. /\ Busy(t) /\ Top(t).at = "remove" /\ x \in Instances /\ Used(x) /\ x \notin waiting
      /\ Instances \subseteq Threads /\ x = Top(t).obj
  BY <1>0, TopOfStack DEF Remove, At, TypeOK, FramesGood, Good, Threads
<1>2. g \in FrameType /\ g.at = "recover" /\ g.obj = x
  BY <1>1, FrameTypes DEF FramePCs
<1>3. Keeps(t, {g}) /\ Busy(t)' /\ Top(t)' = g
  <2>1. Goto(t, g)
    BY <1>1 DEF Remove
  <2> QED BY <1>1, <1>2, <2>1, GotoStack DEF TypeOK
<1>4. list' = list \ {x} /\ UNCHANGED <<inst, process, waiting, token, client>>
  BY <1>1 DEF Remove
<1>5. Onward /\ SameInstances
  BY <1>4 DEF Onward, SameInstances, Used
<1>6. TypeOK'
  BY <1>3, <1>4 DEF TypeOK, Keeps
<1>7. FramesGood'
  <2>1. \A f \in {g} : Good(t, f)'
    BY <1>1, <1>2, <1>4 DEF Good, Used
  <2> QED BY <1>3, <1>5, <2>1, FramesGoodStep
<1>8. \A y \in Instances \union {Pipe} : Busy(y)' => Busy(y)
  BY <1>1, <1>3 DEF Keeps, Busy, Threads
<1>9. Lives' /\ NamesDiffer' /\ PipeServes'
  <2>1. process[x] # "alive"
    BY <1>1 DEF Lives, Life
  <2>2. Lives' /\ NamesDiffer'
    BY <1>4, <1>5, <1>8, <2>1, LivesStep, NamesStep
  <2> QED BY <2>2, <1>4, <1>8 DEF PipeServes
<1>10. OneStarter' /\ RefCount'
  <2>1. ~Referring(t) /\ ~Referring(t)'
    BY <1>1, <1>2, <1>3 DEF Referring
  <2> QED BY <1>3, <1>4, <1>5, <2>1, RefsStep DEF Keeps, SameInstances
<1>11. TokensKept'
  BY <1>2, <1>3, <1>4, FreesStep, TokensStep
<1> QED BY <1>6, <1>7, <1>9, <1>10, <1>11

LEMMA RecoverInv == ASSUME IInv, NEW t \in Threads, Recover(t) PROVE IInv'
<1> USE LauncherAssumption DEF IInv
<1>0. PICK x : x = Top(t).obj
  OBVIOUS
<1> DEFINE n == inst[x].name
           k == inst[x].token
           wanted == inst[x].recovery /\ inst[x].started /\ ~inst[x].stopped
<1>1. /\ Busy(t) /\ Top(t).at = "recover" /\ x \in Instances /\ Used(x) /\ x \notin list
      /\ Instances \subseteq Threads /\ x = Top(t).obj
  BY <1>0, TopOfStack DEF Recover, At, TypeOK, FramesGood, Good, Threads
<1>2. PICK g : g = CreateFrame(n, k, x)
  OBVIOUS
<1>3. PICK h : h = Frame("free", x)
  OBVIOUS
<1>4. /\ g \in FrameType /\ g.at = "create" /\ g.token \in Tokens /\ g.from = x
      /\ h \in FrameType /\ h.at = "free" /\ h.obj = x /\ k \in Tokens
  <2>1. k \in Tokens /\ n \in Names \union {None}
    BY <1>1 DEF Lives, Life, TypeOK, InstanceType
  <2>2. g \in FrameType /\ g.at = "create" /\ g.token = k /\ g.from = x
    BY <1>1, <1>2, <2>1, FrameTypes
  <2>3. h \in FrameType /\ h.at = "free" /\ h.obj = x
    BY <1>1, <1>3, FrameTypes DEF FramePCs
  <2> QED BY <2>1, <2>2, <2>3
<1>5. /\ token' = [token EXCEPT ![k] = IF @ = "protected" THEN "open" ELSE @]
      /\ UNCHANGED <<list, inst, process, waiting, client>>
  BY <1>1 DEF Recover, RecoverIf
<1>6. Onward /\ SameInstances
  BY <1>5 DEF Onward, SameInstances, Used
<1>7. /\ Good(t, h)'
      /\ ~inst[x].stopped => Good(t, g)'
  BY <1>1, <1>4, <1>5 DEF Good, Gone, Used
<1>8. /\ Keeps(t, {g, h}) /\ ~Referring(t)' /\ FramesGood'
  <2>1. CASE wanted
    <3>1. Push(t, h, g)
      BY <1>1, <1>2, <1>3, <2>1 DEF Recover, RecoverIf
    <3>2. Keeps(t, {g, h}) /\ Busy(t)' /\ Top(t)' = g
      BY <1>1, <1>4, <3>1, PushStack DEF TypeOK
    <3>3. FramesGood'
      BY <1>6, <1>7, <2>1, <3>2, FramesGoodStep
    <3> QED BY <1>4, <3>2, <3>3 DEF Referring
  <2>2. CASE ~wanted
    <3>1. Goto(t, h)
      BY <1>1, <1>3, <2>2 DEF Recover, RecoverIf
    <3>2. Keeps(t, {h}) /\ Busy(t)' /\ Top(t)' = h
      BY <1>1, <1>4, <3>1, GotoStack DEF TypeOK
    <3>3. FramesGood'
      BY <1>6, <1>7, <3>2, FramesGoodStep
    <3> QED BY <1>4, <3>2, <3>3 DEF Referring, Keeps
  <2> QED BY <2>1, <2>2
<1>9. TypeOK'
  BY <1>4, <1>5, <1>8 DEF TypeOK, Keeps
<1>10. \A y \in Instances \union {Pipe} : Busy(y)' => Busy(y)
  BY <1>1, <1>8 DEF Keeps, Busy, Threads
<1>11. Lives' /\ NamesDiffer' /\ PipeServes'
  <2>1. Lives' /\ NamesDiffer'
    BY <1>5, <1>6, <1>10, LivesStep, NamesStep
  <2> QED BY <2>1, <1>5, <1>10 DEF PipeServes
<1>12. OneStarter' /\ RefCount'
  <2>1. ~Referring(t)
    BY <1>1 DEF Referring
  <2> QED BY <1>5, <1>6, <1>8, <2>1, RefsStep DEF Keeps, SameInstances
<1>13. TokensKept'
  <2>1. \A y \in Instances : y # x => (Frees(y)' => Frees(y))
    BY <1>4, <1>8, FreesStep
  <2>2. \A y \in Instances, j \in Tokens : j # k /\ Protects(y, j) => Protects(y, j)'
    BY <1>5, <2>1 DEF Protects
  <2>3. token[k] = "protected" => \E y \in Instances : inst[y].state = "used" /\ inst[y].token = k
    BY <1>4 DEF TokensKept, Protects
  <2>4. ASSUME NEW j \in Tokens, j # k
        PROVE  /\ token'[j] = "protected" => \E y \in Instances : Protects(y, j)'
               /\ token'[j] = "open" =>
                    j = client' \/ \E y \in Instances : inst'[y].state = "used" /\ inst'[y].token = j
    BY <1>5, <2>2, <2>4 DEF TypeOK, TokensKept
  <2>5. \A j : j = k => token'[j] # "protected"
                      /\ (token'[j] = "open" => j = client'
                          \/ \E y \in Instances : inst'[y].state = "used" /\ inst'[y].token = j)
    BY <1>4, <1>5, <2>3 DEF TypeOK, TokensKept
  <2> QED BY <1>5, <2>4, <2>5 DEF TokensKept
<1> QED BY <1>8, <1>9, <1>11, <1>12, <1>13

LEMMA FreeInv == ASSUME IInv, NEW t \in Threads, Free(t) PROVE IInv'
<1> USE LauncherAssumption DEF IInv
<1>0. PICK x : x = Top(t).obj
  OBVIOUS
<1> DEFINE k == inst[x].token
<1>1. /\ Busy(t) /\ Top(t).at = "free" /\ x \in Instances /\ Used(x) /\ k \in Tokens /\ Frees(x)
      /\ Instances \subseteq Threads /\ x = Top(t).obj
  BY <1>0, TopOfStack DEF Free, At, TypeOK, FramesGood, Good, Threads, Frees, Lives, Life
<1>2. Keeps(t, {}) /\ (Busy(t)' => Top(t)'.at = "free")
  BY <1>1, PopStack DEF Free, TypeOK
<1>3. /\ UNCHANGED <<list, process, waiting, client>>
      /\ token' = [token EXCEPT ![k] = IF @ = "open" THEN "closed" ELSE @]
      /\ inst' \in [Instances -> InstanceType]
      /\ inst'[x].state = "freed"
      /\ \A y \in Instances :
           /\ y # x => inst'[y].state = inst[y].state
           /\ inst'[y].refs = inst[y].refs
           /\ inst'[y].token = inst[y].token /\ inst'[y].from = inst[y].from
           /\ inst'[y].name = inst[y].name /\ inst'[y].stopped = inst[y].stopped
  BY <1>1 DEF Free, CloseToken, TypeOK, InstanceType
<1>4. Onward /\ SameInstances
  BY <1>1, <1>3 DEF Onward, SameInstances, Used
<1>5. TypeOK'
  BY <1>1, <1>2, <1>3 DEF TypeOK, Keeps
<1>6. FramesGood'
  BY <1>2, <1>4, FramesGoodStep
<1>7. \A y \in Instances \union {Pipe} : Busy(y)' => Busy(y)
  BY <1>1, <1>2 DEF Keeps, Busy, Threads
<1>8. Lives' /\ NamesDiffer' /\ PipeServes'
  <2>1. Lives' /\ NamesDiffer'
    BY <1>3, <1>4, <1>7, LivesStep, NamesStep
  <2> QED BY <2>1, <1>3, <1>7 DEF PipeServes
<1>9. OneStarter' /\ RefCount'
  <2>1. ~Referring(t) /\ ~Referring(t)'
    BY <1>1, <1>2 DEF Referring
  <2> QED BY <1>2, <1>3, <1>4, <2>1, RefsStep DEF Keeps, SameInstances
<1>10. TokensKept'
  <2>1. \A y \in Instances : Frees(y)' => Frees(y)
    BY <1>2, FreesStep
  <2>2. \A y \in Instances, j \in Tokens : Protects(y, j) => Protects(y, j)'
    BY <1>1, <1>3, <2>1 DEF Protects
  <2> QED BY <1>1, <1>3, <2>2 DEF TypeOK, TokensKept
<1> QED BY <1>5, <1>6, <1>8, <1>9, <1>10

-----------------------------------------------------------------------------
(* The process of an instance, and requests to stop. *)

LEMMA ProcessEndsInv == ASSUME IInv, NEW x \in Instances, ProcessEnds(x) PROVE IInv'
<1> USE LauncherAssumption DEF IInv
<1>1. /\ UNCHANGED <<list, inst, waiting, token, client, stack>>
      /\ process[x] = "alive" /\ process' = [process EXCEPT ![x] = "dead"]
  BY DEF ProcessEnds
<1>2. Onward /\ SameInstances
  BY <1>1 DEF Onward, SameInstances, Used
<1>3. TypeOK' /\ FramesGood'
  BY <1>1, <1>2, FramesGoodKept DEF TypeOK, StackOK
<1>4. Lives'
  <2> SUFFICES ASSUME NEW y \in Instances PROVE Life(y)'
    BY DEF Lives
  <2>1. Life(y) /\ \A z : Gone(z)' <=> Gone(z)
    BY <1>1 DEF Lives, Gone, Used
  <2> QED BY <1>1, <2>1 DEF TypeOK, Life, Used, Busy, Gone
<1>5. NamesDiffer' /\ PipeServes'
  BY <1>1 DEF NamesDiffer, PipeServes, Busy
<1>6. OneStarter' /\ RefCount'
  BY <1>1, <1>2, RefsKept DEF SameInstances
<1>7. TokensKept'
  BY <1>1, TokensStep DEF Frees, Frames
<1> QED BY <1>3, <1>4, <1>5, <1>6, <1>7

LEMMA TerminatedInv ==
  ASSUME IInv, NEW x \in Instances, SvcInstanceTerminated(x)
  PROVE  IInv'
<1> USE LauncherAssumption DEF IInv
<1> DEFINE g == Frame("drop", x)
<1>1. /\ UNCHANGED <<list, inst, process, token, client>>
      /\ x \in waiting /\ waiting' = waiting \ {x} /\ process[x] = "dead"
      /\ stack' = [stack EXCEPT ![x] = <<g>>]
  BY DEF SvcInstanceTerminated
<1>2. Used(x) /\ ~Busy(x) /\ Instances \subseteq Threads /\ Pipe \notin Instances
  BY <1>1 DEF Lives, Life, Threads, Pipe, Instances
<1>3. g \in FrameType /\ g.at = "drop" /\ g.obj = x
  BY FrameTypes DEF FramePCs
<1>4. Keeps(x, {g}) /\ Busy(x)' /\ Top(x)' = g
  BY <1>1, <1>2, <1>3, BeginStack DEF TypeOK
<1>5. Onward /\ SameInstances
  BY <1>1 DEF Onward, SameInstances, Used
<1>6. TypeOK'
  BY <1>1, <1>4 DEF TypeOK, Keeps
<1>7. FramesGood'
  BY <1>1, <1>2, <1>3, <1>4, <1>5, FramesGoodStep DEF Good, Used
<1>8. Lives'
  <2> SUFFICES ASSUME NEW y \in Instances PROVE Life(y)'
    BY DEF Lives
  <2>1. Life(y) /\ \A z : Gone(z)' <=> Gone(z)
    BY <1>1 DEF Lives, Gone, Used
  <2>2. y # x => (Busy(y)' <=> Busy(y))
    BY <1>2, <1>4 DEF Keeps, Busy
  <2> QED BY <1>1, <1>2, <2>1, <2>2 DEF Life, Used, Gone
<1>9. NamesDiffer' /\ PipeServes'
  <2>1. Busy(Pipe)' <=> Busy(Pipe)
    BY <1>2, <1>4 DEF Keeps, Busy, Threads
  <2> QED BY <1>1, <2>1 DEF NamesDiffer, PipeServes
<1>10. OneStarter' /\ RefCount'
  <2>1. \A u \in Threads, y \in Instances : Starts(u, y)' <=> Starts(u, y)
    <3>1. \A u \in Threads \ {x}, y \in Instances : Starts(u, y)' <=> Starts(u, y)
      BY <1>4 DEF Keeps, Starts, Busy, Top
    <3>2. \A y \in Instances : ~Starts(x, y)' /\ ~Starts(x, y)
      BY <1>2, <1>3, <1>4 DEF Starts
    <3> QED BY <3>1, <3>2
  <2>2. \A y \in Instances : Waits(y)' <=> Waits(y)
    <3>1. \A y \in Instances \ {x} : Waits(y)' <=> Waits(y)
      BY <1>1, <1>2, <1>4 DEF Waits, At, Keeps, Busy, Top
    <3>2. Waits(x) /\ Waits(x)'
      BY <1>1, <1>3, <1>4 DEF Waits, At
    <3> QED BY <3>1, <3>2
  <2>3. \A y \in Instances : Started(y)' <=> Started(y)
    BY <2>1 DEF Started
  <2> QED BY <1>1, <2>1, <2>2, <2>3 DEF OneStarter, RefCount, Used
<1>11. TokensKept'
  <2>1. \A y \in Instances : Frees(y)' => Frees(y)
    BY <1>2, <1>3, <1>4, FreesStep
  <2> QED BY <1>1, <2>1, TokensStep
<1> QED BY <1>6, <1>7, <1>8, <1>9, <1>10, <1>11

(* Instances of the list are stopped: one, or all of them.                 *)
LEMMA StopInv ==
  ASSUME IInv, UNCHANGED <<list, process, waiting, token, client, stack>>,
         inst' \in [Instances -> InstanceType],
         \A y \in Instances :
           /\ inst'[y].state = inst[y].state /\ inst'[y].refs = inst[y].refs
           /\ inst'[y].token = inst[y].token /\ inst'[y].from = inst[y].from
           /\ inst'[y].name = inst[y].name
           /\ y \notin list => inst'[y].stopped = inst[y].stopped
  PROVE  IInv'
<1> USE LauncherAssumption DEF IInv
<1>1. Onward /\ SameInstances
  BY DEF Onward, SameInstances, Used
<1>2. TypeOK' /\ FramesGood'
  BY <1>1, FramesGoodKept DEF TypeOK, StackOK
<1>3. Lives' /\ NamesDiffer' /\ PipeServes'
  <2>1. \A y \in Instances \union {Pipe} : Busy(y)' <=> Busy(y)
    BY DEF Busy
  <2>2. Lives' /\ NamesDiffer'
    BY <1>1, <2>1, LivesStep, NamesStep
  <2> QED BY <2>1, <2>2 DEF PipeServes
<1>4. OneStarter' /\ RefCount'
  BY <1>1, RefsKept DEF SameInstances
<1>5. TokensKept'
  BY TokensStep DEF Frees, Frames
<1> QED BY <1>2, <1>3, <1>4, <1>5

LEMMA StopsInv ==
  ASSUME IInv, (\E x \in Instances : Stop(x)) \/ StopAll \/ WaitEnds
  PROVE  IInv'
<1>1. ASSUME NEW x \in Instances, Stop(x) PROVE IInv'
  <2>1. /\ inst' \in [Instances -> InstanceType]
        /\ \A y \in Instances :
             /\ inst'[y].state = inst[y].state /\ inst'[y].refs = inst[y].refs
             /\ inst'[y].token = inst[y].token /\ inst'[y].from = inst[y].from
             /\ inst'[y].name = inst[y].name
             /\ y \notin list => inst'[y].stopped = inst[y].stopped
    <3>1. inst' = [inst EXCEPT ![x].stopped = TRUE] /\ x \in list
      BY <1>1 DEF Stop
    <3>2. inst \in [Instances -> InstanceType]
      BY DEF IInv, TypeOK
    <3> QED BY <3>1, <3>2 DEF InstanceType
  <2> QED BY <1>1, <2>1, StopInv DEF Stop
<1>2. CASE StopAll
  <2>1. /\ inst' \in [Instances -> InstanceType]
        /\ \A y \in Instances :
             /\ inst'[y].state = inst[y].state /\ inst'[y].refs = inst[y].refs
             /\ inst'[y].token = inst[y].token /\ inst'[y].from = inst[y].from
             /\ inst'[y].name = inst[y].name
             /\ y \notin list => inst'[y].stopped = inst[y].stopped
    <3>1. \A y \in Instances : \E b \in BOOLEAN : b = (inst[y].stopped \/ y \in list)
      BY Zenon
    <3>2. \A y \in Instances : inst[y] \in InstanceType
      BY DEF IInv, TypeOK
    <3>3. ASSUME NEW y \in Instances
          PROVE  /\ inst'[y] \in InstanceType
                 /\ inst'[y].state = inst[y].state /\ inst'[y].refs = inst[y].refs
                 /\ inst'[y].token = inst[y].token /\ inst'[y].from = inst[y].from
                 /\ inst'[y].name = inst[y].name
                 /\ y \notin list => inst'[y].stopped = inst[y].stopped
      <4>1. PICK b \in BOOLEAN : b = (inst[y].stopped \/ y \in list)
        BY <3>1
      <4>2. inst'[y] = [inst[y] EXCEPT !.stopped = b]
        BY <1>2, <4>1 DEF StopAll
      <4>3. y \notin list => b = inst[y].stopped
        <5>1. inst[y].stopped \in BOOLEAN
          BY <3>2 DEF InstanceType
        <5> QED BY <4>1, <5>1
      <4> QED BY <3>2, <4>2, <4>3 DEF InstanceType
    <3>4. inst' = [y \in Instances |-> inst'[y]]
      BY <1>2 DEF StopAll
    <3> QED BY <3>3, <3>4
  <2> QED BY <1>2, <2>1, StopInv DEF StopAll
<1>3. CASE WaitEnds
  BY <1>3, StopInv DEF WaitEnds, IInv, TypeOK
<1> QED BY <1>1, <1>2, <1>3

LEMMA StepInv == IInv /\ [Next]_vars => IInv'
<1> SUFFICES ASSUME IInv, [Next]_vars PROVE IInv'
  OBVIOUS
<1>1. CASE UNCHANGED vars
  BY <1>1, StopInv DEF vars, IInv, TypeOK
<1>2. ASSUME NEW t \in Threads, ThreadStep(t) PROVE IInv'
  BY <1>2, CreateFailsInv, CreateInv, TalkInv, DropInv, RemoveInv, RecoverInv, FreeInv
  DEF ThreadStep
<1>3. ASSUME NEW x \in Instances, ProcessEnds(x) \/ SvcInstanceTerminated(x) PROVE IInv'
  BY <1>3, ProcessEndsInv, TerminatedInv
<1> QED BY <1>1, <1>2, <1>3, RequestInv, CloseClientInv, StopsInv DEF Next

LEMMA Inductive == Spec => []IInv
BY InitInv, StepInv, PTL DEF Spec

-----------------------------------------------------------------------------
(* Results. *)

(* Two instances of one name never have a running process at the same      *)
(* time, not even when a recovery races with the start of a client         *)
(* (SvcInstanceLookup in SvcInstanceCreate, and the order in which         *)
(* SvcInstanceRelease takes an instance off the list and starts it again). *)
THEOREM NamesUnique == Spec => []OneProcess
<1>1. IInv => OneProcess
  BY DEF IInv, Lives, Life, NamesDiffer, OneProcess
<1> QED BY <1>1, Inductive, PTL

(* No instance is started in the place of one that was stopped             *)
(* (SvcInstanceRelease decides after the instance left the list).          *)
THEOREM StoppedStaysStopped == Spec => []StopSticks
<1>1. IInv => StopSticks
  BY DEF IInv, Lives, Life, Gone, StopSticks
<1> QED BY <1>1, Inductive, PTL

(* A token handle is open only while the pipe thread has yet to close it   *)
(* or an instance that is in use refers to it (SetHandleInformation and    *)
(* CloseHandle in SvcInstanceCreate and SvcInstanceRelease).               *)
THEOREM NoTokenLeft == Spec => []TokensClosed
<1>1. IInv => TokensClosed
  BY DEF IInv, TokensKept, Protects, TokensClosed
<1> QED BY <1>1, Inductive, PTL

(* The reference count of an instance is the number of the references that *)
(* are not released yet: of the one thread that starts it, and of the wait *)
(* for its process (SvcInstanceCreate and SvcInstanceRelease).             *)
THEOREM ReferencesCounted == Spec => [](OneStarter /\ RefCount)
BY Inductive, PTL DEF IInv

=============================================================================
