---------------------------- MODULE CpuMasterStep ----------------------------
(***************************************************************************)
(* One optimizer step of the TorchTitan TPU engine, with FP32 master       *)
(* weights: on the host, where gradients come in and stepped weights go    *)
(* out through two slots of pinned staging buffers while the next chunk is *)
(* already on its way, or on the device, one chunk at a time.              *)
(*                                                                         *)
(* A value is the set of the updates it carries.  An update names the      *)
(* parameter and the step its gradient was of and the param group whose    *)
(* hyperparameters it was made with.                                       *)
(***************************************************************************)
EXTENDS Integers, Sequences, SequencesExt

CONSTANTS Groups,     \* the optimizer's param groups: per group, its chunks of parameters
          Shape,      \* the shape of each parameter's local gradient
          ActiveSets, \* the sets of parameters that may have a gradient in a step
          MaxSteps    \* bound: optimizer steps

VARIABLES mode,       \* "cpu" (host masters), "device" (device masters) or "offload" (states in host memory)
          events,     \* whether the device has events; if not, its queue is taken to run in order
          pc,         \* "idle", "step" (in a group), "moved" (a chunk's states are on the device), "failed"
          steps, active, group,   \* the steps begun, the parameters with a gradient, the group at hand
          queued, stepped,        \* chunks of the group whose gradients were sent, and that were stepped
          hyper,      \* whose hyperparameters the CPU AdamW has
          narrowed,   \* whether the param groups' parameters are replaced for the step
          master,     \* the FP32 masters (and their moments)
          weight,     \* the bf16 parameters
          host,       \* the staging buffers
          dma,        \* the transfers queued on the device
          d2h, h2d,   \* per slot: the event recorded behind its transfers
          home,       \* where each parameter's optimizer state is
          due         \* the updates that should have been made (history)
stepvars == <<mode, events, pc, steps, active, group, queued, stepped, hyper, narrowed, master, weight, host,
              dma, d2h, h2d, home, due>>

Slots == {0, 1}
ParamsOf(g) == UNION {ToSet(Groups[g][c]) : c \in DOMAIN Groups[g]}
Params == UNION {ParamsOf(g) : g \in DOMAIN Groups}
GroupOf(p) == CHOOSE g \in DOMAIN Groups : \E c \in DOMAIN Groups[g] : p \in ToSet(Groups[g][c])
Update(p, s, g) == [of |-> p, step |-> s, by |-> g]

\* A group's chunks of parameters with a gradient.
ActiveChunks(g, A) == SelectSeq([c \in DOMAIN Groups[g] |-> SelectSeq(Groups[g][c], LAMBDA p : p \in A)],
                                LAMBDA chunk : chunk # <<>>)
Chunks(g) == ActiveChunks(g, active)
Chunk(k) == Chunks(group)[k]
\* A staging buffer is kept for its place in a chunk, and its shape.
Buffer(k, i) == <<(k - 1) % 2, i, Shape[Chunk(k)[i]]>>
Places == UNION {UNION {DOMAIN Groups[g][c] : c \in DOMAIN Groups[g]} : g \in DOMAIN Groups}
BufferKeys == Slots \X Places \X {Shape[p] : p \in Params}

\* A parameter is in one group, and in the chunks of those with a gradient once.
ASSUME GroupsAssumption ==
  /\ Groups \in Seq(Seq(Seq(Params))) /\ Groups # <<>>
  /\ \A g, h \in DOMAIN Groups : g # h => ParamsOf(g) \cap ParamsOf(h) = {}
ASSUME ChunksAssumption ==
  \A A \in ActiveSets, g \in DOMAIN Groups :
    LET cs == ActiveChunks(g, A)
        cells == {x \in (1..Len(cs)) \X Places : x[2] \in DOMAIN cs[x[1]]} IN
    /\ A \subseteq Params /\ cs \in Seq(Seq(Params)) /\ \A k \in DOMAIN cs : DOMAIN cs[k] \subseteq Places
    /\ {cs[x[1]][x[2]] : x \in cells} = A \cap ParamsOf(g)
    /\ \A x, y \in cells : cs[x[1]][x[2]] = cs[y[1]][y[2]] => x = y

NoEvent == [set |-> FALSE, after |-> {}]
\* An event stands for everything queued before it.
Record(queue) == IF events THEN [set |-> TRUE, after |-> ToSet(queue)] ELSE NoEvent
Waited(event) == event.after \cap ToSet(dma) = {}

StepInit ==
  /\ mode \in {"cpu", "device", "offload"} /\ events \in (IF mode = "cpu" THEN BOOLEAN ELSE {TRUE})
  /\ pc = "idle" /\ steps = 0 /\ active = {} /\ group = 0 /\ queued = 0 /\ stepped = 0
  /\ hyper = 0 /\ narrowed = FALSE
  /\ master = [p \in Params |-> [bound |-> FALSE, made |-> {}]]
  /\ weight = [p \in Params |-> {}] /\ host = [k \in BufferKeys |-> {}] /\ dma = <<>>
  /\ d2h = [s \in Slots |-> NoEvent] /\ h2d = [s \in Slots |-> NoEvent]
  /\ home = [p \in Params |-> IF mode = "device" THEN "device" ELSE "host"]
  /\ due = [p \in Params |-> {}]

-----------------------------------------------------------------------------
\* optimizer_step: the norm of the gradients is not finite, the step is skipped.
SkipStep ==
  /\ pc = "idle" /\ steps < MaxSteps /\ steps' = steps + 1
  /\ UNCHANGED <<mode, events, pc, active, group, queued, stepped, hyper, narrowed, master, weight, host, dma,
                 d2h, h2d, home, due>>

\* Otherwise the chunks are clipped and stepped, group by group.
BeginStep(A) ==
  /\ pc = "idle" /\ steps < MaxSteps /\ steps' = steps + 1
  /\ pc' = "step" /\ active' = A /\ group' = 1 /\ queued' = 0 /\ stepped' = 0
  /\ narrowed' = TRUE
  /\ hyper' = IF mode = "cpu" THEN 1 ELSE hyper
  /\ due' = [p \in Params |-> due[p] \cup (IF p \in A THEN {Update(p, steps + 1, GroupOf(p))} ELSE {})]
  /\ UNCHANGED <<mode, events, master, weight, host, dma, d2h, h2d, home>>

\* The end of a group: the next one, whose hyperparameters the CPU AdamW
\* takes, or the end of the step, where the param groups get theirs back.
EndGroup ==
  /\ queued' = 0 /\ stepped' = 0
  /\ IF group < Len(Groups)
     THEN /\ group' = group + 1 /\ hyper' = (IF mode = "cpu" THEN group + 1 ELSE hyper)
          /\ UNCHANGED <<pc, narrowed>>
     ELSE pc' = "idle" /\ narrowed' = FALSE /\ UNCHANGED <<group, hyper>>

-----------------------------------------------------------------------------
\* step_group_chunks_on_cpu: a chunk is sent ahead of the one to be stepped.
InCpuGroup == pc = "step" /\ mode = "cpu"
Ahead == IF stepped + 2 < Len(Chunks(group)) THEN stepped + 2 ELSE Len(Chunks(group))

\* _enqueue_d2h: the weights of the chunk before last have left the slot's
\* buffers, and the gradients of this one are queued into them.
\* Mutant: a slot is free when its event was taken, which is done on filling it.
FreeOnceTaken(slot) == ~h2d[slot].set
Free(slot) == Waited(h2d[slot])
EnqueueGradients ==
  LET k == queued + 1   slot == queued % 2
      copies == [i \in DOMAIN Chunk(k) |-> [to |-> "host", param |-> Chunk(k)[i], buf |-> Buffer(k, i), at |-> steps]]
  IN /\ InCpuGroup /\ queued < Ahead /\ Free(slot)
     /\ queued' = k /\ dma' = dma \o copies
     /\ d2h' = [d2h EXCEPT ![slot] = Record(dma')] /\ h2d' = [h2d EXCEPT ![slot] = NoEvent]
     /\ UNCHANGED <<mode, events, pc, steps, active, group, stepped, hyper, narrowed, master, weight, host, home, due>>

\* A queued transfer is made: the gradient is in the buffer, or the buffer's
\* content in the parameter.
Transfer(n) ==
  LET t == dma[n]
  IN /\ n \in DOMAIN dma /\ (~events => n = 1)
     /\ dma' = RemoveAt(dma, n)
     /\ IF t.to = "host"
        THEN /\ host' = [host EXCEPT ![t.buf] = {Update(t.param, t.at, 0)}] /\ UNCHANGED weight
        ELSE /\ weight' = [weight EXCEPT ![t.param] = host[t.buf]] /\ UNCHANGED host
     /\ UNCHANGED <<mode, events, pc, steps, active, group, queued, stepped, hyper, narrowed, master, d2h, h2d,
                    home, due>>

\* _get_or_bind_cpu_master: the master so far, made of the parameter the first time.
Bound(p) == IF master[p].bound THEN master[p].made ELSE weight[p]

\* _step_cpu_and_enqueue_h2d: once the gradients are in the buffers, AdamW
\* steps the masters, and the stepped weights are queued from the same buffers.
\* Mutant: only an event is waited for.
ArrivedAtEvent(slot) == Waited(d2h[slot])
SlotArrived(slot) == IF d2h[slot].set THEN Waited(d2h[slot]) ELSE dma = <<>>
StepMasters ==
  LET k == stepped + 1   slot == stepped % 2   chunk == Chunk(k)
      At(p) == CHOOSE i \in DOMAIN chunk : chunk[i] = p
      Made(p) == Bound(p) \cup {[u EXCEPT !.by = hyper] : u \in host[Buffer(k, At(p))]}
  IN /\ InCpuGroup /\ queued = Ahead /\ stepped < queued /\ SlotArrived(slot)
     /\ stepped' = k
     /\ master' = [p \in Params |-> IF p \in ToSet(chunk) THEN [bound |-> TRUE, made |-> Made(p)] ELSE master[p]]
     /\ host' = [b \in BufferKeys |-> IF \E i \in DOMAIN chunk : b = Buffer(k, i)
                                     THEN Made(chunk[b[2]]) ELSE host[b]]
     /\ dma' = dma \o [i \in DOMAIN chunk |-> [to |-> "device", param |-> chunk[i], buf |-> Buffer(k, i), at |-> steps]]
     /\ h2d' = [h2d EXCEPT ![slot] = Record(dma')] /\ d2h' = [d2h EXCEPT ![slot] = NoEvent]
     /\ UNCHANGED <<mode, events, pc, steps, active, group, queued, hyper, narrowed, weight, home, due>>

\* The group ends when both slots' weights have left and the device is done.
GroupDrained == (Chunks(group) # <<>>) => dma = <<>>
FinishCpuGroup ==
  /\ InCpuGroup /\ stepped = Len(Chunks(group)) /\ GroupDrained
  /\ h2d' = [s \in Slots |-> NoEvent]
  /\ EndGroup
  /\ UNCHANGED <<mode, events, steps, active, master, weight, host, dma, d2h, home, due>>

\* The CPU AdamW raises: the step is given up, with the param groups restored.
StepRaises ==
  /\ InCpuGroup /\ stepped < queued /\ queued = Ahead
  /\ pc' = "failed" /\ narrowed' = FALSE
  /\ UNCHANGED <<mode, events, steps, active, group, queued, stepped, hyper, master, weight, host, dma, d2h, h2d,
                 home, due>>

-----------------------------------------------------------------------------
\* On the device: the chunk's masters and states are moved there ...
OnDevice == mode \in {"device", "offload"}
MoveIn ==
  /\ pc = "step" /\ OnDevice /\ stepped < Len(Chunks(group))
  /\ pc' = "moved"
  /\ home' = [p \in Params |-> IF p \in ToSet(Chunk(stepped + 1)) THEN "device" ELSE home[p]]
  /\ UNCHANGED <<mode, events, steps, active, group, queued, stepped, hyper, narrowed, master, weight, host, dma,
                 d2h, h2d, due>>

\* ... stepped and synchronized, and moved out again.
HomeAfterStep(p) == IF mode = "offload" THEN "host" ELSE "device"
StepOnDevice ==
  LET chunk == ToSet(Chunk(stepped + 1))
      Made(p) == Bound(p) \cup {Update(p, steps, group)}
  IN /\ pc = "moved" /\ pc' = "step" /\ stepped' = stepped + 1
     /\ master' = [p \in Params |-> IF p \in chunk THEN [bound |-> TRUE, made |-> Made(p)] ELSE master[p]]
     /\ weight' = [p \in Params |-> IF p \in chunk THEN Made(p) ELSE weight[p]]
     /\ home' = [p \in Params |-> IF p \in chunk THEN HomeAfterStep(p) ELSE home[p]]
     /\ UNCHANGED <<mode, events, steps, active, group, queued, hyper, narrowed, host, dma, d2h, h2d, due>>

FinishDeviceGroup ==
  /\ pc = "step" /\ OnDevice /\ stepped = Len(Chunks(group))
  /\ EndGroup
  /\ UNCHANGED <<mode, events, steps, active, master, weight, host, dma, d2h, h2d, home, due>>

StepOn ==
  \/ EnqueueGradients \/ StepMasters \/ FinishCpuGroup
  \/ \E n \in DOMAIN dma : Transfer(n)
  \/ MoveIn \/ StepOnDevice \/ FinishDeviceGroup
StepNext == SkipStep \/ (\E A \in ActiveSets : BeginStep(A)) \/ StepOn \/ StepRaises
StepSpec == StepInit /\ [][StepNext]_stepvars

\* After a step every parameter, and its master, has had exactly the updates
\* of the steps in which it had a gradient, each of its own gradient and with
\* its group's hyperparameters: no transfer met a buffer that was in use for
\* another chunk.  The param groups are whole again.
StepsAreExact ==
  pc \in {"idle", "failed"} =>
    /\ ~narrowed
    /\ pc = "idle" => \A p \in Params : weight[p] = due[p] /\ (master[p].bound => master[p].made = due[p])
=============================================================================
