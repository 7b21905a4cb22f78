----------------------------- MODULE RcmServer -----------------------------
(***************************************************************************)
(* The server of remote commands.  A server thread takes messages from its *)
(* queue and executes them itself or hands them to a pool of workers; the  *)
(* messages of a job stream are handed over one at a time, the next when   *)
(* the one before is done.  Deleting the server joins its threads and      *)
(* returns what was not processed; a creation that fails on the way is      *)
(* undone by the same function.                                            *)
(*                                                                         *)
(* Modelled with MessageQ as the transport (USE_RPMESSAGE 0): the other    *)
(* build queues its one receive buffer by reference (line 2156), so it can *)
(* only execute in the server thread.                                      *)
(*                                                                         *)
(* Source: packages/ti/grcm/RcmServer.c                                    *)
(***************************************************************************)
EXTENDS Integers, Sequences, FiniteSets

CONSTANTS Pools,        \* the pools with workers; the default pool 0 has none
          PoolSize,     \* how many workers each has
          MaxJobs,      \* bound: the job ids given out
          MaxMessages   \* bound: the messages sent

ASSUME CountAssumption ==
  Pools \subseteq Nat \ {0} /\ PoolSize \in Nat /\ MaxJobs \in Nat /\ MaxMessages \in Nat

Discrete == 0   \* RcmClient_DISCRETEJOBID
Default  == 0   \* RcmClient_DEFAULTPOOLID: poolMap[0][0], whose count is 0
Workers  == Pools \X (1 .. PoolSize)
PoolOf   == [w \in Workers |-> w[1]]
Jobs     == 1 .. MaxJobs
Messages == 1 .. MaxMessages

VARIABLES
  inbox,     \* the messages in serverQue
  sent,      \* how many have been sent; a message's id is its number
  server,    \* the server thread: [pc, msg, final: it ends after this message]
  jobs,      \* jobList: jobs[j] = [listed, empty, que]
  lastJob,   \* obj->jobId
  ready,     \* each pool's readyQueue
  sem,       \* each pool's semaphore
  worker,    \* [pc, msg, terminate]
  deleter,   \* Instance_finalize: [pc, pools: those still to delete]
  answers,   \* answers[m]: how often m came back to its client or was freed, or Dropped
  last,      \* last[j]: the newest message of j that a worker has executed
  fault      \* memory that is not there, or freed, has been used

rcmVars == <<inbox, sent, server, jobs, lastJob, ready, sem, worker, deleter,
             answers, last, fault>>

Dropped == -1   \* processed, and neither came back nor was freed
NoMsg == [id |-> 0, kind |-> "none", pool |-> Default, job |-> Discrete]
NoJob == [listed |-> FALSE, empty |-> TRUE, que |-> <<>>]

RcmInit ==
  /\ inbox = <<>> /\ sent = 0
  /\ server = [pc |-> "gate", msg |-> NoMsg, final |-> FALSE]
  /\ jobs = [j \in Jobs |-> NoJob] /\ lastJob = Discrete
  /\ ready = [p \in Pools |-> <<>>] /\ sem = [p \in Pools |-> 0]
  /\ worker = [w \in Workers |-> [pc |-> "none", msg |-> NoMsg, terminate |-> FALSE]]
  /\ deleter = [pc |-> "no", pools |-> Pools]
  /\ answers = [m \in Messages |-> 0] /\ last = [j \in Jobs |-> 0]
  /\ fault = FALSE

Fault == fault' = TRUE /\ UNCHANGED <<inbox, sent, server, jobs, lastJob, ready, sem, worker,
                                      deleter, answers, last>>
Answer(m)   == answers' = [answers EXCEPT ![m] = @ + 1]
AnswerAll(q) == answers' = [m \in Messages |-> answers[m] + Cardinality({i \in DOMAIN q : q[i].id = m})]
ServerAt(pc) == server.pc = pc /\ ~fault
WorkerAt(w, pc) == worker[w].pc = pc /\ ~fault
ServerGoto(pc) == server' = [server EXCEPT !.pc = pc]
WorkerGoto(w, pc) == worker' = [worker EXCEPT ![w].pc = pc]
DeleterGoto(pc) == deleter' = [deleter EXCEPT !.pc = pc]

----------------------------------------------------------------------------
(* Instance_init_P.  Where it fails, finalize is called on what there is.  *)

\* The server thread does not exist: finalize does not wait for it.
Undo(pools) ==
  /\ server' = [server EXCEPT !.pc = "end"]
  /\ deleter' = [pc |-> "join", pools |-> pools]
  /\ UNCHANGED worker
Created == server.pc \notin {"gate", "table", "pools", "workers"}
\* The gate and the list of jobs: finalize takes from the list unasked.
InitList ==
  \/ ServerAt("gate") /\ Fault
  \/ /\ ServerAt("gate") /\ ServerGoto("table")
     /\ UNCHANGED <<inbox, sent, jobs, lastJob, ready, sem, worker, deleter, answers, last, fault>>
\* The static function table, when there are no pools yet.
InitTable ==
  /\ ServerAt("table")
  /\ (ServerGoto("pools") /\ UNCHANGED <<worker, deleter>>) \/ Undo({})
  /\ UNCHANGED <<inbox, sent, jobs, lastJob, ready, sem, answers, last, fault>>
\* The table of pools, whose length is set before it is allocated, its names and
\* its lists and semaphores, one pool after the other: finalize walks them all.
InitPools ==
  \/ ServerAt("pools") /\ Fault
  \/ /\ ServerAt("pools") /\ ServerGoto("workers")
     /\ UNCHANGED <<inbox, sent, jobs, lastJob, ready, sem, worker, deleter, answers, last, fault>>
\* Each worker; one that is on the list without a thread is joined all the same.
InitWorker ==
  /\ ServerAt("workers") /\ \E w \in Workers : worker[w].pc = "none"
  /\ \/ Fault
     \/ /\ \/ \E w \in Workers : worker[w].pc = "none" /\ WorkerGoto(w, "pend") /\ UNCHANGED <<server, deleter>>
           \/ Undo(Pools)
        /\ UNCHANGED <<inbox, sent, jobs, lastJob, ready, sem, answers, last, fault>>
\* The semaphore run, the queue and the server thread, which waits on run.
InitServer ==
  /\ ServerAt("workers") /\ \A w \in Workers : worker[w].pc # "none"
  /\ (ServerGoto("run") /\ UNCHANGED <<worker, deleter>>) \/ Undo(Pools)
  /\ UNCHANGED <<inbox, sent, jobs, lastJob, ready, sem, answers, last, fault>>
CreatorStep == InitList \/ InitTable \/ InitPools \/ InitWorker \/ InitServer

----------------------------------------------------------------------------
(* The clients. *)

\* A call goes to any pool, one that does not exist too, and belongs to a job that
\* was acquired, and perhaps released since, or to none; a job is acquired and
\* released in the default pool.  A message may have a type that process_P does not
\* list, or RcmClient_Desc_SYM_ADD, for which it does nothing ("other").
Calls    == [kind : {"call"}, pool : Pools \cup {Default, -1}, job : {Discrete}]
            \cup [kind : {"other"}, pool : Pools \cup {Default}, job : {Discrete}]
            \cup [kind : {"call"}, pool : Pools, job : 1 .. lastJob]
Acquires == [kind : {"acquire"}, pool : {Default}, job : {Discrete}]
Releases == [kind : {"release"}, pool : {Default}, job : 1 .. lastJob]

Send(m) ==
  /\ ~fault /\ sent < MaxMessages /\ Created /\ deleter.pc = "no"
  /\ sent' = sent + 1
  /\ inbox' = Append(inbox, [id |-> sent + 1, kind |-> m.kind, pool |-> m.pool, job |-> m.job])
  /\ UNCHANGED <<server, jobs, lastJob, ready, sem, worker, deleter, answers, last, fault>>

Start == /\ ServerAt("run") /\ ServerGoto("get")
         /\ UNCHANGED <<inbox, sent, jobs, lastJob, ready, sem, worker, deleter, answers, last, fault>>

----------------------------------------------------------------------------
(* The server thread. *)

Shutdown == deleter.pc # "no"

\* It is blocked in MessageQ_get until there is a message, or until it is
\* unblocked to shut down.
ServerGets ==
  /\ ServerAt("get")
  /\ IF inbox # <<>>
     THEN /\ server' = [pc |-> "have", msg |-> Head(inbox), final |-> Shutdown]
          /\ inbox' = Tail(inbox)
     ELSE Shutdown /\ ServerGoto("end") /\ UNCHANGED inbox
  /\ UNCHANGED <<sent, jobs, lastJob, ready, sem, worker, deleter, answers, last, fault>>

\* After a message taken while the server shuts down it ends.
GoOn == IF server.final THEN "end" ELSE "get"
Msg == server.msg
InBand == Msg.pool = Default

\* process_P: a message and a question for a symbol come back with their status, a
\* command that succeeds is freed.  Nothing is done with a message of another type:
\* its client waits for it in vain, and its memory is lost.
Process(m) ==
  answers' = [answers EXCEPT ![m.id] = IF m.kind = "other" THEN Dropped ELSE @ + 1]
\* The request for a job, or to release one, comes back with what came of it.
AnswerJob(m) == Answer(m)
\* A deferred call comes back first; a function that was not found is called too.
CallsUnfound == Fault

\* process_P in the server thread: a call,
ServerCalls ==
  /\ ServerAt("have") /\ InBand /\ Msg.kind \in {"call", "other"}
  /\ Process(Msg) /\ ServerGoto(GoOn)
  /\ UNCHANGED <<inbox, sent, jobs, lastJob, ready, sem, worker, deleter, last, fault>>
ServerCallsUnfound == ServerAt("have") /\ InBand /\ Msg.kind = "call" /\ CallsUnfound
\* acqJobId_P,
ServerAcquires ==
  /\ ServerAt("have") /\ Msg.kind = "acquire"
  /\ IF lastJob < MaxJobs
     THEN /\ lastJob' = lastJob + 1
          /\ jobs' = [jobs EXCEPT ![lastJob + 1] = [NoJob EXCEPT !.listed = TRUE]]
     ELSE UNCHANGED <<lastJob, jobs>>
  /\ AnswerJob(Msg.id) /\ ServerGoto(GoOn)
  /\ UNCHANGED <<inbox, sent, ready, sem, worker, deleter, last, fault>>
\* and relJobId_P: the job leaves the list,
ServerReleases ==
  /\ ServerAt("have") /\ Msg.kind = "release"
  /\ IF jobs[Msg.job].listed
     THEN /\ jobs' = [jobs EXCEPT ![Msg.job].listed = FALSE]
          /\ ServerGoto("return") /\ UNCHANGED answers
     ELSE /\ AnswerJob(Msg.id) /\ ServerGoto(GoOn) /\ UNCHANGED jobs
  /\ UNCHANGED <<inbox, sent, lastJob, ready, sem, worker, deleter, last, fault>>
\* then its pending messages go back unprocessed, and the request is answered.
ServerReturns ==
  /\ ServerAt("return")
  /\ LET q == jobs[Msg.job].que
     IN IF q # <<>>
        THEN /\ Answer(Head(q).id)
             /\ jobs' = [jobs EXCEPT ![Msg.job].que = Tail(q)]
             /\ UNCHANGED server
        ELSE AnswerJob(Msg.id) /\ ServerGoto(GoOn) /\ UNCHANGED jobs
  /\ UNCHANGED <<inbox, sent, lastJob, ready, sem, worker, deleter, last, fault>>

\* dispatch_P.  A mutant: the job's empty flag is not looked at.
WaitsAnyway(m) == FALSE
Waits(m) == m.job # Discrete /\ ~jobs[m.job].empty
Known(m) == m.pool \in Pools /\ (m.job # Discrete => jobs[m.job].listed)

ServerDispatches ==
  /\ ServerAt("have") /\ ~InBand /\ Known(Msg)
  /\ IF Waits(Msg)
     THEN /\ jobs' = [jobs EXCEPT ![Msg.job].que = Append(@, Msg)]
          /\ ServerGoto(GoOn) /\ UNCHANGED ready
     ELSE /\ jobs' = [j \in Jobs |-> IF j = Msg.job THEN [jobs[j] EXCEPT !.empty = FALSE] ELSE jobs[j]]
          /\ ready' = [ready EXCEPT ![Msg.pool] = Append(@, Msg)]
          /\ ServerGoto("post")
  /\ UNCHANGED <<inbox, sent, lastJob, sem, worker, deleter, answers, last, fault>>
ServerPosts ==
  /\ ServerAt("post")
  /\ sem' = [sem EXCEPT ![Msg.pool] = @ + 1]
  /\ ServerGoto(GoOn)
  /\ UNCHANGED <<inbox, sent, jobs, lastJob, ready, worker, deleter, answers, last, fault>>
\* No such pool, no such job: the message goes back.
ServerRefuses ==
  /\ ServerAt("have") /\ ~InBand /\ ~Known(Msg)
  /\ Answer(Msg.id) /\ ServerGoto(GoOn)
  /\ UNCHANGED <<inbox, sent, jobs, lastJob, ready, sem, worker, deleter, last, fault>>

ServerStep == ServerGets \/ ServerCalls \/ ServerCallsUnfound \/ ServerAcquires \/ ServerReleases \/ ServerReturns
              \/ ServerDispatches \/ ServerPosts \/ ServerRefuses
----------------------------------------------------------------------------
(* A worker. *)

WorkerPends(w) ==
  /\ WorkerAt(w, "pend") /\ sem[PoolOf[w]] > 0
  /\ sem' = [sem EXCEPT ![PoolOf[w]] = @ - 1]
  /\ WorkerGoto(w, "check")
  /\ UNCHANGED <<inbox, sent, server, jobs, lastJob, ready, deleter, answers, last, fault>>
\* It may be told to end, and may find that another has taken the message.
WorkerTakes(w) ==
  /\ WorkerAt(w, "check")
  /\ LET q == ready[PoolOf[w]]
     IN \/ worker[w].terminate /\ WorkerGoto(w, "end") /\ UNCHANGED ready
        \/ ~worker[w].terminate /\ q = <<>> /\ WorkerGoto(w, "pend") /\ UNCHANGED ready
        \/ /\ ~worker[w].terminate /\ q # <<>>
           /\ worker' = [worker EXCEPT ![w].pc = "process", ![w].msg = Head(q)]
           /\ ready' = [ready EXCEPT ![PoolOf[w]] = Tail(q)]
  /\ UNCHANGED <<inbox, sent, server, jobs, lastJob, sem, deleter, answers, last, fault>>
\* process_P: the function runs and the message goes back.
WorkerAnswers(w) ==
  /\ WorkerAt(w, "process")
  /\ Process(worker[w].msg)
  /\ last' = [j \in Jobs |-> IF j = worker[w].msg.job THEN worker[w].msg.id ELSE last[j]]
  /\ WorkerGoto(w, IF worker[w].msg.job = Discrete THEN "pend" ELSE "next")
  /\ UNCHANGED <<inbox, sent, server, jobs, lastJob, ready, sem, deleter, fault>>
WorkerCallsUnfound(w) == WorkerAt(w, "process") /\ worker[w].msg.kind = "call" /\ CallsUnfound

RunsEmpty(job) == [job EXCEPT !.empty = TRUE]

\* The next message of the job goes to its pool's ready queue.
WorkerQueuesNext(w) ==
  /\ WorkerAt(w, "next") /\ deleter.pc \in {"no", "join"}
  /\ LET j == worker[w].msg.job
         q == jobs[j].que
         p == Head(q).pool
     IN \/ ~jobs[j].listed /\ UNCHANGED <<jobs, ready, sem>>
        \/ jobs[j].listed /\ q = <<>> /\ jobs' = [jobs EXCEPT ![j] = RunsEmpty(@)] /\ UNCHANGED <<ready, sem>>
        \/ /\ jobs[j].listed /\ q # <<>>
           /\ jobs' = [jobs EXCEPT ![j].que = Tail(q)]
           /\ ready' = [ready EXCEPT ![p] = Append(@, Head(q))]
           /\ sem' = [sem EXCEPT ![p] = @ + 1]
  /\ WorkerGoto(w, "pend")
  /\ UNCHANGED <<inbox, sent, server, lastJob, deleter, answers, last, fault>>
\* finalize frees the jobs and their list before it joins the workers.
WorkerWalksDeletedList(w) ==
  /\ WorkerAt(w, "next") /\ deleter.pc \notin {"no", "join"}
  /\ Fault

WorkerStep(w) == WorkerPends(w) \/ WorkerTakes(w) \/ WorkerAnswers(w) \/ WorkerCallsUnfound(w) \/ WorkerQueuesNext(w)
                 \/ WorkerWalksDeletedList(w)
----------------------------------------------------------------------------
(* Instance_finalize, of a server that was started. *)

Delete ==
  /\ deleter.pc = "no" /\ Created /\ server.pc # "run" /\ ~fault
  /\ DeleterGoto("join")
  /\ UNCHANGED <<inbox, sent, server, jobs, lastJob, ready, sem, worker, answers, last, fault>>
\* The server thread is gone: what the jobs hold goes back, and the list is freed.
DeletesJobs ==
  /\ deleter.pc = "join" /\ ServerAt("end")
  /\ \/ \E j \in Jobs :
          /\ jobs[j].listed /\ \A k \in 1 .. j - 1 : ~jobs[k].listed
          /\ AnswerAll(jobs[j].que)
          /\ jobs' = [jobs EXCEPT ![j] = NoJob]
          /\ UNCHANGED deleter
     \/ /\ \A j \in Jobs : ~jobs[j].listed
        /\ DeleterGoto("pools") /\ UNCHANGED <<jobs, answers>>
  /\ UNCHANGED <<inbox, sent, server, lastJob, ready, sem, worker, last, fault>>

NextPool == CHOOSE p \in deleter.pools : \A q \in deleter.pools : p <= q
PoolWorkers(p) == {w \in Workers : PoolOf[w] = p /\ worker[w].pc # "none"}
\* A mutant: the semaphore is posted once, for all of them.
PostsOnce(p) == 1
Posts(p) == Cardinality(PoolWorkers(p))

Terminates ==
  /\ deleter.pc = "pools" /\ deleter.pools # {} /\ ~fault
  /\ worker' = [w \in Workers |-> [worker[w] EXCEPT !.terminate = @ \/ PoolOf[w] = NextPool]]
  /\ sem' = [sem EXCEPT ![NextPool] = @ + Posts(NextPool)]
  /\ DeleterGoto("workers")
  /\ UNCHANGED <<inbox, sent, server, jobs, lastJob, ready, answers, last, fault>>
\* The workers are joined, then the rest of the ready queue goes back.
DeletesPool ==
  /\ deleter.pc = "workers" /\ ~fault
  /\ \A w \in PoolWorkers(NextPool) : worker[w].pc = "end"
  /\ AnswerAll(ready[NextPool])
  /\ ready' = [ready EXCEPT ![NextPool] = <<>>]
  /\ deleter' = [pc |-> "pools", pools |-> deleter.pools \ {NextPool}]
  /\ UNCHANGED <<inbox, sent, server, jobs, lastJob, sem, worker, last, fault>>

DeleterStep == DeletesJobs \/ Terminates \/ DeletesPool
----------------------------------------------------------------------------
RcmNext == \/ \E m \in Calls \cup Acquires \cup Releases : Send(m)
        \/ CreatorStep \/ Start \/ Delete \/ ServerStep \/ DeleterStep
        \/ \E w \in Workers : WorkerStep(w)
RcmFairness == WF_rcmVars(ServerStep) /\ WF_rcmVars(DeleterStep) /\ \A w \in Workers : WF_rcmVars(WorkerStep(w))
RcmSpec == RcmInit /\ [][RcmNext]_rcmVars /\ RcmFairness

----------------------------------------------------------------------------
\* "The server will process all messages for a given job id in sequence"
\* (RcmClient.h:560): of those that go to the pools, one at a time and in the
\* order they were sent, whichever workers run.
JobsInSequence ==
  \A w \in Workers :
    WorkerAt(w, "process") /\ worker[w].msg.job # Discrete =>
      /\ worker[w].msg.id > last[worker[w].msg.job]
      /\ \A v \in Workers \ {w} : WorkerAt(v, "process") => worker[v].msg.job # worker[w].msg.job

\* A message that the server has taken comes back, and only once, whether it was
\* executed, refused, or returned when its job was released or the server deleted.
\* One of a type for which process_P does nothing is dropped when it is processed: the
\* property says that this is all that happens to it.
\* And a server that is deleted ends: no worker is left waiting (dispatch_P, process_P,
\* workerThrFxn_P, relJobId_P, Instance_finalize).  (The messages are finitely
\* many, and neither what is taken nor what is answered is taken back.)
AnsweredOnce == \A m \in Messages : answers[m] <= 1
InInbox(m) == \E i \in DOMAIN inbox : inbox[i].id = m
Finished(m) == answers[m] # 0 \/ fault
TakenIsAnswered == <>[](\A m \in Messages : sent >= m /\ ~InInbox(m) => Finished(m))
DeleteEnds == (deleter.pc # "no") ~> (deleter.pools = {} \/ fault)
RcmServerServes == []AnsweredOnce /\ TakenIsAnswered /\ DeleteEnds
=============================================================================
