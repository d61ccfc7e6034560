-------------------------------- MODULE Jobs --------------------------------
(* The jobs and queues of the domains (migrations/027_system_configuration,   *)
(* generated/jobs.sql.go, queues.sql.go) and the workers these statements are  *)
(* for: a worker asks which jobs are due, runs one and writes when it is to    *)
(* run next.  No statement inserts a job log or a queue item, so the queries    *)
(* over those two tables are left out.                                         *)
EXTENDS Site

CONSTANTS JobIds, QueueIds, Workers,
          MaxDay          \* bound on the days that pass

VARIABLES jobs, queues, today,
          work,           \* what each worker is at
          ranToday,       \* ghost: how often each job ran today, up to twice
          disturbed       \* ghost: a worker ran a job that another had run since the first found it
                          \* due, or died between the run and UpdateJobLastRun

jobVars == <<siteVars, jobs, queues, today, work, ranToday, disturbed>>
working == <<today, work, ranToday, disturbed>>

Times == 0..MaxDay + 1

(* NULL is neither a time nor an id. *)
ASSUME JobsAssumption == /\ MaxDay \in Nat /\ NULL \notin Times /\ NULL \notin JobIds
                         /\ IsFiniteSet(JobIds) /\ IsFiniteSet(QueueIds)

Job == [domain_id : DomainIds, name : Names, schedule : {"daily", NULL}, is_active : Flag, next_run : Times \cup {NULL}]
Queue == [domain_id : DomainIds, name : Names, is_active : Flag]
Idle == [job |-> NULL, stage |-> "idle", stale |-> FALSE]
Work == [job : JobIds, stage : {"found", "ran"}, stale : BOOLEAN] \cup {Idle}

JobsTypeOK ==
  /\ IsTable(jobs, JobIds, Job) /\ IsTable(queues, QueueIds, Queue)
  /\ today \in 0..MaxDay /\ work \in [Workers -> Work]
  /\ ranToday \in [JobIds -> 0..2] /\ disturbed \in BOOLEAN

JobsOf(d) == {j \in DOMAIN jobs : jobs[j].domain_id = d}
QueuesOf(d) == {q \in DOMAIN queues : queues[q].domain_id = d}

(* What a worker knows of j is no longer so. *)
Outdated(f, j) == [w \in Workers |-> IF f[w].job = j THEN [f[w] EXCEPT !.stale = TRUE] ELSE f[w]]

-----------------------------------------------------------------------------
(* Jobs. *)

CreateJob(j, d, n, sch, act) ==
  /\ j \in JobIds \ DOMAIN jobs
  /\ d \in DOMAIN domains
  /\ jobs' = Insert(jobs, j, [domain_id |-> d, name |-> n, schedule |-> sch, is_active |-> act, next_run |-> NULL])
  /\ ranToday' = [ranToday EXCEPT ![j] = 0]
  /\ UNCHANGED <<siteVars, queues, today, work, disturbed>>

(* next_run keeps what it was under the former schedule. *)
UpdateJob(j, d, n, sch, act) ==
  /\ j \in JobsOf(d)
  /\ jobs' = [jobs EXCEPT ![j] = [domain_id |-> d, name |-> n, schedule |-> sch, is_active |-> act,
                                  next_run |-> jobs[j].next_run]]
  /\ UNCHANGED <<siteVars, queues, working>>

UpdateJobSchedule(j, d, sch) ==
  /\ j \in JobsOf(d)
  /\ jobs' = [jobs EXCEPT ![j].schedule = sch]
  /\ UNCHANGED <<siteVars, queues, working>>

UpdateJobStatus(j, d, act) ==
  /\ j \in JobsOf(d)
  /\ jobs' = [jobs EXCEPT ![j].is_active = act]
  /\ UNCHANGED <<siteVars, queues, working>>

(* A worker that is at a job that goes has an id that no job will have again. *)
DropJobs(J) ==
  /\ jobs' = Without(jobs, J)
  /\ work' = [w \in Workers |-> IF work[w].job \in J THEN Idle ELSE work[w]]

DeleteJob(j, d) ==
  /\ DropJobs({j} \cap JobsOf(d))
  /\ UNCHANGED <<siteVars, queues, today, ranToday, disturbed>>

DeleteJobsByDomain(d) ==
  /\ DropJobs(JobsOf(d))
  /\ UNCHANGED <<siteVars, queues, today, ranToday, disturbed>>

DeleteWorkingDomain(d) ==
  /\ DeleteDomain(d)
  /\ DropJobs(JobsOf(d))
  /\ queues' = Without(queues, QueuesOf(d))
  /\ UNCHANGED <<today, ranToday, disturbed>>

CreateWorkingDomain(d, n) ==
  /\ CreateDomain(d, n, TRUE)
  /\ UNCHANGED <<jobs, queues, working>>

-----------------------------------------------------------------------------
(* Workers. *)

GetJobsDueForExecution(d) ==
  {j \in JobsOf(d) : /\ jobs[j].is_active = TRUE /\ jobs[j].schedule # NULL
                     /\ jobs[j].next_run = NULL \/ jobs[j].next_run <= today}

(* The query marks nothing: the next worker that asks is given the same jobs. *)
FindDue(w, d) ==
  /\ work[w] = Idle
  /\ \E j \in GetJobsDueForExecution(d) : work' = [work EXCEPT ![w] = [job |-> j, stage |-> "found", stale |-> FALSE]]
  /\ UNCHANGED <<siteVars, jobs, queues, today, ranToday, disturbed>>

Run(w) ==
  /\ work[w].stage = "found" /\ ranToday[work[w].job] < 2
  /\ ranToday' = [ranToday EXCEPT ![work[w].job] = ranToday[work[w].job] + 1]
  /\ disturbed' = (disturbed \/ work[w].stale \/ \E v \in Workers : work[v].job = work[w].job /\ work[v].stage = "ran")
  /\ work' = [work EXCEPT ![w].stage = "ran"]
  /\ UNCHANGED <<siteVars, jobs, queues, today>>

(* A mutated form, which leaves the time of the next run. *)
UpdateJobLastRunOnly(w) ==
  /\ work[w].stage = "ran"
  /\ work' = Outdated([work EXCEPT ![w] = Idle], work[w].job)
  /\ UNCHANGED <<siteVars, jobs, queues, today, ranToday, disturbed>>

(* A mutated form, which writes the day after the next. *)
UpdateJobLastRunLate(w) ==
  /\ work[w].stage = "ran"
  /\ jobs' = [jobs EXCEPT ![work[w].job].next_run = today + 2]
  /\ work' = Outdated([work EXCEPT ![w] = Idle], work[w].job)
  /\ UNCHANGED <<siteVars, queues, today, ranToday, disturbed>>

(* The worker writes the time of the next run, the day after this one. *)
UpdateJobLastRun(w) ==
  /\ work[w].stage = "ran"
  /\ jobs' = [jobs EXCEPT ![work[w].job].next_run = today + 1]
  /\ work' = Outdated([work EXCEPT ![w] = Idle], work[w].job)
  /\ UNCHANGED <<siteVars, queues, today, ranToday, disturbed>>

(* A worker that dies after the run leaves the job due. *)
Die(w) ==
  /\ work[w] # Idle
  /\ disturbed' = (disturbed \/ work[w].stage = "ran")
  /\ work' = [work EXCEPT ![w] = Idle]
  /\ UNCHANGED <<siteVars, jobs, queues, today, ranToday>>

NextDay ==
  /\ today < MaxDay
  /\ today' = today + 1
  /\ ranToday' = [j \in JobIds |-> 0]
  /\ UNCHANGED <<siteVars, jobs, queues, work, disturbed>>

-----------------------------------------------------------------------------
(* Queues. *)

CreateQueue(q, d, n, act) ==
  /\ q \in QueueIds \ DOMAIN queues
  /\ d \in DOMAIN domains
  /\ queues' = Insert(queues, q, [domain_id |-> d, name |-> n, is_active |-> act])
  /\ UNCHANGED <<siteVars, jobs, working>>

UpdateQueue(q, d, n, act) ==
  /\ q \in QueuesOf(d)
  /\ queues' = [queues EXCEPT ![q] = [domain_id |-> d, name |-> n, is_active |-> act]]
  /\ UNCHANGED <<siteVars, jobs, working>>

UpdateQueueStatus(q, d, act) ==
  /\ q \in QueuesOf(d)
  /\ queues' = [queues EXCEPT ![q].is_active = act]
  /\ UNCHANGED <<siteVars, jobs, working>>

DeleteQueue(q, d) ==
  /\ queues' = Without(queues, {q} \cap QueuesOf(d))
  /\ UNCHANGED <<siteVars, jobs, working>>

DeleteQueuesByDomain(d) ==
  /\ queues' = Without(queues, QueuesOf(d))
  /\ UNCHANGED <<siteVars, jobs, working>>

-----------------------------------------------------------------------------
CountJobsByDomain(d) == Cardinality(JobsOf(d))
CountActiveJobsByDomain(d) == Cardinality({j \in JobsOf(d) : jobs[j].is_active = TRUE})
CountScheduledJobsByDomain(d) == Cardinality({j \in JobsOf(d) : jobs[j].schedule # NULL /\ jobs[j].is_active = TRUE})
GetJob(j) == DOMAIN jobs \cap {j}
GetJobByName(d, n) == {j \in JobsOf(d) : jobs[j].name = n}
ListJobsByDomain(d) == {j \in DOMAIN jobs : jobs[j].domain_id = d}
ListActiveJobsByDomain(d) == {j \in JobsOf(d) : jobs[j].is_active = TRUE}
ListScheduledJobs(d) == {j \in JobsOf(d) : jobs[j].schedule # NULL /\ jobs[j].is_active = TRUE}
ListAllJobs == {j \in DOMAIN jobs : jobs[j].domain_id \in DOMAIN domains}
(* The searches take the texts of their patterns: hits are the rows they match. *)
SearchJobs(hits) == {j \in hits \cap DOMAIN jobs : jobs[j].domain_id \in DOMAIN domains}

CountQueuesByDomain(d) == Cardinality(QueuesOf(d))
CountActiveQueuesByDomain(d) == Cardinality({q \in QueuesOf(d) : queues[q].is_active = TRUE})
GetQueue(q) == DOMAIN queues \cap {q}
GetQueueByName(d, n) == {q \in QueuesOf(d) : queues[q].name = n}
ListQueuesByDomain(d) == {q \in DOMAIN queues : queues[q].domain_id = d}
ListActiveQueuesByDomain(d) == {q \in QueuesOf(d) : queues[q].is_active = TRUE}
ListAllQueues == {q \in DOMAIN queues : queues[q].domain_id \in DOMAIN domains}
SearchQueues(hits) == {q \in hits \cap DOMAIN queues : queues[q].domain_id \in DOMAIN domains}

-----------------------------------------------------------------------------
JobsInit ==
  /\ jobs = NoRows /\ queues = NoRows /\ today = 0
  /\ work = [w \in Workers |-> Idle] /\ ranToday = [j \in JobIds |-> 0] /\ disturbed = FALSE

JobsNext ==
  \/ \E d \in DomainIds, n \in Names : CreateWorkingDomain(d, n) \/ DeleteWorkingDomain(d)
  \/ \E d \in DomainIds, n \in Names, sch \in {"daily", NULL}, j \in JobIds :
       \/ \E act \in Flags : CreateJob(j, d, n, sch, act) \/ UpdateJob(j, d, n, sch, act)
       \/ UpdateJobSchedule(j, d, sch) \/ DeleteJob(j, d)
  \/ \E d \in DomainIds, j \in JobIds, act \in Flags : UpdateJobStatus(j, d, act)
  \/ \E d \in DomainIds : DeleteJobsByDomain(d) \/ \E w \in Workers : FindDue(w, d)
  \/ \E w \in Workers : Run(w) \/ UpdateJobLastRun(w) \/ Die(w)
  \/ NextDay

QueuesNext ==
  \/ \E d \in DomainIds, n \in Names : CreateWorkingDomain(d, n) \/ DeleteWorkingDomain(d)
  \/ \E q \in QueueIds, d \in DomainIds, n \in Names, act \in Flags :
       CreateQueue(q, d, n, act) \/ UpdateQueue(q, d, n, act) \/ UpdateQueueStatus(q, d, act) \/ DeleteQueue(q, d)
  \/ \E d \in DomainIds : DeleteQueuesByDomain(d)

(* What is done to domains, settings and navigation deletes no domain here:   *)
(* for that the cascade above stands.                                         *)
SiteAround == SiteNext /\ DOMAIN domains \subseteq DOMAIN domains' /\ UNCHANGED <<jobs, queues, working>>

JobsSpec == SiteInit /\ JobsInit /\ [][JobsNext \/ QueuesNext \/ SiteAround]_jobVars

-----------------------------------------------------------------------------
(* Deleting a domain takes its jobs and queues along, whatever workers are at. *)
JobRefs ==
  /\ \A j \in DOMAIN jobs : jobs[j].domain_id \in DOMAIN domains
  /\ \A q \in DOMAIN queues : queues[q].domain_id \in DOMAIN domains
  /\ \A w \in Workers : work[w].job \in DOMAIN jobs \cup {NULL}

(* GetJobsDueForExecution (jobs.sql:99) claims nothing.  As long as no worker  *)
(* runs a job that another has run since the first found it due, and none      *)
(* dies between the run and UpdateJobLastRun, no job runs twice in a day,      *)
(* however it is rescheduled, disabled and enabled in between.                 *)
LoneWorkerOnce == disturbed \/ \A j \in JobIds : ranToday[j] <= 1

(* The inner joins with domains lose no job and no queue: the listings of all   *)
(* and the searches have those that the domains list, and what two domains      *)
(* count is no more than all of them.                                           *)
JobAnswersAgree ==
  /\ ListAllJobs = UNION {ListJobsByDomain(d) : d \in DOMAIN domains}
  /\ ListAllQueues = UNION {ListQueuesByDomain(d) : d \in DOMAIN domains}
  /\ \A d \in DomainIds : /\ SearchJobs(ListJobsByDomain(d)) = ListJobsByDomain(d)
                          /\ SearchQueues(ListQueuesByDomain(d)) = ListQueuesByDomain(d)
  /\ \A d, o \in DomainIds : d # o =>
       /\ CountJobsByDomain(d) + CountJobsByDomain(o) <= Cardinality(ListAllJobs)
       /\ CountQueuesByDomain(d) + CountQueuesByDomain(o) <= Cardinality(ListAllQueues)
=============================================================================
