------------------------------- MODULE Hardware -------------------------------
(***************************************************************************)
(* DeviceManager and DeviceDriver of src/battousai/hal.py with a           *)
(* ComputeDevice and an ActuatorDevice.  The simulation moves on when a    *)
(* device is read.  What physics adds to readings is left out, and         *)
(* positions are whole steps.                                              *)
(***************************************************************************)
EXTENDS Naturals, FiniteSets, Sequences, SequencesExt

CONSTANTS
  MaxPosition,  \* max_position; min_position is 0
  Speed,        \* max_velocity * 0.1
  MaxTicks,     \* bound on the ticks a job needs
  MaxJobs       \* bound on the jobs of a device

HardwareAssumption ==
  MaxPosition \in Nat /\ Speed \in Nat /\ MaxTicks \in Nat /\ MaxJobs \in Nat

Devices == {"compute", "actuator"}

VARIABLES
  registered,  \* _devices of the manager
  state,       \* per device
  jobs,        \* _jobs of the compute device, in order
  position, target, moving  \* of the actuator

motion == <<position, target, moving>>
hardware == <<registered, state, jobs, motion>>

-----------------------------------------------------------------------------
(* Lifecycle                                                                *)

\* initialize and reset of each device bring it back to where it starts.
Restarted(ds) ==
  /\ state' = [d \in Devices |-> IF d \in ds THEN "READY" ELSE state[d]]
  /\ jobs' = IF "compute" \in ds THEN << >> ELSE jobs
  /\ IF "actuator" \in ds THEN position' = 0 /\ target' = 0 /\ moving' = FALSE
     ELSE UNCHANGED motion

\* register with or without auto_init; registering again starts over.
RegisterDevice(d) ==
  /\ registered' = registered \cup {d}
  /\ Restarted({d}) \/ UNCHANGED <<state, jobs, motion>>

UnregisterDevice(d) ==
  /\ registered' = registered \ {d}
  /\ UNCHANGED <<state, jobs, motion>>

\* A fault of the hardware, or the device is unplugged.
Fault(d) ==
  /\ \E s \in {"ERROR", "OFFLINE"} : state' = [state EXCEPT ![d] = s]
  /\ UNCHANGED <<registered, jobs, motion>>

Scan ==
  /\ Restarted({d \in registered : state[d] \in {"ERROR", "OFFLINE"}})
  /\ UNCHANGED registered

\* DeviceDriver: if the device is not ready all tries raise at once.
Drive(d, call) == state[d] = "READY" /\ call

-----------------------------------------------------------------------------
(* ComputeDevice                                                            *)

SubmitJob(ticks) ==
  /\ Len(jobs) < MaxJobs
  /\ jobs' = Append(jobs, [status |-> "QUEUED", needed |-> ticks, run |-> 0])
  /\ UNCHANGED motion

Indices(status) == {i \in DOMAIN jobs : jobs[i].status = status}

\* Mutant of First: the jobs that were submitted last.
LastTwo(queued) == {i \in queued : Cardinality({j \in queued : j > i}) < 2}

\* queued[:2]
First(queued) == {i \in queued : Cardinality({j \in queued : j < i}) < 2}

\* Jobs that run advance, then two more are started, however many run.
ReadCompute ==
  /\ jobs' = [i \in DOMAIN jobs |->
                IF i \in Indices("RUNNING")
                THEN [jobs[i] EXCEPT !.run = @ + 1,
                        !.status = IF jobs[i].run + 1 >= jobs[i].needed
                                   THEN "COMPLETED" ELSE @]
                ELSE IF i \in First(Indices("QUEUED"))
                THEN [jobs[i] EXCEPT !.status = "RUNNING"]
                ELSE jobs[i]]
  /\ UNCHANGED motion

-----------------------------------------------------------------------------
(* ActuatorDevice; set_speed changes nothing that read looks at.            *)

MoveTo(p) ==
  /\ target' = IF p < MaxPosition THEN p ELSE MaxPosition
  /\ moving' = TRUE
  /\ UNCHANGED <<position, jobs>>

Stop ==
  /\ target' = position
  /\ moving' = FALSE
  /\ UNCHANGED <<position, jobs>>

\* One step towards the target.  A move to where it is already never ends.
ReadActuator ==
  /\ IF ~moving \/ position = target THEN UNCHANGED motion
     ELSE /\ position' = IF target > position
                         THEN IF position + Speed > target THEN target
                              ELSE position + Speed
                         ELSE IF position < target + Speed THEN target
                              ELSE position - Speed
          /\ moving' = (position' # target)
          /\ UNCHANGED target
  /\ UNCHANGED jobs

-----------------------------------------------------------------------------
HardwareInit ==
  /\ registered = {}
  /\ state = [d \in Devices |-> "UNINITIALIZED"]
  /\ jobs = << >>
  /\ position = 0 /\ target = 0 /\ moving = FALSE

Compute ==
  /\ \/ Drive("compute", ReadCompute)
     \/ \E ticks \in 1 .. MaxTicks : Drive("compute", SubmitJob(ticks))
  /\ UNCHANGED <<registered, state>>

Actuator ==
  /\ \/ Drive("actuator", ReadActuator)
     \/ Drive("actuator", Stop)
     \/ \E p \in 0 .. MaxPosition + 1 : Drive("actuator", MoveTo(p))
  /\ UNCHANGED <<registered, state>>

HardwareNext ==
  \/ Scan \/ Compute \/ Actuator
  \/ \E d \in Devices : RegisterDevice(d) \/ UnregisterDevice(d) \/ Fault(d)

HardwareSpec == HardwareInit /\ [][HardwareNext]_hardware

-----------------------------------------------------------------------------
(***************************************************************************)
(* Jobs start in the order they came: no job waits while a later one runs  *)
(* or is done, and none is done before its ticks.  The actuator stays      *)
(* between its ends, and once it says it rests it is where it was sent;    *)
(* whatever faults, scans and registrations come between.                  *)
(***************************************************************************)
DevicesKeepOrder ==
  /\ \A i, j \in DOMAIN jobs :
       i < j /\ jobs[i].status = "QUEUED" => jobs[j].status = "QUEUED"
  /\ \A i \in DOMAIN jobs : (jobs[i].status = "COMPLETED") = (jobs[i].run = jobs[i].needed)
  /\ position \in 0 .. MaxPosition
  /\ ~moving => position = target
=============================================================================
