---------------------------- MODULE MC_Services ----------------------------
(***************************************************************************)
(* The components around the file system and its stores, for TLC.  They    *)
(* share no state, so a behaviour here is one of a single component,       *)
(* chosen at the start, with the others at rest.                           *)
(***************************************************************************)
EXTENDS Logger, TokenCache, SleepPrevention, Watchdog, Fetcher, AppLifecycle,
        TLC

VARIABLE active

ServicesInit ==
  /\ active \in {"logger", "token", "sleep", "watchdog", "fetcher", "app"}
  /\ LoggerInit /\ TokenInit /\ SleepInit
  /\ WatchdogInit /\ FetcherInit /\ LifecycleInit

ServicesNext ==
  \/ active = "logger" /\ LoggerNext
     /\ UNCHANGED <<active, tokenVars, sleepVars, watchdogVars, fetcherVars,
                    lifecycleVars>>
  \/ active = "token" /\ TokenNext
     /\ UNCHANGED <<active, loggerVars, sleepVars, watchdogVars, fetcherVars,
                    lifecycleVars>>
  \/ active = "sleep" /\ SleepNext
     /\ UNCHANGED <<active, loggerVars, tokenVars, watchdogVars, fetcherVars,
                    lifecycleVars>>
  \/ active = "watchdog" /\ WatchdogNext
     /\ UNCHANGED <<active, loggerVars, tokenVars, sleepVars, fetcherVars,
                    lifecycleVars>>
  \/ active = "fetcher" /\ FetcherNext
     /\ UNCHANGED <<active, loggerVars, tokenVars, sleepVars, watchdogVars,
                    lifecycleVars>>
  \/ active = "app" /\ LifecycleNext
     /\ UNCHANGED <<active, loggerVars, tokenVars, sleepVars, watchdogVars,
                    fetcherVars>>

ServicesVars ==
  <<active, loggerVars, tokenVars, sleepVars, watchdogVars, fetcherVars,
    lifecycleVars>>

(* Of what the fairness demands, nothing can happen to a component at rest. *)
ServicesSpec ==
  /\ ServicesInit /\ [][ServicesNext]_ServicesVars
  /\ WatchdogFairness /\ FetcherFairness /\ LifecycleFairness

(* The state of every component has its type, the LRU order of the fetcher *)
(* its cache's chunks, and the table of operations those that run.         *)
ServicesTypeOK ==
  /\ LoggerTypeOK /\ TokenTypeOK /\ SleepTypeOK
  /\ WatchdogTypeOK /\ FetcherTypeOK /\ LifecycleTypeOK
=============================================================================
