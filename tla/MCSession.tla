----------------------------- MODULE MCSession ------------------------------
(* What a client does with a workspace that is up, one part at a time: the     *)
(* tunnel is built, ports are forwarded, credentials are served.  The parts    *)
(* that are not looked at are over, or were never begun: they take no steps,   *)
(* and no fair action of theirs is enabled.                                    *)
EXTENDS Tunnels, PortForwards, ContainerCredentials

VARIABLE part   \* the part that is looked at

sessionVars == <<part, tunnelVars, portVars, credVars>>

TunnelOver ==
    /\ form = "direct" /\ caller = "returned" /\ outer = "ended" /\ inner = "ended"
    /\ session = "ok" /\ nested = "none" /\ refresh = "none" /\ errs = << >>
    /\ cancelled = TRUE /\ result = FALSE /\ wsLock = FALSE /\ silent = FALSE
    /\ ret = "ok" /\ tunnelFaults = 0

PortsOver ==
    /\ open = {} /\ changes = 0 /\ gen = 1
    /\ watched = {} /\ pass = NoPass /\ portMap = {} /\ starting = {} /\ stopped = {}
    /\ listener = [p \in Ports |-> Free] /\ refused = {}
    /\ conns = 0 /\ made = 0 /\ generation = 1 /\ timers = {} /\ exited = {<<1, 0>>}

CredentialsUnused == CredInit /\ gitcfg = Empty

PartInit ==
    /\ IF part = "tunnel" THEN TunnelInit ELSE TunnelOver
    /\ IF part = "ports" THEN PortInit ELSE PortsOver
    /\ IF part = "credentials" THEN CredInit ELSE CredentialsUnused

SessionInit ==
    part \in {"tunnel", "ports", "credentials"} /\ PartInit

SessionNext ==
    /\ part' = part
    /\ \/ /\ part = "tunnel" /\ TunnelNext
          /\ UNCHANGED <<portVars, credVars>>
       \/ /\ part = "ports" /\ PortNext
          /\ UNCHANGED <<tunnelVars, credVars>>
       \/ /\ part = "credentials" /\ CredNext
          /\ UNCHANGED <<tunnelVars, portVars>>

SessionSpec ==
    /\ SessionInit /\ [][SessionNext]_sessionVars
    /\ TunnelFairness /\ PortFairness
=============================================================================
