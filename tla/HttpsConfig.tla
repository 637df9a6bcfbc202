----------------------------- MODULE HttpsConfig -----------------------------
(***************************************************************************)
(* The limits of an HttpsServer, as load_limits_from_config derives them   *)
(* from the configuration, the limit on open files and the memory of the   *)
(* machine.                                                                *)
(*                                                                         *)
(* An int holds -Half .. Half - 1.  The product fd_limit * 8 is an int; a  *)
(* signed overflow is undefined, and the builds wrap around.  The sizes of *)
(* memory are computed in 64 bits, which are enough for every int of MB.   *)
(***************************************************************************)
EXTENDS Integers, FiniteSetsExt

CONSTANTS
    Half,                    \* the number of non-negative ints
    Infinity, Failed,        \* RLIM_INFINITY; getrlimit failed
    FdUnknown, FdUnlimited,  \* the limit assumed then
    Rlimits, Memories,       \* inputs: limits on open files, MB of memory
    ConnSettings, Sizes,     \* inputs: values of the settings (0: not set)
    MB,                      \* bytes in a megabyte
    MinBody, MaxBodyCap, MinHeader, MaxHeaderCap

VARIABLES
    machine,  \* rlim_cur, rlim_max, megabytes of memory
    setting,  \* protocol.max_*, and protocol.max_*_testing
    limits    \* max_connections_, max_body_size_, max_header_size_

vars == <<machine, setting, limits>>

NoLimits == [conn |-> 0, body |-> 0, header |-> 0]
-----------------------------------------------------------------------------
(* A variant with a plausible slip: the share is not divided.              *)

WholeShare(ram, pct, conn) == (ram * MB * pct) \div 100
-----------------------------------------------------------------------------
Wrap(n) == ((n + Half) % (2 * Half)) - Half

\* Division of ints, towards zero.
Quotient(n, d) == IF n >= 0 THEN n \div d ELSE -((-n) \div d)

\* platform::get_fd_limit, with its casts to int.
FdLimit(m) ==
    IF m.cur = Failed THEN FdUnknown
    ELSE IF m.cur # Infinity THEN Wrap(m.cur)
    ELSE IF m.max # Infinity THEN Wrap(m.max) ELSE FdUnlimited

\* fd_limit * 8 / 10
DerivedConnections(fd) == Quotient(Wrap(fd * 8), 10)

Clamped(n, low, high) == Min({Max({n, low}), high})

\* The share of pct per cent of the memory that each connection may use.
PerConnection(ram, pct, conn) ==
    Quotient(Quotient(ram * MB * pct, 100), IF conn <= 0 THEN 1 ELSE conn)

ComputeMaxBodySize(ram, conn) == Clamped(PerConnection(ram, 25, conn), MinBody, MaxBodyCap)
ComputeMaxHeaderSize(ram, conn) == Clamped(PerConnection(ram, 1, conn), MinHeader, MaxHeaderCap)

\* The testing override, the setting, or what was derived.
Chosen(testing, set, derived) ==
    IF testing > 0 THEN testing ELSE IF set > 0 THEN set ELSE derived

Init ==
    /\ machine \in [cur : Rlimits \cup {Infinity, Failed}, max : Rlimits \cup {Infinity}, ram : Memories]
    /\ machine.cur # Infinity => machine.max = Infinity
    /\ setting \in [conn : ConnSettings, connTesting : ConnSettings,
                    body : Sizes, bodyTesting : Sizes, header : Sizes, headerTesting : Sizes]
    /\ limits = NoLimits

LoadLimits ==
    /\ limits = NoLimits
    /\ LET s == setting
           conn == Chosen(s.connTesting, s.conn, DerivedConnections(FdLimit(machine)))
       IN  limits' = [conn |-> conn,
                      body |-> Chosen(s.bodyTesting, s.body, ComputeMaxBodySize(machine.ram, conn)),
                      header |-> Chosen(s.headerTesting, s.header,
                                        ComputeMaxHeaderSize(machine.ram, conn))]
    /\ UNCHANGED <<machine, setting>>

Loaded == limits # NoLimits /\ UNCHANGED vars

Next == LoadLimits \/ Loaded

Spec == Init /\ [][Next]_vars
-----------------------------------------------------------------------------
(* Properties.                                                             *)

\* No setting and no override is in force.
Derived == \A k \in DOMAIN setting : setting[k] = 0

\* With derived limits the buffers of all the connections together stay
\* within the memory set aside for them, unless the smallest useful size is
\* already too much; and a request always gets at least that size.
MemoryBudgetKept ==
    limits # NoLimits /\ Derived =>
        /\ limits.body \in MinBody..MaxBodyCap /\ limits.header \in MinHeader..MaxHeaderCap
        /\ limits.body > MinBody => 100 * limits.conn * limits.body <= 25 * machine.ram * MB
        /\ limits.header > MinHeader => 100 * limits.conn * limits.header <= machine.ram * MB

\* README, "Auto-derivation rules": "max_connections = RLIMIT_NOFILE x 0.8",
\* here for every limit an int can hold.
ConnectionsAsDocumented ==
    limits # NoLimits /\ Derived /\ machine.cur \in Rlimits /\ machine.cur < Half =>
        limits.conn = (machine.cur * 8) \div 10
===============================================================================
