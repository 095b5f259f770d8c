------------------------- MODULE MCCoreSupervisor -------------------------
(***************************************************************************)
(* CoreSupervisor instantiated for TLC.                                    *)
(***************************************************************************)
EXTENDS CoreSupervisor, TLC

Cfg(role, core, layout, ports) ==
    [role |-> role, core |-> core, layout |-> layout, ports |-> ports]

\* A server, the same with another daemon port, and a client.
RoleConfigs ==
    {Cfg("Server", "fetched", "one", 1), Cfg("Server", "fetched", "one", 2),
     Cfg("Client", "fetched", "one", 1)}

\* One server config and the same with a user-set Core binary.
BinaryConfigs ==
    {Cfg("Server", "fetched", "one", 1), Cfg("Server", "override", "one", 1)}

ClientServer ==
    {Cfg("Server", "fetched", "one", 1), Cfg("Client", "fetched", "one", 1)}

ServerOnly == {Cfg("Server", "fetched", "one", 1)}

PidSymmetry == Permutations(Pids)
=============================================================================
