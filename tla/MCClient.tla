---- MODULE MCClient ----
(***************************************************************************)
(* Two roles and three models.  The registry has been through a promotion  *)
(* that retained the old incumbent, through one that put it in quarantine, *)
(* or names a remote endpoint; the broker's configuration moves a backend  *)
(* to another machine, which the client's does not know.                   *)
(***************************************************************************)
EXTENDS Client

CONSTANTS alpha, beta, gamma

Role(model, fallback, rollback, quarantine, backend, side, kept) ==
    [model |-> model, fallback |-> fallback, rollback |-> rollback,
     quarantine |-> quarantine, backend |-> backend, side |-> side,
     kept |-> kept]

Nothing == [m \in {} |-> None]

MCTables ==
    {"chat" :> Role(alpha, beta, <<>>, {}, None, None, Nothing),
     "chat" :> Role(gamma, beta, <<alpha>>, {alpha}, "lmstudio", "local",
                    alpha :> [backend |-> "remote", side |-> "remote"]),
     "chat" :> Role(beta, alpha, <<gamma>>, {gamma}, None, "remote",
                    gamma :> [backend |-> "lmstudio", side |-> None])}

MCDefaults == "code" :> Role(beta, None, <<>>, {}, "mlx", None, Nothing)

Ends == "remote" :> "remote" @@ [x \in LocalBackends |-> "local"]

MCConfig == "client" :> [roles |-> Nothing, ends |-> Ends]
            @@ "broker" :> [roles |-> Nothing, ends |-> "lmstudio" :> "remote" @@ Ends]

MCRoleOrder == <<"code", "chat">>
MCInferred == alpha :> "ollama" @@ beta :> "mlx" @@ gamma :> "mlx"
====
