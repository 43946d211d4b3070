----------------------------- MODULE MCStartup -----------------------------
(* The unit and one client.  Environments and command lines are those that *)
(* differ in what a launch comes to.                                       *)
EXTENDS Startup

Env(transport, token, host, port) ==
    [transport |-> transport, token |-> token, host |-> host, port |-> port]

MCEnvironments ==
    {Env("stdio", "unset", "127.0.0.1", "8765"),    \* .env.example
     Env("http",  "tok",   "127.0.0.1", "8765"),
     Env("http",  "blank", "127.0.0.1", "8765"),
     Env("http",  "tok",   "[::1]",     "8765"),
     Env("http",  "tok",   "elsewhere", "8765"),
     Env("stdio", "unset", "127.0.0.1", "name"),
     Env("stdio", "unset", "",          "8765")}

MCArguments ==
    {NoArguments,
     [NoArguments EXCEPT !.transport = "stdio"],
     [NoArguments EXCEPT !.transport = "http", !.token = "tok"],
     [NoArguments EXCEPT !.transport = "http", !.token = ""],
     [NoArguments EXCEPT !.port = "8766"],
     [NoArguments EXCEPT !.port = "name"]}
=============================================================================
