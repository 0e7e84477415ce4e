-------------------------- MODULE MCServerRequest --------------------------
(* One path and two names: enough for a receiver and a function to share  *)
(* a path, for a name to be a method, a function, a router handler or      *)
(* nothing, and for a request to find no service before any registration. *)
(* Two plugins, a rate limiter (a PostReadRequest plugin, like             *)
(* serverplugin's RedisRateLimitingPlugin) and one implementing every hook *)
(* the server uses, so that two plugins share a hook in either order.      *)
EXTENDS ServerRequest

MCPaths == {"Arith"}
MCNames == {"Mul", "Add"}
MCPlugins == {"RateLimit", "Trace"}
MCImplements == ("RateLimit" :> {"PostReadRequest"}) @@ ("Trace" :> Hooks)
============================================================================
