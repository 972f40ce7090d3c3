--------------------------- MODULE MCJsCallbacks ---------------------------
(* JsCallbacks for TLC: browsers, threads and functions are model values.  *)
EXTENDS JsCallbacks

\* What the author guide asks for (releases on the game thread, from a task or
\* a function), and a function on CEF's thread that closes its own browser.
Documented == ({Game} \X (Browsers \cup {NoBrowser}) \X Browsers)
                \cup {<<UI, b, b>> : b \in Browsers}

\* Consumers change the bindings of one browser only.
OneBrowser == {CHOOSE b \in Browsers : TRUE} \X Funcs
=============================================================================
