--------------------------- MODULE MCPageBindings ---------------------------
(* PageBindings for TLC: one plain function and one promise function.      *)
EXTENDS PageBindings

\* Either the consumer's loads clear, or the page navigates by itself.
Apart == {{"clear"}, {"navigate"}}
\* For CachedUrlIsLoaded and the clearing case of the README: both.
Together == {{"clear", "navigate"}}
=============================================================================
