--------------------------- MODULE MCInterceptors ---------------------------
\* Instances of Interceptors for TLC: two batches that share an interceptor, as
\* two users of a preset do, and two interceptors of one global.
EXTENDS Interceptors

CONSTANTS all, some, fetch, http, again, xhr, source, connect, addRequest, fetchKey, response

AllInterceptors == {all, some, fetch, http, again, xhr, source}
Batches == {all, some}
Keys == {connect, addRequest, fetchKey}

child(x) == [do |-> "apply", child |-> x]
patch(keys) == [do |-> "patch", keys |-> keys]
forward == [do |-> "forward"]
bridge == [do |-> "bridge"]

Setups ==
  [x \in AllInterceptors |->
     CASE x = all    -> <<bridge, child(fetch), child(xhr), child(http)>>
       [] x = some   -> <<bridge, child(http), child(again)>>
       [] x = fetch  -> <<child(source), forward, patch(<<fetchKey>>)>>
       [] x = again  -> <<child(source), forward, patch(<<fetchKey>>)>>
       [] x = http   -> <<child(source), forward>>
       [] x = xhr    -> <<child(source), forward>>
       [] x = source -> <<patch(<<connect, addRequest>>)>>]

UnsupportedOnes == {xhr}
AddedListeners ==
  [x \in AllInterceptors |->
     CASE x = all -> 2 [] x \in {some, http} -> 1 [] OTHER -> 0]
Events == {response}
=============================================================================
