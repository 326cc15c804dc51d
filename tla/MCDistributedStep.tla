-------------------------- MODULE MCDistributedStep --------------------------
(* Small distributed steps: worker w1 sends to w2, which returns the result. *)
EXTENDS DistributedStep, TLC

CONSTANTS w1, w2, e1, e2, e3, a, b, res

Relay ==
    [order |-> <<w1, w2>>, units |-> w1 :> {e1} @@ w2 :> {e2},
     ops |-> e1 :> <<<<"send", a>>>>
          @@ e2 :> <<<<"recv", a>>, <<"send", res>>>> @@ e3 :> << >>,
     src |-> a :> w1 @@ b :> w2 @@ res :> w2,
     dst |-> a :> w2 @@ b :> w2 @@ res :> w2,
     fetch |-> w1 :> NoKey @@ w2 :> res, feeds |-> {}, bad |-> {},
     fails |-> {}, dead |-> {}, crashes |-> {}, cuts |-> {}, closes |-> "no"]

(* One worker alone, with two executors.                                   *)
Single ==
    [Relay EXCEPT !.order = <<w2>>, !.units = w1 :> {} @@ w2 :> {e2, e3},
                  !.ops[e2] = <<<<"recv", b>>, <<"send", res>>>>,
                  !.ops[e3] = <<<<"send", b>>>>]

MCJobs ==
    { [Single EXCEPT !.closes = "yes", !.feeds = {w2}, !.dead = {res}],
      [Single EXCEPT !.fails = {e3}],
      [Relay EXCEPT !.fails = {e1}, !.order = <<w2, w1>>, !.fetch[w2] = NoKey],
      [Relay EXCEPT !.crashes = {w1}],
      [Relay EXCEPT !.crashes = {w2}, !.bad = {w2}],
      [Single EXCEPT !.cuts = {RunCall(w2)}],
      [Relay EXCEPT !.bad = {w1}] }

(* The sender's request is refused, perhaps before the receiver's is made. *)
RefusedSender == {[Relay EXCEPT !.bad = {w1}, !.closes = "yes"]}
=============================================================================
