-------------------------- MODULE MCAlertMatcher --------------------------
EXTENDS AlertMatcher

Alert(name, part) == [alertname |-> name, part_of |-> part, severity |-> "warning", namespace |-> "ns"]

ActiveAlerts == {Alert("FooAlert", "foos"), Alert("FooAlert", "bars"), Alert("BarAlert", "bars")}

\* Several values of a label, several labels, and two selectors, as in the tests
\* of the package and in the configuration of the deployment
SelectorLists == {
    <<[alertname |-> <<"FooAlert">>, part_of |-> <<"foos", "bars">>]>>,
    <<[alertname |-> <<"BazAlert", "BarAlert">>, part_of |-> <<"bars">>], [part_of |-> <<"foos">>]>>,
    <<[alertname |-> <<"FooAlert">>, no_such_label |-> <<"value">>], [alertname |-> <<"FooAlert">>]>>}

\* Two values of a label that is exported, and a second label
TwoValues == {<<[alertname |-> <<"FooAlert">>, part_of |-> <<"foos", "bars">>]>>}

\* An alert for each value, only one of which has the name
OneSelected == {Alert("FooAlert", "foos"), Alert("BarAlert", "bars")}
=============================================================================
