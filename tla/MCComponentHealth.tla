------------------------- MODULE MCComponentHealth -------------------------
EXTENDS ComponentHealth

\* The control plane as it is in the configuration of the deployment, with one
\* operator configured
controlPlane == <<"control-plane">>
etcd == OperatorComponent("etcd")

Tree == {controlPlane, ControlPlaneOperators, etcd}

ClusterOperators == {"etcd", "dns"}

\* A label expression selects the operator of etcd, which is added by name,
\* too.
Selected(o) == [name |-> "", matches |-> {o}]

ObjectQueries == [c \in Tree |-> IF c = etcd THEN <<Selected("etcd")>> ELSE <<>>]

NoneOrWarning == {{}, {Warning}}

StatusesOf == "etcd" :> {OK, Error} @@ "dns" :> {OK}

AlertComponents == {etcd}
=============================================================================
