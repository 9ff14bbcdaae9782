----------------------------- MODULE NetworkRows -----------------------------
(*****************************************************************************)
(* Networks, load balancers, DNS and CDN                                     *)
(*****************************************************************************)
EXTENDS ResourceRow

VpcNetworkArguments == Arguments({"folder_id"}, {"name", "description", "labels"})
VpcNetworkCreate == Accepted(All(VpcNetworkArguments))

(* Variant: a network that is gone is an error.                            *)
VpcNetworkReadStrict == ReadsExisting(All(VpcNetworkArguments))

VpcNetworkRead == Reads(All(VpcNetworkArguments))
VpcNetworkUpdate == Partial(<<Patch(VpcNetworkArguments.inPlace)>>)
VpcNetworkDelete == Tolerant
VpcNetwork ==
    Resource(VpcNetworkArguments, VpcNetworkCreate, VpcNetworkRead, VpcNetworkUpdate,
             VpcNetworkDelete)

VpcSubnetArguments ==
    Arguments(
        {"network_id", "folder_id", "zone"},
        {"v4_cidr_blocks", "name", "description", "labels", "route_table_id",
         "dhcp_options"})
VpcSubnetCreate == Accepted(All(VpcSubnetArguments))
VpcSubnetRead == Reads(All(VpcSubnetArguments))
VpcSubnetUpdate == Partial(<<Patch(VpcSubnetArguments.inPlace)>>)
VpcSubnetDelete == Tolerant
VpcSubnet ==
    Resource(VpcSubnetArguments, VpcSubnetCreate, VpcSubnetRead, VpcSubnetUpdate,
             VpcSubnetDelete)

VpcGatewayArguments ==
    Arguments({"folder_id", "shared_egress_gateway"}, {"name", "description", "labels"})
VpcGatewayCreate == Accepted(All(VpcGatewayArguments))
VpcGatewayRead == Reads(All(VpcGatewayArguments))
VpcGatewayUpdate == Partial(<<Patch(VpcGatewayArguments.inPlace)>>)
VpcGatewayDelete == Tolerant
VpcGateway ==
    Resource(VpcGatewayArguments, VpcGatewayCreate, VpcGatewayRead, VpcGatewayUpdate,
             VpcGatewayDelete)

VpcAddressArguments ==
    Arguments(
        {"folder_id", "external_ipv4_address"},
        {"name", "description", "labels", "deletion_protection", "dns_record"})
VpcAddressCreate == Accepted(All(VpcAddressArguments))
VpcAddressRead == Reads(All(VpcAddressArguments))
VpcAddressUpdate == Partial(<<Patch(VpcAddressArguments.inPlace)>>)
VpcAddressDelete == Tolerant
VpcAddress ==
    Resource(VpcAddressArguments, VpcAddressCreate, VpcAddressRead, VpcAddressUpdate,
             VpcAddressDelete)

VpcRouteTableArguments ==
    Arguments(
        {"network_id", "folder_id"},
        {"name", "description", "labels", "static_route"})
VpcRouteTableCreate == Accepted(All(VpcRouteTableArguments))
VpcRouteTableRead == Reads(All(VpcRouteTableArguments))
VpcRouteTableUpdate == Partial(<<Patch(VpcRouteTableArguments.inPlace)>>)
VpcRouteTableDelete == Tolerant
VpcRouteTable ==
    Resource(VpcRouteTableArguments, VpcRouteTableCreate, VpcRouteTableRead,
             VpcRouteTableUpdate, VpcRouteTableDelete)

VpcPrivateEndpointArguments ==
    Arguments(
        {"folder_id", "network_id"},
        {"name", "description", "labels", "endpoint_address", "dns_options"})
VpcPrivateEndpointCreate == Accepted(All(VpcPrivateEndpointArguments))
VpcPrivateEndpointRead == Reads(All(VpcPrivateEndpointArguments))
VpcPrivateEndpointUpdate == Partial(<<Patch(VpcPrivateEndpointArguments.inPlace)>>)
VpcPrivateEndpointDelete == Tolerant
VpcPrivateEndpoint ==
    Resource(VpcPrivateEndpointArguments, VpcPrivateEndpointCreate, VpcPrivateEndpointRead,
             VpcPrivateEndpointUpdate, VpcPrivateEndpointDelete)

(* The rules are compared with those of the group and replaced by one      *)
(* call.                                                                   *)
VpcSecurityGroupArguments ==
    Arguments(
        {"network_id", "folder_id"},
        {"name", "description", "labels", "ingress", "egress"})
VpcSecurityGroupCreate == Accepted(All(VpcSecurityGroupArguments))
VpcSecurityGroupRead == Reads(All(VpcSecurityGroupArguments))
VpcSecurityGroupUpdate ==
    Partial(<<Patch({"name", "description", "labels"}), Put({"ingress", "egress"})>>)
VpcSecurityGroupDelete == Tolerant
VpcSecurityGroup ==
    Resource(VpcSecurityGroupArguments, VpcSecurityGroupCreate, VpcSecurityGroupRead,
             VpcSecurityGroupUpdate, VpcSecurityGroupDelete)

(* The network has made the group; Create takes it over and Delete lets it *)
(* go. The folder is that of the network.                                  *)
VpcDefaultSecurityGroupArguments ==
    Arguments({"network_id", "folder_id"}, {"description", "labels", "ingress", "egress"})
VpcDefaultSecurityGroupCreate ==
    Adopted(All(VpcDefaultSecurityGroupArguments) \ {"folder_id"})
VpcDefaultSecurityGroupRead == Reads(All(VpcDefaultSecurityGroupArguments))
VpcDefaultSecurityGroupUpdate ==
    Planned(<<Patch({"description", "labels"}), Put({"ingress", "egress"})>>)
VpcDefaultSecurityGroupDelete == Forgetful
VpcDefaultSecurityGroup ==
    Resource(VpcDefaultSecurityGroupArguments, VpcDefaultSecurityGroupCreate,
             VpcDefaultSecurityGroupRead, VpcDefaultSecurityGroupUpdate,
             VpcDefaultSecurityGroupDelete)

LbTargetGroupArguments ==
    Arguments({"folder_id"}, {"name", "region_id", "target", "description", "labels"})
LbTargetGroupCreate == Accepted(All(LbTargetGroupArguments))
LbTargetGroupRead == Reads(All(LbTargetGroupArguments))
LbTargetGroupUpdate ==
    Planned(
        <<PutOn(
              LbTargetGroupArguments.inPlace,
              LbTargetGroupArguments.inPlace \ {"region_id"})>>)
LbTargetGroupDelete == Tolerant
LbTargetGroup ==
    Resource(LbTargetGroupArguments, LbTargetGroupCreate, LbTargetGroupRead,
             LbTargetGroupUpdate, LbTargetGroupDelete)

LbNetworkLoadBalancerArguments ==
    Arguments(
        {"folder_id"},
        {"name", "description", "region_id", "type", "labels", "listener",
         "attached_target_group", "deletion_protection", "allow_zonal_shift"})
LbNetworkLoadBalancerCreate == Accepted(All(LbNetworkLoadBalancerArguments))
LbNetworkLoadBalancerRead == Reads(All(LbNetworkLoadBalancerArguments))
LbNetworkLoadBalancerUpdate ==
    Planned(
        <<PutOn(
              LbNetworkLoadBalancerArguments.inPlace,
              LbNetworkLoadBalancerArguments.inPlace \ {"region_id", "type"})>>)
LbNetworkLoadBalancerDelete == Tolerant
LbNetworkLoadBalancer ==
    Resource(LbNetworkLoadBalancerArguments, LbNetworkLoadBalancerCreate,
             LbNetworkLoadBalancerRead, LbNetworkLoadBalancerUpdate,
             LbNetworkLoadBalancerDelete)

AlbTargetGroupArguments ==
    Arguments({"folder_id"}, {"name", "description", "labels", "target"})
AlbTargetGroupCreate == Accepted(All(AlbTargetGroupArguments))
AlbTargetGroupRead == Reads(All(AlbTargetGroupArguments))
AlbTargetGroupUpdate == Planned(<<Put(AlbTargetGroupArguments.inPlace)>>)
AlbTargetGroupDelete == Tolerant
AlbTargetGroup ==
    Resource(AlbTargetGroupArguments, AlbTargetGroupCreate, AlbTargetGroupRead,
             AlbTargetGroupUpdate, AlbTargetGroupDelete)

AlbBackendGroupArguments ==
    Arguments(
        {"folder_id"},
        {"name", "description", "labels", "session_affinity", "http_backend",
         "stream_backend", "grpc_backend"})
AlbBackendGroupCreate == Accepted(All(AlbBackendGroupArguments))
AlbBackendGroupRead == Reads(All(AlbBackendGroupArguments))
AlbBackendGroupUpdate == Planned(<<Put(AlbBackendGroupArguments.inPlace)>>)
AlbBackendGroupDelete == Tolerant
AlbBackendGroup ==
    Resource(AlbBackendGroupArguments, AlbBackendGroupCreate, AlbBackendGroupRead,
             AlbBackendGroupUpdate, AlbBackendGroupDelete)

(* The update mask has no path for route_options.                          *)
AlbHttpRouterArguments ==
    Arguments({"folder_id"}, {"name", "description", "labels", "route_options"})
AlbHttpRouterCreate == Accepted(All(AlbHttpRouterArguments))
AlbHttpRouterRead == Reads(All(AlbHttpRouterArguments))
AlbHttpRouterUpdate ==
    Planned(
        <<PatchOn(
              AlbHttpRouterArguments.inPlace,
              AlbHttpRouterArguments.inPlace \ {"route_options"})>>)
AlbHttpRouterDelete == Tolerant
AlbHttpRouter ==
    Resource(AlbHttpRouterArguments, AlbHttpRouterCreate, AlbHttpRouterRead,
             AlbHttpRouterUpdate, AlbHttpRouterDelete)

(* Read and Update restore http_router_id and name from the id             *)
(* (provider.go), so a change of them is never sent.                       *)
AlbVirtualHostArguments ==
    Arguments(
        {},
        {"http_router_id", "name", "authority", "modify_request_headers",
         "modify_response_headers", "rate_limit", "route", "route_options"})
AlbVirtualHostCreate == Accepted(All(AlbVirtualHostArguments))
AlbVirtualHostRead == Reads(All(AlbVirtualHostArguments))
AlbVirtualHostUpdate ==
    Planned(
        <<PutOn(
              AlbVirtualHostArguments.inPlace,
              AlbVirtualHostArguments.inPlace \ {"http_router_id", "name"})>>)
AlbVirtualHostDelete == Tolerant
AlbVirtualHost ==
    Resource(AlbVirtualHostArguments, AlbVirtualHostCreate, AlbVirtualHostRead,
             AlbVirtualHostUpdate, AlbVirtualHostDelete)

AlbLoadBalancerArguments ==
    Arguments(
        {"folder_id", "region_id", "network_id"},
        {"name", "description", "labels", "security_group_ids", "allow_zonal_shift",
         "allocation_policy", "log_options", "listener"})
AlbLoadBalancerCreate == Accepted(All(AlbLoadBalancerArguments))
AlbLoadBalancerRead == Reads(All(AlbLoadBalancerArguments))
AlbLoadBalancerUpdate == Planned(<<Put(AlbLoadBalancerArguments.inPlace)>>)
AlbLoadBalancerDelete == Tolerant
AlbLoadBalancer ==
    Resource(AlbLoadBalancerArguments, AlbLoadBalancerCreate, AlbLoadBalancerRead,
             AlbLoadBalancerUpdate, AlbLoadBalancerDelete)

(* A change of public replaces the zone (zoneVisibilityChanged); that of   *)
(* private_networks on a public zone, too, is left out.                    *)
DnsZoneArguments ==
    Arguments(
        {"zone", "folder_id", "public"},
        {"name", "description", "labels", "private_networks", "deletion_protection"})
DnsZoneCreate == Accepted(All(DnsZoneArguments))
DnsZoneRead == Reads(All(DnsZoneArguments))
DnsZoneUpdate == Planned(<<Put(DnsZoneArguments.inPlace)>>)
DnsZoneDelete == Tolerant
DnsZone ==
    Resource(DnsZoneArguments, DnsZoneCreate, DnsZoneRead, DnsZoneUpdate, DnsZoneDelete)

DnsRecordSetArguments == Arguments({"zone_id", "name", "type"}, {"ttl", "data"})
DnsRecordSetCreate == Done(All(DnsRecordSetArguments))
DnsRecordSetRead == Reads({"ttl", "data"})
DnsRecordSetUpdate == Planned(<<Put(DnsRecordSetArguments.inPlace)>>)
DnsRecordSetDelete == Exacting
DnsRecordSet ==
    Resource(DnsRecordSetArguments, DnsRecordSetCreate, DnsRecordSetRead,
             DnsRecordSetUpdate, DnsRecordSetDelete)

CdnOriginGroupArguments == Arguments({"folder_id"}, {"name", "use_next", "origin"})
CdnOriginGroupCreate == Accepted(All(CdnOriginGroupArguments))
CdnOriginGroupRead == Reads(All(CdnOriginGroupArguments))
CdnOriginGroupUpdate == Planned(<<Patch(CdnOriginGroupArguments.inPlace)>>)
CdnOriginGroupDelete == Tolerant
CdnOriginGroup ==
    Resource(CdnOriginGroupArguments, CdnOriginGroupCreate, CdnOriginGroupRead,
             CdnOriginGroupUpdate, CdnOriginGroupDelete)

CdnResourceArguments ==
    Arguments(
        {"folder_id"},
        {"cname", "labels", "active", "secondary_hostnames", "origin_protocol",
         "origin_group_id", "ssl_certificate", "options"})
CdnResourceCreate == Accepted(All(CdnResourceArguments))
CdnResourceRead == Reads(All(CdnResourceArguments))
CdnResourceUpdate ==
    Refusing({"cname"}, Planned(<<Patch(CdnResourceArguments.inPlace \ {"cname"})>>))
CdnResourceDelete == Tolerant
CdnResource ==
    Resource(CdnResourceArguments, CdnResourceCreate, CdnResourceRead, CdnResourceUpdate,
             CdnResourceDelete)

NetworkRows ==
    [VpcNetwork |-> VpcNetwork, VpcSubnet |-> VpcSubnet, VpcGateway |-> VpcGateway,
     VpcAddress |-> VpcAddress, VpcRouteTable |-> VpcRouteTable,
     VpcPrivateEndpoint |-> VpcPrivateEndpoint, VpcSecurityGroup |-> VpcSecurityGroup,
     VpcDefaultSecurityGroup |-> VpcDefaultSecurityGroup, LbTargetGroup |-> LbTargetGroup,
     LbNetworkLoadBalancer |-> LbNetworkLoadBalancer, AlbTargetGroup |-> AlbTargetGroup,
     AlbBackendGroup |-> AlbBackendGroup, AlbHttpRouter |-> AlbHttpRouter,
     AlbVirtualHost |-> AlbVirtualHost, AlbLoadBalancer |-> AlbLoadBalancer,
     DnsZone |-> DnsZone, DnsRecordSet |-> DnsRecordSet, CdnOriginGroup |-> CdnOriginGroup,
     CdnResource |-> CdnResource]
=============================================================================
