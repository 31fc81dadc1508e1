---------------------------- MODULE PrivHeaders ----------------------------
(***************************************************************************)
(* The generated headers gtk-priv/h: for ten private structs of GDK, the   *)
(* definitions they had in the supported releases of GTK, the function     *)
(* that picks one, and an accessor for every member.                       *)
(*                                                                         *)
(* A release v3.x.y is the number 1000x + y, as in the headers.  A member  *)
(* is its path in the struct; where its type changes later, the earlier    *)
(* type is part of the name.  A struct embedded by value is named in       *)
(* `parts'; anything else takes one cell of its own.                       *)
(***************************************************************************)
EXTENDS Integers, SequencesExt

(* 3.24.19 is missing, and 3.24.42 was not released yet.                   *)
KnownReleases == 22000..22030 \cup 23000..23003 \cup 24000..24018 \cup 24020..24041

NoParts == [m \in {} |-> {}]
Part(header, id) == [header |-> header, id |-> id]

(* What a header says of the first version of its struct: the releases it  *)
(* is valid for, from first to last, and what it looks like.               *)
Definition(first, last, parts, members) ==
    [first |-> first, last |-> last, parts |-> parts, members |-> members]

(* A later version, as the difference to the one before it: the members    *)
(* that are gone, and the new ones by the member they come after.          *)
Change(first, last, parts, gone, added) ==
    [first |-> first, last |-> last, parts |-> parts, gone |-> gone, added |-> added]

Unchanged == NoParts

(* Accessors of members on the ids that have them.  On the others a getter *)
(* or setter of a value aborts; one that returns a pointer returns NULL.   *)
Values(ids, members)   == [member : members, ids : {ids}, otherwise : {"abort"}]
Pointers(ids, members) == [member : members, ids : {ids}, otherwise : {"NULL"}]

-----------------------------------------------------------------------------
(* gdk_wayland_pointer_frame_data_priv.h.                                  *)

GdkWaylandPointerFrameData_v3_22_0 == Definition(22000, 24042, NoParts,
    <<"event", "delta_x", "delta_y", "discrete_x", "discrete_y", "is_scroll_stop", "source">>)

gdk_wayland_pointer_frame_data_priv_get_version_id == [known |-> KnownReleases, first |-> <<>>]

GdkWaylandPointerFrameData_all ==
    Values({0}, {"event"})
    \cup Pointers({0}, {"delta_x", "delta_y", "discrete_x", "discrete_y", "is_scroll_stop", "source"})

-----------------------------------------------------------------------------
(* gdk_wayland_pointer_data_priv.h.                                        *)

GdkWaylandPointerData_v3_22_0 == Definition(22000, 24042, [frame |-> Part("GdkWaylandPointerFrameData", 0)],
    <<"focus", "surface_x", "surface_y", "button_modifiers", "time", "enter_serial",
      "press_serial", "grab_window", "grab_time", "pointer_surface", "cursor",
      "cursor_timeout_id", "cursor_image_index", "cursor_image_delay", "current_output_scale",
      "pointer_surface_outputs", "frame">>)

gdk_wayland_pointer_data_priv_get_version_id == [known |-> KnownReleases, first |-> <<>>]

GdkWaylandPointerData_focus ==
    Values({0}, {"focus", "surface_x", "surface_y", "time", "enter_serial", "press_serial",
        "grab_window", "grab_time"})
    \cup Pointers({0}, {"button_modifiers"})

GdkWaylandPointerData_cursor ==
    Values({0}, {"pointer_surface", "cursor", "cursor_timeout_id", "cursor_image_index",
        "cursor_image_delay", "current_output_scale", "pointer_surface_outputs"})
    \cup Pointers({0}, {"frame"})

-----------------------------------------------------------------------------
(* gdk_wayland_touch_data_priv.h.                                          *)

GdkWaylandTouchData_v3_22_0 == Definition(22000, 24042, NoParts,
    <<"id", "x", "y", "window", "touch_down_serial", "initial_touch">>)

gdk_wayland_touch_data_priv_get_version_id == [known |-> KnownReleases, first |-> <<>>]

GdkWaylandTouchData_all ==
    Values({0}, {"id", "window", "touch_down_serial", "initial_touch"})
    \cup Pointers({0}, {"x", "y"})

-----------------------------------------------------------------------------
(* gdk_wayland_tablet_data_priv.h.                                         *)

OnePointer == [pointer_info |-> Part("GdkWaylandPointerData", 0)]

GdkWaylandTabletData_v3_22_0 == Definition(22000, 24042, OnePointer,
    <<"wp_tablet", "name", "path", "vid", "pid", "master", "stylus_device", "eraser_device",
      "current_device", "seat", "pointer_info", "pads", "current_tool", "axis_indices", "axes">>)

gdk_wayland_tablet_data_priv_get_version_id == [known |-> KnownReleases, first |-> <<>>]

GdkWaylandTabletData_tablet ==
    Values({0}, {"wp_tablet", "name", "path", "vid", "pid"})

GdkWaylandTabletData_devices ==
    Values({0}, {"master", "stylus_device", "eraser_device", "current_device", "seat", "pads",
        "current_tool", "axes"})
    \cup Pointers({0}, {"pointer_info", "axis_indices"})

-----------------------------------------------------------------------------
(* gdk_wayland_seat_priv.h.                                                *)

TwoPointers == [pointer_info |-> Part("GdkWaylandPointerData", 0), touch_info |-> Part("GdkWaylandPointerData", 0)]

GdkWaylandSeat_v3_22_0 == Definition(22000, 22008, TwoPointers,
    <<"parent_instance", "id", "wl_seat", "wl_pointer", "wl_keyboard", "wl_touch",
      "wp_pointer_gesture_swipe", "wp_pointer_gesture_pinch", "wp_tablet_seat", "display",
      "device_manager", "master_pointer", "master_keyboard", "pointer", "wheel_scrolling",
      "finger_scrolling", "continuous_scrolling", "keyboard", "touch_master", "touch", "cursor",
      "keymap", "touches", "tablets", "tablet_tools", "tablet_pads", "pointer_info",
      "touch_info", "key_modifiers", "keyboard_focus", "pending_selection", "grab_window",
      "grab_time", "have_server_repeat", "server_repeat_rate", "server_repeat_delay",
      "repeat_callback", "repeat_timer", "repeat_key", "repeat_count", "repeat_deadline",
      "keyboard_settings", "keyboard_time", "keyboard_key_serial", "primary_data_device",
      "data_device", "drop_context", "foreign_dnd_window", "gesture_n_fingers", "gesture_scale",
      "grab_cursor">>)

GdkWaylandSeat_v3_22_9 == Change(22009, 22015, TwoPointers,
    {}, "repeat_deadline" :> <<"nkeys">>)

GdkWaylandSeat_v3_22_16 == Change(22016, 24023, TwoPointers,
    {"nkeys"}, Unchanged)

GdkWaylandSeat_v3_24_24 == Change(24024, 24042, TwoPointers,
    {"primary_data_device"},
    "keyboard_key_serial" :> <<"gtk_primary_data_device", "zwp_primary_data_device_v1">>)

gdk_wayland_seat_priv_get_version_id == [known |-> KnownReleases, first |-> <<22009, 22016, 24024>>]

GdkWaylandSeat_proxies ==
    Pointers(0..3, {"parent_instance", "id"})
    \cup Values(0..3, {"wl_seat", "wl_pointer", "wl_keyboard", "wl_touch"})

GdkWaylandSeat_gestures ==
    Values(0..3, {"wp_pointer_gesture_swipe", "wp_pointer_gesture_pinch", "wp_tablet_seat", "display",
        "device_manager"})

GdkWaylandSeat_devices ==
    Values(0..3, {"master_pointer", "master_keyboard", "pointer", "wheel_scrolling", "finger_scrolling",
        "continuous_scrolling"})

GdkWaylandSeat_touch_devices ==
    Values(0..3, {"keyboard", "touch_master", "touch"})

GdkWaylandSeat_tables ==
    Values(0..3, {"cursor", "keymap", "touches", "tablets", "tablet_tools", "tablet_pads"})

GdkWaylandSeat_info ==
    Pointers(0..3, {"pointer_info", "touch_info", "key_modifiers"})

GdkWaylandSeat_focus ==
    Values(0..3, {"keyboard_focus", "grab_window", "grab_time"})
    \cup Pointers(0..3, {"pending_selection"})

GdkWaylandSeat_repeat ==
    Values(0..3, {"have_server_repeat", "server_repeat_rate", "server_repeat_delay", "repeat_callback"})

GdkWaylandSeat_repeat_timer ==
    Pointers(0..3, {"repeat_timer", "repeat_key", "repeat_count", "repeat_deadline"})

GdkWaylandSeat_keyboard ==
    Values(0..3, {"keyboard_settings", "keyboard_time", "keyboard_key_serial"})

GdkWaylandSeat_primary ==
    Values(0..2, {"primary_data_device"})

GdkWaylandSeat_data ==
    Values(0..3, {"data_device", "drop_context", "foreign_dnd_window", "gesture_n_fingers", "grab_cursor"})
    \cup Pointers(0..3, {"gesture_scale"})

GdkWaylandSeat_nkeys ==
    Pointers({1}, {"nkeys"})

GdkWaylandSeat_primary_devices ==
    Values({3}, {"gtk_primary_data_device", "zwp_primary_data_device_v1"})

-----------------------------------------------------------------------------
(* gdk_window_impl_priv.h.                                                 *)

GdkWindowImpl_v3_22_0 == Definition(22000, 24042, NoParts,
    <<"parent">>)

gdk_window_impl_priv_get_version_id == [known |-> KnownReleases, first |-> <<>>]

GdkWindowImpl_all ==
    Pointers({0}, {"parent"})

-----------------------------------------------------------------------------
(* gdk_window_priv.h.                                                      *)

GdkWindow_v3_22_0 == Definition(22000, 22018, NoParts,
    <<"parent_instance", "impl", "parent", "transient_for", "visual", "user_data", "x", "y",
      "event_mask", "window_type", "depth", "resize_count", "toplevel_window_type", "filters",
      "children", "children_list_node", "native_children", "background",
      "current_paint.surface", "current_paint.region", "current_paint.flushed_region",
      "current_paint.need_blend_region", "current_paint.surface_needs_composite",
      "current_paint.use_gl", "gl_paint_context", "update_area", "update_freeze_count",
      "active_update_area", "old_updated_area", "old_state", "state", "alpha",
      "fullscreen_mode", "input_only", "pass_through", "modal_hint", "composited",
      "has_alpha_background", "destroyed", "accept_focus", "focus_on_map", "shaped",
      "support_multidevice", "synthesize_crossing_event_queued", "effective_visibility",
      "visibility", "native_visibility", "viewable", "applied_shape", "in_update",
      "geometry_dirty", "event_compression", "frame_clock_events_paused", "impl_window",
      "update_and_descendants_freeze_count", "abs_x", "abs_y", "width", "height", "shadow_top",
      "shadow_left", "shadow_right", "shadow_bottom", "num_offscreen_children", "clip_region",
      "cursor", "device_cursor", "shape", "input_shape", "devices_inside", "device_events",
      "source_event_masks", "device_added_handler_id", "device_changed_handler_id",
      "frame_clock", "invalidate_handler", "drawing_context">>)

GdkWindow_v3_22_19 == Change(22019, 24010, NoParts,
    {}, "drawing_context" :> <<"opaque_region">>)

GdkWindow_v3_24_11 == Change(24011, 24042, NoParts,
    {"synthesize_crossing_event_queued"}, "state" :> <<"synthesized_crossing_event_id">>)

gdk_window_priv_get_version_id == [known |-> KnownReleases, first |-> <<22019, 24011>>]

GdkWindow_object ==
    Pointers(0..2, {"parent_instance"})
    \cup Values(0..2, {"impl", "parent", "transient_for", "visual", "user_data"})

GdkWindow_place ==
    Values(0..2, {"x", "y"})

GdkWindow_type ==
    Pointers(0..2, {"event_mask", "window_type", "depth", "resize_count", "toplevel_window_type"})

GdkWindow_tree ==
    Values(0..2, {"filters", "children", "native_children"})
    \cup Pointers(0..2, {"children_list_node"})

GdkWindow_paint ==
    Values(0..2, {"background", "current_paint.surface", "current_paint.region",
        "current_paint.flushed_region", "current_paint.need_blend_region",
        "current_paint.surface_needs_composite", "current_paint.use_gl"})

GdkWindow_update ==
    Values(0..2, {"gl_paint_context", "update_area", "update_freeze_count", "active_update_area"})
    \cup Pointers(0..2, {"old_updated_area"})

GdkWindow_state ==
    Pointers(0..2, {"old_state", "state", "alpha", "fullscreen_mode"})

GdkWindow_input_flags ==
    Values(0..2, {"input_only", "pass_through", "modal_hint", "composited", "has_alpha_background"})

GdkWindow_focus_flags ==
    Values(0..2, {"destroyed", "accept_focus", "focus_on_map", "shaped", "support_multidevice"})

GdkWindow_queued ==
    Values(0..1, {"synthesize_crossing_event_queued"})

GdkWindow_visibility ==
    Values(0..2, {"effective_visibility", "visibility", "native_visibility", "viewable", "applied_shape"})

GdkWindow_update_flags ==
    Values(0..2, {"in_update", "geometry_dirty", "event_compression", "frame_clock_events_paused"})

GdkWindow_impl_window ==
    Values(0..2, {"impl_window", "update_and_descendants_freeze_count"})

GdkWindow_extents ==
    Values(0..2, {"abs_x", "abs_y", "width", "height"})

GdkWindow_shadow ==
    Values(0..2, {"shadow_top", "shadow_left", "shadow_right", "shadow_bottom"})

GdkWindow_shapes ==
    Values(0..2, {"num_offscreen_children", "clip_region", "cursor", "device_cursor", "shape",
        "input_shape"})

GdkWindow_devices ==
    Values(0..2, {"devices_inside", "device_events", "source_event_masks"})
    \cup Pointers(0..2, {"device_added_handler_id", "device_changed_handler_id"})

GdkWindow_clock ==
    Values(0..2, {"frame_clock", "drawing_context"})
    \cup Pointers(0..2, {"invalidate_handler"})

GdkWindow_opaque ==
    Values(1..2, {"opaque_region"})

GdkWindow_crossing ==
    Values({2}, {"synthesized_crossing_event_id"})

-----------------------------------------------------------------------------
(* gdk_window_impl_class_priv.h.                                           *)

GdkWindowImplClass_v3_22_0 == Definition(22000, 24034, NoParts,
    <<"parent_class", "ref_cairo_surface", "create_similar_image_surface", "show", "hide",
      "withdraw", "raise", "lower", "restack_under", "restack_toplevel", "move_resize",
      "move_to_rect", "set_background", "get_events", "set_events", "reparent",
      "set_device_cursor", "get_geometry", "get_root_coords", "get_device_state", "begin_paint",
      "end_paint", "get_shape", "get_input_shape", "shape_combine_region",
      "input_shape_combine_region", "queue_antiexpose", "destroy", "destroy_foreign", "beep",
      "focus", "set_type_hint", "get_type_hint", "set_modal_hint", "set_skip_taskbar_hint",
      "set_skip_pager_hint", "set_urgency_hint", "set_geometry_hints", "set_title", "set_role",
      "set_startup_id", "set_transient_for", "get_frame_extents", "set_override_redirect",
      "set_accept_focus", "set_focus_on_map", "set_icon_list", "set_icon_name", "iconify",
      "deiconify", "stick", "unstick", "maximize", "unmaximize", "fullscreen",
      "fullscreen_on_monitor", "apply_fullscreen_mode", "unfullscreen", "set_keep_above",
      "set_keep_below", "get_group", "set_group", "set_decorations", "get_decorations",
      "set_functions", "begin_resize_drag", "begin_move_drag", "enable_synchronized_configure",
      "configure_finished", "set_opacity", "set_composited", "destroy_notify",
      "get_drag_protocol", "register_dnd", "drag_begin", "process_updates_recurse",
      "sync_rendering", "simulate_key", "simulate_button", "get_property", "change_property",
      "delete_property", "get_scale_factor", "get_unscaled_size", "set_opaque_region",
      "set_shadow_width", "show_window_menu", "create_gl_context", "realize_gl_context",
      "invalidate_for_new_frame", "create_draw_context", "destroy_draw_context">>)

GdkWindowImplClass_v3_24_35 == Change(24035, 24042, NoParts,
    {}, "destroy_draw_context" :> <<"titlebar_gesture">>)

gdk_window_impl_class_priv_get_version_id == [known |-> KnownReleases, first |-> <<24035>>]

GdkWindowImplClass_show ==
    Pointers(0..1, {"parent_class"})
    \cup Values(0..1, {"ref_cairo_surface", "create_similar_image_surface", "show", "hide", "withdraw"})

GdkWindowImplClass_stack ==
    Values(0..1, {"raise", "lower", "restack_under", "restack_toplevel"})

GdkWindowImplClass_place ==
    Values(0..1, {"move_resize", "move_to_rect", "set_background", "get_events", "set_events", "reparent",
        "set_device_cursor"})

GdkWindowImplClass_query ==
    Values(0..1, {"get_geometry", "get_root_coords", "get_device_state", "begin_paint", "end_paint"})

GdkWindowImplClass_shape ==
    Values(0..1, {"get_shape", "get_input_shape", "shape_combine_region", "input_shape_combine_region",
        "queue_antiexpose"})

GdkWindowImplClass_focus ==
    Values(0..1, {"destroy", "destroy_foreign", "beep", "focus"})

GdkWindowImplClass_hints ==
    Values(0..1, {"set_type_hint", "get_type_hint", "set_modal_hint", "set_skip_taskbar_hint",
        "set_skip_pager_hint", "set_urgency_hint"})

GdkWindowImplClass_titles ==
    Values(0..1, {"set_geometry_hints", "set_title", "set_role", "set_startup_id", "set_transient_for",
        "get_frame_extents"})

GdkWindowImplClass_manage ==
    Values(0..1, {"set_override_redirect", "set_accept_focus", "set_focus_on_map", "set_icon_list",
        "set_icon_name"})

GdkWindowImplClass_iconify ==
    Values(0..1, {"iconify", "deiconify", "stick", "unstick", "maximize", "unmaximize"})

GdkWindowImplClass_fullscreen ==
    Values(0..1, {"fullscreen", "fullscreen_on_monitor", "apply_fullscreen_mode", "unfullscreen",
        "set_keep_above", "set_keep_below"})

GdkWindowImplClass_group ==
    Values(0..1, {"get_group", "set_group", "set_decorations", "get_decorations", "set_functions"})

GdkWindowImplClass_drag ==
    Values(0..1, {"begin_resize_drag", "begin_move_drag", "enable_synchronized_configure",
        "configure_finished"})

GdkWindowImplClass_appearance ==
    Values(0..1, {"set_opacity", "set_composited", "destroy_notify"})

GdkWindowImplClass_dnd ==
    Values(0..1, {"get_drag_protocol", "register_dnd", "drag_begin"})

GdkWindowImplClass_simulate ==
    Values(0..1, {"process_updates_recurse", "sync_rendering", "simulate_key", "simulate_button"})

GdkWindowImplClass_property ==
    Values(0..1, {"get_property", "change_property", "delete_property"})

GdkWindowImplClass_scale ==
    Values(0..1, {"get_scale_factor", "get_unscaled_size", "set_opaque_region", "set_shadow_width",
        "show_window_menu"})

GdkWindowImplClass_draw ==
    Values(0..1, {"create_gl_context", "realize_gl_context", "invalidate_for_new_frame",
        "create_draw_context", "destroy_draw_context"})

GdkWindowImplClass_titlebar ==
    Values({1}, {"titlebar_gesture"})

-----------------------------------------------------------------------------
(* gdk_window_impl_wayland_class_priv.h.                                   *)

GdkWindowImplWaylandClass_v3_22_0 == Definition(22000, 24034, [parent_class |-> Part("GdkWindowImplClass", 0)],
    <<"parent_class">>)

GdkWindowImplWaylandClass_v3_24_35 == Change(24035, 24042, [parent_class |-> Part("GdkWindowImplClass", 1)],
    {}, Unchanged)

gdk_window_impl_wayland_class_priv_get_version_id == [known |-> KnownReleases, first |-> <<24035>>]

GdkWindowImplWaylandClass_all ==
    Pointers(0..1, {"parent_class"})

-----------------------------------------------------------------------------
(* gdk_window_impl_wayland_priv.h.                                         *)

OfImpl == [parent_instance |-> Part("GdkWindowImpl", 0)]

GdkWindowImplWayland_v3_22_0 == Definition(22000, 22015, OfImpl,
    <<"parent_instance", "wrapper", "display_server.outputs", "display_server.wl_surface",
      "display_server.xdg_surface : zxdg_surface_v6",
      "display_server.xdg_toplevel : zxdg_toplevel_v6",
      "display_server.xdg_popup : zxdg_popup_v6", "display_server.gtk_surface",
      "display_server.wl_subsurface", "display_server.egl_window",
      "display_server.dummy_egl_window", "display_server.xdg_exported", "egl_surface",
      "dummy_egl_surface", "initial_configure_received", "mapped", "use_custom_surface",
      "pending_buffer_attached", "pending_commit", "awaiting_frame", "hint", "transient_for",
      "popup_parent", "position_method", "staging_cairo_surface", "committed_cairo_surface",
      "backfill_cairo_surface", "pending_buffer_offset_x", "pending_buffer_offset_y", "title",
      "application.was_set", "application.application_id", "application.app_menu_path",
      "application.menubar_path", "application.window_object_path",
      "application.application_object_path", "application.unique_bus_name", "geometry_hints",
      "geometry_mask", "grab_input_seat", "pending_frame_counter", "scale", "margin_left",
      "margin_right", "margin_top", "margin_bottom", "margin_dirty",
      "initial_fullscreen_monitor", "opaque_region", "opaque_region_dirty", "input_region",
      "input_region_dirty", "staged_updates_region", "saved_width", "saved_height",
      "parent_surface_committed_handler", "pending_move_to_rect.rect",
      "pending_move_to_rect.rect_anchor", "pending_move_to_rect.window_anchor",
      "pending_move_to_rect.anchor_hints", "pending_move_to_rect.rect_anchor_dx",
      "pending_move_to_rect.rect_anchor_dy", "pending.width", "pending.height", "pending.state",
      "exported.callback", "exported.user_data", "exported.destroy_func",
      "imported_transient_for">>)

GdkWindowImplWayland_v3_22_16 == Change(22016, 22017, OfImpl,
    {"exported.callback", "exported.user_data", "exported.destroy_func"},
    "pending.state" :> <<
        "exported.handle", "exported.export_count", "exported.closures",
        "exported.idle_source_id">>)

GdkWindowImplWayland_v3_22_18 == Change(22018, 22024, OfImpl,
    {}, "imported_transient_for" :> <<"shortcuts_inhibitors">>)

GdkWindowImplWayland_v3_22_25 == Change(22025, 22029, OfImpl,
    {}, "display_server.xdg_exported" :> <<"display_server.server_decoration">>)

GdkWindowImplWayland_v3_22_30 == Change(22030, 23000, OfImpl,
    {"display_server.xdg_surface : zxdg_surface_v6",
     "display_server.xdg_toplevel : zxdg_toplevel_v6",
     "display_server.xdg_popup : zxdg_popup_v6"},
    "display_server.wl_surface" :> <<
        "display_server.xdg_surface", "display_server.xdg_toplevel", "display_server.xdg_popup",
        "display_server.zxdg_surface_v6", "display_server.zxdg_toplevel_v6",
        "display_server.zxdg_popup_v6">>)

GdkWindowImplWayland_v3_23_1 == Change(23001, 23002, OfImpl,
    {}, "awaiting_frame" :> <<"using_csd">>)

GdkWindowImplWayland_v3_23_3 == Change(23003, 24003, OfImpl,
    {}, "pending_buffer_offset_y" :> <<"subsurface_x", "subsurface_y">>)

GdkWindowImplWayland_v3_24_4 == Change(24004, 24016, OfImpl,
    {}, "initial_configure_received" :> <<"configuring_popup">>)

GdkWindowImplWayland_v3_24_17 == Change(24017, 24021, OfImpl,
    {},
    "saved_height" :> <<
        "unconfigured_width", "unconfigured_height", "fixed_size_width", "fixed_size_height">>)

GdkWindowImplWayland_v3_24_22 == Change(24022, 24024, OfImpl,
    {}, "saved_height" :> <<"saved_size_changed">>)

GdkWindowImplWayland_v3_24_25 == Change(24025, 24039, OfImpl,
    {}, "shortcuts_inhibitors" :> <<"surface_callback", "frame_callback_surfaces">>)

GdkWindowImplWayland_v3_24_40 == Change(24040, 24042, OfImpl,
    {}, "using_csd" :> <<"suspended">> @@ "pending.state" :> <<"pending.suspended">>)

gdk_window_impl_wayland_priv_get_version_id == [known |-> KnownReleases, first |->
    <<22016, 22018, 22025, 22030, 23001, 23003, 24004, 24017, 24022, 24025, 24040>>]

GdkWindowImplWayland_parent ==
    Pointers(0..11, {"parent_instance"})
    \cup Values(0..11, {"wrapper"})

GdkWindowImplWayland_display_server ==
    Values(0..11, {"display_server.outputs", "display_server.wl_surface", "display_server.gtk_surface"})

GdkWindowImplWayland_subsurface ==
    Values(0..11, {"display_server.wl_subsurface", "display_server.egl_window",
        "display_server.dummy_egl_window", "display_server.xdg_exported"})

GdkWindowImplWayland_egl ==
    Pointers(0..11, {"egl_surface", "dummy_egl_surface"})

GdkWindowImplWayland_flags ==
    Values(0..11, {"initial_configure_received", "mapped", "use_custom_surface"})

GdkWindowImplWayland_pending_flags ==
    Values(0..11, {"pending_buffer_attached", "pending_commit", "awaiting_frame"})

GdkWindowImplWayland_hint ==
    Pointers(0..11, {"hint", "position_method"})
    \cup Values(0..11, {"transient_for", "popup_parent"})

GdkWindowImplWayland_cairo ==
    Values(0..11, {"staging_cairo_surface", "committed_cairo_surface", "backfill_cairo_surface"})

GdkWindowImplWayland_buffer ==
    Values(0..11, {"pending_buffer_offset_x", "pending_buffer_offset_y", "title"})

GdkWindowImplWayland_application ==
    Values(0..11, {"application.was_set", "application.application_id", "application.app_menu_path"})

GdkWindowImplWayland_application_ids ==
    Values(0..11, {"application.menubar_path", "application.window_object_path",
        "application.application_object_path", "application.unique_bus_name"})

GdkWindowImplWayland_geometry ==
    Pointers(0..11, {"geometry_hints", "geometry_mask", "pending_frame_counter", "scale"})
    \cup Values(0..11, {"grab_input_seat"})

GdkWindowImplWayland_margin ==
    Values(0..11, {"margin_left", "margin_right", "margin_top", "margin_bottom"})

GdkWindowImplWayland_dirty ==
    Values(0..11, {"margin_dirty", "initial_fullscreen_monitor", "opaque_region", "opaque_region_dirty"})

GdkWindowImplWayland_region ==
    Values(0..11, {"input_region", "input_region_dirty", "staged_updates_region"})

GdkWindowImplWayland_saved ==
    Values(0..11, {"saved_width", "saved_height"})
    \cup Pointers(0..11, {"parent_surface_committed_handler"})

GdkWindowImplWayland_move_to_rect ==
    Pointers(0..11, {"pending_move_to_rect.rect", "pending_move_to_rect.rect_anchor",
        "pending_move_to_rect.window_anchor", "pending_move_to_rect.anchor_hints"})
    \cup Values(0..11, {"pending_move_to_rect.rect_anchor_dx", "pending_move_to_rect.rect_anchor_dy"})

GdkWindowImplWayland_pending ==
    Values(0..11, {"pending.width", "pending.height"})
    \cup Pointers(0..11, {"pending.state"})

GdkWindowImplWayland_callback ==
    Pointers({0}, {"exported.callback", "exported.destroy_func"})
    \cup Values({0}, {"exported.user_data"})

GdkWindowImplWayland_imported ==
    Values(0..11, {"imported_transient_for"})

GdkWindowImplWayland_exported ==
    Values(1..11, {"exported.handle", "exported.export_count"})

GdkWindowImplWayland_closures ==
    Values(1..11, {"exported.closures", "exported.idle_source_id"})

GdkWindowImplWayland_inhibitors ==
    Values(2..11, {"shortcuts_inhibitors"})

GdkWindowImplWayland_decoration ==
    Values(3..11, {"display_server.server_decoration"})

GdkWindowImplWayland_xdg ==
    Values(4..11, {"display_server.xdg_surface", "display_server.xdg_toplevel", "display_server.xdg_popup"})

GdkWindowImplWayland_zxdg ==
    Values(4..11, {"display_server.zxdg_surface_v6", "display_server.zxdg_toplevel_v6",
        "display_server.zxdg_popup_v6"})

GdkWindowImplWayland_csd ==
    Values(5..11, {"using_csd"})

GdkWindowImplWayland_offset ==
    Values(6..11, {"subsurface_x", "subsurface_y"})

GdkWindowImplWayland_popup ==
    Values(7..11, {"configuring_popup"})

GdkWindowImplWayland_unconfigured ==
    Values(8..11, {"unconfigured_width", "unconfigured_height"})

GdkWindowImplWayland_fixed ==
    Values(8..11, {"fixed_size_width", "fixed_size_height"})

GdkWindowImplWayland_changed ==
    Values(9..11, {"saved_size_changed"})

GdkWindowImplWayland_frame ==
    Values(10..11, {"surface_callback", "frame_callback_surfaces"})

GdkWindowImplWayland_suspended ==
    Values({11}, {"suspended", "pending.suspended"})
-----------------------------------------------------------------------------
(* The headers by the name of their struct; version id n is entry n + 1.   *)

Layouts ==
    [GdkWindow |->
        <<GdkWindow_v3_22_0, GdkWindow_v3_22_19, GdkWindow_v3_24_11>>,
     GdkWindowImpl |->
        <<GdkWindowImpl_v3_22_0>>,
     GdkWindowImplClass |->
        <<GdkWindowImplClass_v3_22_0, GdkWindowImplClass_v3_24_35>>,
     GdkWindowImplWayland |->
        <<GdkWindowImplWayland_v3_22_0, GdkWindowImplWayland_v3_22_16,
          GdkWindowImplWayland_v3_22_18, GdkWindowImplWayland_v3_22_25,
          GdkWindowImplWayland_v3_22_30, GdkWindowImplWayland_v3_23_1,
          GdkWindowImplWayland_v3_23_3, GdkWindowImplWayland_v3_24_4,
          GdkWindowImplWayland_v3_24_17, GdkWindowImplWayland_v3_24_22,
          GdkWindowImplWayland_v3_24_25, GdkWindowImplWayland_v3_24_40>>,
     GdkWindowImplWaylandClass |->
        <<GdkWindowImplWaylandClass_v3_22_0, GdkWindowImplWaylandClass_v3_24_35>>,
     GdkWaylandSeat |->
        <<GdkWaylandSeat_v3_22_0, GdkWaylandSeat_v3_22_9, GdkWaylandSeat_v3_22_16,
          GdkWaylandSeat_v3_24_24>>,
     GdkWaylandPointerData |->
        <<GdkWaylandPointerData_v3_22_0>>,
     GdkWaylandPointerFrameData |->
        <<GdkWaylandPointerFrameData_v3_22_0>>,
     GdkWaylandTouchData |->
        <<GdkWaylandTouchData_v3_22_0>>,
     GdkWaylandTabletData |->
        <<GdkWaylandTabletData_v3_22_0>>]

(* The members of each version, in order.                                  *)
After(before, new, members) ==
    LET i == CHOOSE n \in DOMAIN members : members[n] = before
    IN  SubSeq(members, 1, i) \o new \o SubSeq(members, i + 1, Len(members))

Updated(members, change) ==
    FoldSet(LAMBDA before, done : After(before, change.added[before], done),
            SelectSeq(members, LAMBDA m : m \notin change.gone), DOMAIN change.added)

Members ==
    [h \in DOMAIN Layouts |->
        LET versions[k \in DOMAIN Layouts[h]] ==
                IF k = 1 THEN Layouts[h][k].members ELSE Updated(versions[k - 1], Layouts[h][k])
        IN  versions]

(* How many cells a version takes, those of the structs in it included.    *)
Width ==
    LET width[p \in UNION {{Part(h, k - 1) : k \in DOMAIN Layouts[h]} : h \in DOMAIN Layouts}] ==
            FoldFunction(LAMBDA q, n : n + width[q] - 1,
                         Len(Members[p.header][p.id + 1]), Layouts[p.header][p.id + 1].parts)
    IN  width

(* The places of the members: the struct is laid out in order.             *)
Offsets(members, parts) ==
    LET Index(m) == CHOOSE n \in DOMAIN members : members[n] = m
    IN  [m \in Range(members) |->
            FoldFunctionOnSet(LAMBDA q, n : n + Width[q] - 1, Index(m) - 1, parts,
                              {p \in DOMAIN parts : Index(p) < Index(m)})]

VersionIds ==
    [GdkWindow |-> gdk_window_priv_get_version_id,
     GdkWindowImpl |-> gdk_window_impl_priv_get_version_id,
     GdkWindowImplClass |-> gdk_window_impl_class_priv_get_version_id,
     GdkWindowImplWayland |-> gdk_window_impl_wayland_priv_get_version_id,
     GdkWindowImplWaylandClass |-> gdk_window_impl_wayland_class_priv_get_version_id,
     GdkWaylandSeat |-> gdk_wayland_seat_priv_get_version_id,
     GdkWaylandPointerData |-> gdk_wayland_pointer_data_priv_get_version_id,
     GdkWaylandPointerFrameData |-> gdk_wayland_pointer_frame_data_priv_get_version_id,
     GdkWaylandTouchData |-> gdk_wayland_touch_data_priv_get_version_id,
     GdkWaylandTabletData |-> gdk_wayland_tablet_data_priv_get_version_id]

Accessors ==
    [GdkWindow |->
        UNION {GdkWindow_object, GdkWindow_place, GdkWindow_type, GdkWindow_tree,
               GdkWindow_paint, GdkWindow_update, GdkWindow_state, GdkWindow_input_flags,
               GdkWindow_focus_flags, GdkWindow_queued, GdkWindow_visibility,
               GdkWindow_update_flags, GdkWindow_impl_window, GdkWindow_extents,
               GdkWindow_shadow, GdkWindow_shapes, GdkWindow_devices, GdkWindow_clock,
               GdkWindow_opaque, GdkWindow_crossing},
     GdkWindowImpl |->
        UNION {GdkWindowImpl_all},
     GdkWindowImplClass |->
        UNION {GdkWindowImplClass_show, GdkWindowImplClass_stack, GdkWindowImplClass_place,
               GdkWindowImplClass_query, GdkWindowImplClass_shape, GdkWindowImplClass_focus,
               GdkWindowImplClass_hints, GdkWindowImplClass_titles, GdkWindowImplClass_manage,
               GdkWindowImplClass_iconify, GdkWindowImplClass_fullscreen,
               GdkWindowImplClass_group, GdkWindowImplClass_drag, GdkWindowImplClass_appearance,
               GdkWindowImplClass_dnd, GdkWindowImplClass_simulate, GdkWindowImplClass_property,
               GdkWindowImplClass_scale, GdkWindowImplClass_draw, GdkWindowImplClass_titlebar},
     GdkWindowImplWayland |->
        UNION {GdkWindowImplWayland_parent, GdkWindowImplWayland_display_server,
               GdkWindowImplWayland_subsurface, GdkWindowImplWayland_egl,
               GdkWindowImplWayland_flags, GdkWindowImplWayland_pending_flags,
               GdkWindowImplWayland_hint, GdkWindowImplWayland_cairo,
               GdkWindowImplWayland_buffer, GdkWindowImplWayland_application,
               GdkWindowImplWayland_application_ids, GdkWindowImplWayland_geometry,
               GdkWindowImplWayland_margin, GdkWindowImplWayland_dirty,
               GdkWindowImplWayland_region, GdkWindowImplWayland_saved,
               GdkWindowImplWayland_move_to_rect, GdkWindowImplWayland_pending,
               GdkWindowImplWayland_callback, GdkWindowImplWayland_imported,
               GdkWindowImplWayland_exported, GdkWindowImplWayland_closures,
               GdkWindowImplWayland_inhibitors, GdkWindowImplWayland_decoration,
               GdkWindowImplWayland_xdg, GdkWindowImplWayland_zxdg, GdkWindowImplWayland_csd,
               GdkWindowImplWayland_offset, GdkWindowImplWayland_popup,
               GdkWindowImplWayland_unconfigured, GdkWindowImplWayland_fixed,
               GdkWindowImplWayland_changed, GdkWindowImplWayland_frame,
               GdkWindowImplWayland_suspended},
     GdkWindowImplWaylandClass |->
        UNION {GdkWindowImplWaylandClass_all},
     GdkWaylandSeat |->
        UNION {GdkWaylandSeat_proxies, GdkWaylandSeat_gestures, GdkWaylandSeat_devices,
               GdkWaylandSeat_touch_devices, GdkWaylandSeat_tables, GdkWaylandSeat_info,
               GdkWaylandSeat_focus, GdkWaylandSeat_repeat, GdkWaylandSeat_repeat_timer,
               GdkWaylandSeat_keyboard, GdkWaylandSeat_primary, GdkWaylandSeat_data,
               GdkWaylandSeat_nkeys, GdkWaylandSeat_primary_devices},
     GdkWaylandPointerData |->
        UNION {GdkWaylandPointerData_focus, GdkWaylandPointerData_cursor},
     GdkWaylandPointerFrameData |->
        UNION {GdkWaylandPointerFrameData_all},
     GdkWaylandTouchData |->
        UNION {GdkWaylandTouchData_all},
     GdkWaylandTabletData |->
        UNION {GdkWaylandTabletData_tablet, GdkWaylandTabletData_devices}]
=============================================================================
